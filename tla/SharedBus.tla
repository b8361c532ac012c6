------------------------------ MODULE SharedBus ------------------------------
(***************************************************************************)
(* The drivers that share one I2C bus: the FRAM driver                     *)
(* (lib/Cypress_FM24W256), which sends a read byte by byte and takes no    *)
(* lock, and the driver of the UART bridge (lib/ZDU0110RFX), which locks   *)
(* the bus for each operation.  Every call of mbed's I2C class waits for   *)
(* the bus to be free or held by its own thread; the lock is recursive.    *)
(* The devices are external.                                               *)
(***************************************************************************)
EXTENDS Integers, Sequences

CONSTANTS
  FramThreads, BridgeThreads, \* the threads that call each driver
  none,                       \* no thread; also: no known cell
  MaxHigh,                    \* high byte of maxAddress: 127
  MemoryAtPowerUp,            \* what the FRAM has kept
  Asked,                      \* the addresses reads and writes are called with
  Data,                       \* the bytes that are written
  MaxLen,                     \* bound: bytes of a read, write, send or recv
  FramWrite, FramRead,        \* the two bytes that address the FRAM
  Registers, status,          \* the bridge's registers that are queried, and
                              \* the one of read_uart_status
  TxSize,                     \* size of the bridge's transmit buffer
  MaxDepth                    \* bound: recv calls of one thread

Threads == FramThreads \cup BridgeThreads
MaxByte == 2 * MaxHigh + 1
Byte    == 0..MaxByte
Cells   == (0..MaxHigh) \X Byte

ASSUME BusAssumption ==
  /\ none \notin Threads /\ none \notin Byte \X Byte
  /\ MaxHigh \in Nat /\ MemoryAtPowerUp \in [Cells -> Byte]
  /\ Asked \subseteq Byte \X Byte /\ Data \subseteq Byte
  /\ MaxLen \in 1..MaxByte
  /\ FramWrite \in Byte /\ FramRead \in Byte /\ FramWrite # FramRead
  /\ TxSize \in Nat \ {0} /\ MaxDepth \in Nat \ {0}

VARIABLES
  owner, depth,       \* the thread that holds the lock, and how often
  bus,                \* what the next byte is to the slave that listens, or
                      \* "idle" if none does
  latch, memory,      \* the FRAM: its current cell, its contents
  pointer,            \* the bridge: the register addressed, if any
  tx, arrived,        \* the bridge: how full its transmit buffer is, and what
                      \* has come in the transfer in progress
  pc,                 \* the next call each thread makes
  job,                \* the operation it is in: op, address, length
  ack,                \* what the last call answered: 0 no, 1 yes, 3 no such cell
  data,               \* what it has read, or the register a query read
  count,              \* i of send and recv
  torn,               \* observer: was the bus used by another thread while
                      \* this one was reading its bytes?
  next,               \* observer: the cell after the last one read or written
  recvCalled          \* observer: has any thread called recv?

lockVars   == <<owner, depth>>
fram       == <<latch, memory>>
bridge     == <<pointer, tx, arrived>>
threadVars == <<pc, job, ack, data, count>>
observers  == <<torn, next, recvCalled>>
vars == <<lockVars, bus, fram, bridge, threadVars, observers>>

NoJob == [op |-> "none", addr |-> none, len |-> 0]

Init ==
  /\ owner = none /\ depth = 0
  /\ bus = "idle" /\ memory = MemoryAtPowerUp /\ latch = <<0, 0>>
  /\ pointer = none /\ tx = 0 /\ arrived = <<>>
  /\ pc = [t \in Threads |-> "idle"]
  /\ job = [t \in Threads |-> NoJob]
  /\ ack = [t \in Threads |-> 0]
  /\ data = [t \in Threads |-> <<>>]
  /\ count = [t \in Threads |-> 0]
  /\ torn = [t \in Threads |-> FALSE] /\ next = none /\ recvCalled = FALSE

----------------------------------------------------------------------------
(***************************************************************************)
(* The lock, and what a thread's use of the bus does to a read in progress.*)
(***************************************************************************)
Free(t) == owner \in {none, t}

\* Mutant: the operations of the bridge do not lock the bus.
AcquireNothing(t) == Free(t) /\ UNCHANGED lockVars

Acquire(t) == Free(t) /\ owner' = t /\ depth' = depth + 1

\* Mutant: unlock() is forgotten.
ReleaseNothing(t) == UNCHANGED lockVars

Release(t) ==
  /\ depth' = depth - 1
  /\ owner' = IF depth = 1 THEN none ELSE owner

Goto(t, place) == pc' = [pc EXCEPT ![t] = place]

Disturbed(t, u) == torn[u] \/ (u # t /\ pc[u] = "byte")

Disturb(t) == torn' = [u \in Threads |-> Disturbed(t, u)]

\* The same, and nothing has disturbed t itself yet.
DisturbOthers(t) == torn' = [u \in Threads |-> u # t /\ Disturbed(t, u)]

----------------------------------------------------------------------------
(***************************************************************************)
(* The FRAM as a slave: what it does with a byte on the wire.              *)
(***************************************************************************)
Masked(high) == IF high <= MaxHigh THEN high ELSE high - (MaxHigh + 1)

\* The cell k after a, for k of at most one page; after the last one, the first.
CellAt(a, k) ==
  IF a[2] + k <= MaxByte
  THEN <<a[1], a[2] + k>>
  ELSE <<IF a[1] = MaxHigh THEN 0 ELSE a[1] + 1, a[2] + k - (MaxByte + 1)>>

Unheard == [bus |-> "idle", latch |-> latch, memory |-> memory, ack |-> 0]
Heard(state, cell) ==
  [bus |-> state, latch |-> cell, memory |-> memory, ack |-> 1]

OnWire(b) ==
  CASE bus = "start" /\ b = FramWrite -> Heard("high", latch)
    [] bus = "start" /\ b = FramRead  -> Heard("out", latch)
    [] bus = "high" -> Heard("low", <<Masked(b), latch[2]>>)
    [] bus = "low"  -> Heard("data", <<latch[1], b>>)
    [] bus = "data" ->
         [Heard("data", CellAt(latch, 1)) EXCEPT !.memory[latch] = b]
    [] OTHER -> Unheard

\* A slave may fail to answer to its address.
Outcomes(b) == {OnWire(b)} \cup (IF bus = "start" THEN {Unheard} ELSE {})

----------------------------------------------------------------------------
(***************************************************************************)
(* Cypress_FRAM::read and its variants.  Only read_int16 takes a signed    *)
(* address, which is never above maxAddress once its top bit is set; the   *)
(* reads without an address go on at the current cell, and read() of one   *)
(* byte reads it even if its address was not acknowledged.                 *)
(***************************************************************************)
AddressedReads == {"read", "read_int16"}
CurrentReads   == {"read_here", "read_byte_here"}

TooHigh(op, a) == op # "read_int16" /\ a[1] > MaxHigh

Lengths(op) == {n \in 1..MaxLen : /\ op = "read_int16" => n = 2
                                  /\ op = "read_byte_here" => n = 1}

NewJob(t, op, a, n) ==
  /\ job' = [job EXCEPT ![t] = [op |-> op, addr |-> a, len |-> n]]
  /\ data' = [data EXCEPT ![t] = <<>>]

ReadAt(t) ==
  \E op \in AddressedReads, a \in Asked : \E n \in Lengths(op) :
    /\ t \in FramThreads /\ pc[t] = "idle" /\ Free(t)
    /\ ~TooHigh(op, a)
    /\ NewJob(t, op, a, n)
    /\ bus' = "start" /\ Goto(t, "addressWrite") /\ Disturb(t)
    /\ UNCHANGED <<lockVars, fram, bridge, ack, count, next, recvCalled>>

\* Invalid memory address: nothing but the stop is sent.
ReadNowhere(t) ==
  \E op \in AddressedReads, a \in Asked : \E n \in Lengths(op) :
    /\ t \in FramThreads /\ pc[t] = "idle"
    /\ TooHigh(op, a)
    /\ NewJob(t, op, a, n)
    /\ ack' = [ack EXCEPT ![t] = 3] /\ Goto(t, "stop")
    /\ UNCHANGED <<lockVars, bus, fram, bridge, count, observers>>

ReadHere(t) ==
  \E op \in CurrentReads : \E n \in Lengths(op) :
    /\ t \in FramThreads /\ pc[t] = "idle" /\ Free(t)
    /\ NewJob(t, op, next, n)
    /\ bus' = "start" /\ Goto(t, "addressRead") /\ Disturb(t)
    /\ UNCHANGED <<lockVars, fram, bridge, ack, count, next, recvCalled>>

\* _i2c->write(b), and on success on to the next call.
WriteByte(t, b, place) ==
  /\ Free(t)
  /\ \E o \in Outcomes(b) :
       /\ bus' = o.bus /\ latch' = o.latch /\ memory' = o.memory
       /\ ack' = [ack EXCEPT ![t] = o.ack]
       /\ Goto(t, IF o.ack = 1 THEN place ELSE "stop")
  /\ Disturb(t)
  /\ UNCHANGED <<lockVars, bridge, job, data, count, next, recvCalled>>

AddressWrite(t) == pc[t] = "addressWrite" /\ WriteByte(t, FramWrite, "high")

\* Mutant: the two bytes of the address are swapped.
SwappedHigh(t) == pc[t] = "high" /\ WriteByte(t, job[t].addr[2], "low")

High(t) == pc[t] = "high" /\ WriteByte(t, job[t].addr[1], "low")

\* Mutant: no second start, so the address to read is taken as data.
LowNoRestart(t) ==
  pc[t] = "low" /\ WriteByte(t, job[t].addr[2], "addressRead")

Low(t) == pc[t] = "low" /\ WriteByte(t, job[t].addr[2], "restart")

Restart(t) ==
  /\ pc[t] = "restart" /\ Free(t)
  /\ bus' = "start" /\ Goto(t, "addressRead") /\ Disturb(t)
  /\ UNCHANGED <<lockVars, fram, bridge, job, ack, data, count, next, recvCalled>>

AddressRead(t) ==
  /\ pc[t] = "addressRead" /\ Free(t)
  /\ \E o \in Outcomes(FramRead) :
       /\ bus' = o.bus /\ latch' = o.latch /\ memory' = o.memory
       /\ ack' = [ack EXCEPT ![t] = o.ack]
       /\ Goto(t, IF o.ack = 1 \/ job[t].op = "read_byte_here"
                  THEN "byte" ELSE "stop")
  /\ DisturbOthers(t)
  /\ UNCHANGED <<lockVars, bridge, job, data, count, next, recvCalled>>

\* _i2c->read(my_ack): the last byte is not acknowledged, which ends the
\* transfer for the FRAM; with no slave sending, any byte may be read.
ReadByte(t) ==
  /\ pc[t] = "byte" /\ Free(t)
  /\ LET last == Len(data[t]) + 1 = job[t].len IN
       /\ \E b \in IF bus = "out" THEN {memory[latch]} ELSE Byte :
            data' = [data EXCEPT ![t] = Append(@, b)]
       /\ latch' = IF bus = "out" THEN CellAt(latch, 1) ELSE latch
       /\ bus' = IF last THEN "idle" ELSE bus
       /\ Goto(t, IF last THEN "stop" ELSE "byte")
  /\ Disturb(t)
  /\ UNCHANGED <<lockVars, memory, bridge, job, ack, count, next, recvCalled>>

Succeeded(t) == ack[t] = 1

Stop(t) ==
  /\ pc[t] = "stop" /\ Free(t)
  /\ bus' = "idle" /\ Goto(t, "idle") /\ DisturbOthers(t)
  /\ next' = IF Succeeded(t) /\ ~torn[t] /\ job[t].addr # none
             THEN CellAt(<<Masked(job[t].addr[1]), job[t].addr[2]>>, job[t].len)
             ELSE none
  /\ job' = [job EXCEPT ![t] = NoJob]
  /\ data' = [data EXCEPT ![t] = <<>>] /\ ack' = [ack EXCEPT ![t] = 0]
  /\ UNCHANGED <<lockVars, fram, bridge, count, recvCalled>>

(***************************************************************************)
(* Cypress_FRAM::write and its variants: one call of I2C::write, which     *)
(* locks the bus itself.  Only the first address is checked; what goes     *)
(* beyond the last cell is stored from the first on.                       *)
(***************************************************************************)
Stored(a, bytes) ==
  [c \in Cells |->
     IF \E k \in DOMAIN bytes : CellAt(a, k - 1) = c
     THEN bytes[CHOOSE k \in DOMAIN bytes : CellAt(a, k - 1) = c]
     ELSE memory[c]]

Write(t) ==
  \E a \in Asked, n \in 1..MaxLen : \E bytes \in [1..n -> Data] :
    /\ t \in FramThreads /\ pc[t] = "idle" /\ Free(t)
    /\ a[1] <= MaxHigh
    /\ \/ /\ memory' = Stored(a, bytes)
          /\ latch' = CellAt(a, n) /\ next' = CellAt(a, n)
       \/ next' = none /\ UNCHANGED fram            \* no slave
    /\ bus' = "idle" /\ Disturb(t)
    /\ UNCHANGED <<lockVars, bridge, threadVars, recvCalled>>

----------------------------------------------------------------------------
(***************************************************************************)
(* Zilog_SerialBridge.  Settings (baud, watermarks, data bits, parity, ...)*)
(* are one locked transfer that changes nothing here but the bus;          *)
(* reset_buffers and reset_uart empty the transmit buffer.                 *)
(***************************************************************************)
Configure(t) ==
  /\ t \in BridgeThreads /\ pc[t] = "idle" /\ Free(t)
  /\ bus' = "idle" /\ tx' \in {tx, 0} /\ Disturb(t)
  /\ UNCHANGED <<lockVars, fram, pointer, arrived, threadVars, next, recvCalled>>

\* get_baud, read_uart_status, get_buffer_level, the watermarks and the
\* interrupt status: write the register, then read it, under one lock.
Ask(t) ==
  \E r \in Registers :
    /\ t \in BridgeThreads /\ pc[t] = "idle"
    /\ Acquire(t) /\ depth <= MaxDepth /\ Disturb(t)
    /\ job' = [job EXCEPT ![t] = [op |-> r, addr |-> none, len |-> 0]]
    /\ \/ /\ pointer' = r /\ bus' = "bridge"
          /\ ack' = [ack EXCEPT ![t] = 1] /\ Goto(t, "answer")
       \/ /\ ack' = [ack EXCEPT ![t] = 0] /\ Goto(t, "unlock")
          /\ bus' = "idle" /\ UNCHANGED pointer
    /\ UNCHANGED <<fram, tx, arrived, data, count, next, recvCalled>>

\* read_uart_status does not look at the answer to its second transfer: if
\* there was none, its buffer still has the number of the register.
Answer(t) ==
  /\ pc[t] = "answer" /\ Free(t)
  /\ \/ data' = [data EXCEPT ![t] = <<pointer>>] /\ UNCHANGED ack
     \/ /\ data' = [data EXCEPT ![t] = <<>>]
        /\ ack' = [ack EXCEPT ![t] = IF job[t].op = status THEN 1 ELSE 0]
  /\ bus' = "idle" /\ pointer' = none /\ Goto(t, "unlock") /\ Disturb(t)
  /\ UNCHANGED <<lockVars, fram, tx, arrived, job, count, next, recvCalled>>

Unlock(t) ==
  /\ pc[t] = "unlock"
  /\ Release(t) /\ Goto(t, "idle")
  /\ job' = [job EXCEPT ![t] = NoJob]
  /\ data' = [data EXCEPT ![t] = <<>>] /\ ack' = [ack EXCEPT ![t] = 0]
  /\ UNCHANGED <<bus, fram, bridge, count, observers>>

(***************************************************************************)
(* send: a byte that is not acknowledged found the buffer full and is sent *)
(* again after 100 us; the lock is held all the while.                     *)
(***************************************************************************)
SendBegin(t) ==
  \E n \in 1..MaxLen :
    /\ t \in BridgeThreads /\ pc[t] = "idle"
    /\ Acquire(t) /\ depth <= MaxDepth /\ Disturb(t)
    /\ job' = [job EXCEPT ![t] = [op |-> "send", addr |-> none, len |-> n]]
    /\ count' = [count EXCEPT ![t] = 0]
    /\ \/ /\ ack' = [ack EXCEPT ![t] = 1] /\ Goto(t, "sendByte")
          /\ bus' = "bridge" /\ arrived' = <<>>
       \/ /\ ack' = [ack EXCEPT ![t] = 0] /\ Goto(t, "sendEnd")
          /\ bus' = "idle" /\ UNCHANGED arrived
    /\ UNCHANGED <<fram, pointer, tx, data, next, recvCalled>>

\* if (ack == 1) i++; mutant: whatever the answer.
AdvanceAlways(t, answer) == count[t] + 1

Advance(t, answer) == IF answer = 1 THEN count[t] + 1 ELSE count[t]

SendByte(t) ==
  /\ pc[t] = "sendByte" /\ Free(t)
  /\ LET answer == IF tx < TxSize THEN 1 ELSE 0 IN
       /\ ack' = [ack EXCEPT ![t] = answer]
       /\ count' = [count EXCEPT ![t] = Advance(t, answer)]
       /\ Goto(t, IF count'[t] < job[t].len THEN "sendByte" ELSE "sendEnd")
       /\ IF answer = 1
          THEN /\ tx' = tx + 1
               /\ arrived' = Append(arrived, <<t, count[t] + 1>>)
          ELSE UNCHANGED <<tx, arrived>>
  /\ Disturb(t)
  /\ UNCHANGED <<lockVars, bus, fram, pointer, job, data, next, recvCalled>>

SendEnd(t) ==
  /\ pc[t] = "sendEnd" /\ Free(t)
  /\ bus' = "idle" /\ Release(t) /\ Goto(t, "idle") /\ Disturb(t)
  /\ job' = [job EXCEPT ![t] = NoJob] /\ ack' = [ack EXCEPT ![t] = 0]
  /\ count' = [count EXCEPT ![t] = 0] /\ arrived' = <<>>
  /\ UNCHANGED <<fram, pointer, tx, data, next, recvCalled>>

(***************************************************************************)
(* recv: up to max_len bytes or a zero; it neither stops the transfer nor  *)
(* releases the lock.                                                      *)
(***************************************************************************)
RecvBegin(t) ==
  \E n \in 1..MaxLen :
    /\ t \in BridgeThreads /\ pc[t] = "idle"
    /\ Acquire(t) /\ depth < MaxDepth /\ Disturb(t)
    /\ \/ /\ job' = [job EXCEPT ![t] = [op |-> "recv", addr |-> none, len |-> n]]
          /\ bus' = "bridge" /\ Goto(t, "recvByte")
       \/ bus' = "idle" /\ UNCHANGED <<job, pc>>      \* not acknowledged
    /\ recvCalled' = TRUE
    /\ UNCHANGED <<fram, bridge, ack, data, count, next>>

RecvByte(t) ==
  /\ pc[t] = "recvByte" /\ Free(t) /\ Disturb(t)
  /\ \/ /\ count[t] + 1 < job[t].len
        /\ count' = [count EXCEPT ![t] = @ + 1] /\ UNCHANGED <<pc, job>>
     \/ /\ count' = [count EXCEPT ![t] = 0] /\ Goto(t, "idle")
        /\ job' = [job EXCEPT ![t] = NoJob]
  /\ UNCHANGED <<lockVars, bus, fram, bridge, ack, data, next, recvCalled>>

\* The bridge puts a byte on the serial line.
Drain ==
  /\ tx > 0 /\ tx' = tx - 1
  /\ UNCHANGED <<lockVars, bus, fram, pointer, arrived, threadVars, observers>>

----------------------------------------------------------------------------
Begin(t) ==
  \/ ReadAt(t) \/ ReadNowhere(t) \/ ReadHere(t) \/ Write(t)
  \/ Configure(t) \/ Ask(t) \/ SendBegin(t) \/ RecvBegin(t)

Proceed(t) ==
  \/ AddressWrite(t) \/ High(t) \/ Low(t) \/ Restart(t) \/ AddressRead(t)
  \/ ReadByte(t) \/ Stop(t)
  \/ Answer(t) \/ Unlock(t)
  \/ SendByte(t) \/ SendEnd(t)
  \/ RecvByte(t)

Next == Drain \/ \E t \in Threads : Begin(t) \/ Proceed(t)

Spec == Init /\ [][Next]_vars

(***************************************************************************)
(* The mutex is handed to the thread that has waited longest, so a thread  *)
(* that can go on again and again does; the serial line takes bytes.       *)
(* Nothing has to be begun.                                                *)
(***************************************************************************)
FairSpec ==
  Spec /\ WF_vars(Drain) /\ \A t \in Threads : SF_vars(Proceed(t))

----------------------------------------------------------------------------
Places == {"idle", "addressWrite", "high", "low", "restart", "addressRead",
           "byte", "stop", "answer", "unlock", "sendByte", "sendEnd",
           "recvByte"}

Jobs == [op : AddressedReads \cup CurrentReads \cup Registers
                \cup {"none", "send", "recv"},
         addr : (Byte \X Byte) \cup {none}, len : 0..MaxLen]

(***************************************************************************)
(* Types.  The current cell stays within the memory although an invalid    *)
(* address passes the check of read_int16 and a long read or write passes  *)
(* the last cell.                                                          *)
(***************************************************************************)
TypeOK ==
  /\ owner \in Threads \cup {none} /\ depth \in 0..(MaxDepth + 1)
  /\ bus \in {"idle", "start", "high", "low", "data", "out", "bridge"}
  /\ latch \in Cells /\ memory \in [Cells -> Byte]
  /\ pointer \in Registers \cup {none}
  /\ tx \in 0..TxSize /\ arrived \in Seq(Threads \X (1..MaxLen))
  /\ pc \in [Threads -> Places]
  /\ job \in [Threads -> Jobs]
  /\ ack \in [Threads -> {0, 1, 3}]
  /\ data \in [Threads -> Seq(Byte \cup Registers \cup {none})]
  /\ count \in [Threads -> 0..MaxLen]
  /\ torn \in [Threads -> BOOLEAN] /\ next \in Cells \cup {none}
  /\ recvCalled \in BOOLEAN

(***************************************************************************)
(* A read that reports FRAM_SUCCESS has the bytes of the cells it was      *)
(* asked for (or, without an address, of those after the last ones read or *)
(* written: test_Cypress_FM24W256.cpp:43), whatever other drivers do on    *)
(* the bus between its calls, up to the acknowledged address to read.  An  *)
(* address above maxAddress is never read, except by read_int16.           *)
(***************************************************************************)
ReadIsTrueOrReported ==
  \A t \in FramThreads :
    pc[t] = "stop" /\ Succeeded(t) /\ ~torn[t] /\ job[t].addr # none =>
      LET a == job[t].addr IN
      /\ a[1] > MaxHigh => job[t].op = "read_int16"
      /\ data[t] = [k \in 1..job[t].len |->
                      memory[CellAt(<<Masked(a[1]), a[2]>>, k - 1)]]

(***************************************************************************)
(* The partial write that a read begins with stores nothing                *)
(* (cypress_fm24w256.cpp:112, "no data"), however the calls of the threads *)
(* are interleaved.  With two threads that read the FRAM it is false: the  *)
(* address one of them sends is data to the partial write of the other.    *)
(***************************************************************************)
ReadsStoreNothing ==
  [][(\E t \in Threads : pc'[t] # pc[t]) => memory' = memory]_vars

(***************************************************************************)
(* What a query returns is the register that was asked for, never one that *)
(* another thread asked for between its two transfers.  A failed           *)
(* read_uart_status returns no register at all.                            *)
(***************************************************************************)
AnswerIsToTheQuestion ==
  \A t \in BridgeThreads :
    pc[t] = "unlock" /\ Succeeded(t) =>
      \/ data[t] = <<job[t].op>>
      \/ data[t] = <<>> /\ job[t].op = status

(***************************************************************************)
(* A send that reports success has brought all its bytes to the bridge,    *)
(* each once and in order, with no byte of another send between them,      *)
(* however often the buffer was full.                                      *)
(***************************************************************************)
SendArrivesWhole ==
  \A t \in BridgeThreads :
    pc[t] = "sendEnd" /\ Succeeded(t) =>
      arrived = [i \in 1..job[t].len |-> <<t, i>>]

(***************************************************************************)
(* Every operation ends, however often the buffer of the bridge is full    *)
(* and whoever else wants the bus, as long as recv is never called.        *)
(***************************************************************************)
EndsWithoutRecv ==
  \A t \in Threads : pc[t] # "idle" ~> pc[t] = "idle" \/ recvCalled

=============================================================================
