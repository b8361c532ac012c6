-------------------------- MODULE StatusLight_proofs --------------------------
(***************************************************************************)
(* Proofs about StatusLight, for every duty-cycle resolution and all       *)
(* waiting times.  LightFitsMode is not inductive: it needs to know which  *)
(* mode the thread is working for while it is awake (WorksForTaken).       *)
(* ModeTakenInTime follows from how long the thread may still be working   *)
(* or sleeping for an earlier mode (LateAtMost).                           *)
(***************************************************************************)
EXTENDS StatusLight, TLAPS

(***************************************************************************)
(* Every wait of the thread is between one step and the slow one.          *)
(***************************************************************************)
LEMMA WaitsAreBounded ==
  ASSUME NEW m \in LED_Modes
  PROVE  WaitTime(m) \in 0..SlowWait
<1>1. /\ BreathWait \in 0..SlowWait /\ QuickWait \in 0..SlowWait
      /\ IdleWait \in 0..SlowWait /\ SlowWait \in 0..SlowWait
  BY LightAssumption
<1>2. WaitTime(m) \in {BreathWait, QuickWait, IdleWait, SlowWait}
  BY DEF WaitTime, LED_Modes
<1> QED BY <1>1, <1>2

(***************************************************************************)
(* The program starts dark, in mode off, with the thread about to read it. *)
(***************************************************************************)
LEMMA InitInvariant == Init => LightInvariant
<1> SUFFICES ASSUME Init PROVE LightInvariant
  OBVIOUS
<1>1. TypeOK
  <2>1. overlapped \in BOOLEAN
    BY DEF Init
  <2>2. Full \in Nat /\ SlowWait \in Nat /\ MaxAge \in Nat
    BY LightAssumption
  <2> QED BY <2>1, <2>2 DEF Init, TypeOK, LED_Modes, Accesses
<1>2. LightFitsMode /\ WorksForTaken /\ LateAtMost
  BY DEF Init, LightFitsMode, WorksForTaken, LateAtMost, Accesses
<1> QED BY <1>1, <1>2 DEF LightInvariant

(***************************************************************************)
(* A caller: the light shows the mode at once, and the thread is late by   *)
(* no more than what is left of its sleep.                                 *)
(***************************************************************************)
LEMMA ModeInvariant ==
  ASSUME LightInvariant, NEW newMode \in LED_Modes, Mode(newMode)
  PROVE  LightInvariant'
<1> USE LightAssumption DEF LightInvariant, Mode, thread
<1>1. TypeOK'
  BY DEF TypeOK, StartLevel
<1>2. LightFitsMode'
  BY DEF LightFitsMode, StartLevel, Flashing
<1>3. WorksForTaken'
  BY DEF WorksForTaken
<1>4. LateAtMost'
  BY DEF LateAtMost, TypeOK
<1> QED BY <1>1, <1>2, <1>3, <1>4

(***************************************************************************)
(* The thread wakes and reads the mode.                                    *)
(***************************************************************************)
LEMMA WakeInvariant == LightInvariant /\ Wake => LightInvariant'
BY LightAssumption
DEF LightInvariant, TypeOK, LightFitsMode, WorksForTaken, LateAtMost, Wake,
    observers, Accesses

LEMMA SwitchInvariant == LightInvariant /\ Switch => LightInvariant'
<1> SUFFICES ASSUME LightInvariant, Switch PROVE LightInvariant'
  OBVIOUS
<1> USE LightAssumption DEF LightInvariant, Switch, observers, FallAsleep
<1>1. TypeOK'
  BY WaitsAreBounded DEF TypeOK, Accesses
<1>2. LightFitsMode'
  BY DEF LightFitsMode
<1>3. WorksForTaken'
  BY DEF WorksForTaken, TypeOK, Accesses, Flashing, LED_Modes
<1>4. LateAtMost'
  BY DEF LateAtMost
<1> QED BY <1>1, <1>2, <1>3, <1>4

(***************************************************************************)
(* What the thread does between its switch and its write changes neither   *)
(* the light nor the mode it works for.                                    *)
(***************************************************************************)
LEMMA WorkInvariant ==
  ASSUME LightInvariant,
         ReadToFlash \/ TurnUp \/ SetUp \/ TurnDown \/ SetDown
           \/ ReadLevel \/ AddDelta
  PROVE  LightInvariant'
<1> USE LightAssumption
    DEF LightInvariant, ReadToFlash, TurnUp, SetUp, TurnDown, SetDown,
        ReadLevel, AddDelta, observers
<1>1. TypeOK'
  BY DEF TypeOK, Accesses, Inverted
<1>2. LightFitsMode'
  BY DEF LightFitsMode
<1>3. WorksForTaken'
  BY DEF WorksForTaken, Accesses, Flashing, LED_Modes
<1>4. LateAtMost'
  BY DEF LateAtMost
<1> QED BY <1>1, <1>2, <1>3, <1>4

(***************************************************************************)
(* The write: a mode that has not changed under it is not off or steady.   *)
(***************************************************************************)
LEMMA WriteInvariant == LightInvariant /\ WriteLevel => LightInvariant'
<1> SUFFICES ASSUME LightInvariant, WriteLevel PROVE LightInvariant'
  OBVIOUS
<1> USE LightAssumption DEF LightInvariant, WriteLevel, observers, FallAsleep
<1>0. WaitTime(taken) \in 0..SlowWait
  BY WaitsAreBounded DEF TypeOK
<1>1. TypeOK'
  BY <1>0 DEF TypeOK, Accesses, Clamped
<1>2. LightFitsMode'
  BY DEF LightFitsMode, WorksForTaken
<1>3. WorksForTaken'
  BY DEF WorksForTaken, Accesses
<1>4. LateAtMost'
  BY <1>0 DEF LateAtMost, TypeOK
<1> QED BY <1>1, <1>2, <1>3, <1>4

(***************************************************************************)
(* Time passes.                                                            *)
(***************************************************************************)
LEMMA TickInvariant == LightInvariant /\ Tick => LightInvariant'
BY LightAssumption
DEF LightInvariant, TypeOK, LightFitsMode, WorksForTaken, LateAtMost, Tick

(***************************************************************************)
(* The invariant is inductive.                                             *)
(***************************************************************************)
THEOREM LightInvariantHolds == Spec => []LightInvariant
<1>1. LightInvariant /\ [Next]_vars => LightInvariant'
  <2> SUFFICES ASSUME LightInvariant, [Next]_vars PROVE LightInvariant'
    OBVIOUS
  <2>1. CASE SetMode
    BY <2>1, ModeInvariant DEF SetMode
  <2>2. CASE UpdateLED
    BY <2>2, WakeInvariant, SwitchInvariant, WorkInvariant, WriteInvariant
    DEF UpdateLED
  <2>3. CASE Tick
    BY <2>3, TickInvariant
  <2>4. CASE UNCHANGED vars
    BY <2>4 DEF vars, thread, observers, LightInvariant, TypeOK, LightFitsMode,
                WorksForTaken, LateAtMost
  <2> QED BY <2>1, <2>2, <2>3, <2>4 DEF Next
<1> QED BY <1>1, InitInvariant, PTL DEF Spec

(***************************************************************************)
(* The duty cycle stays in its range, whatever a caller changes between    *)
(* the accesses of the thread.                                             *)
(***************************************************************************)
THEOREM DutyCycleInRange == Spec => []TypeOK
<1>1. LightInvariant => TypeOK
  BY DEF LightInvariant
<1> QED BY <1>1, LightInvariantHolds, PTL

(***************************************************************************)
(* A mode set while the thread sleeps is shown until the next one is set.  *)
(***************************************************************************)
THEOREM LightShowsMode == Spec => []LightFitsMode
<1>1. LightInvariant => LightFitsMode
  BY DEF LightInvariant
<1> QED BY <1>1, LightInvariantHolds, PTL

(***************************************************************************)
(* No mode is ignored for longer than the slow wait, the second that the   *)
(* test of the library allows for.                                         *)
(***************************************************************************)
THEOREM ModesAreTaken == Spec => []ModeTakenInTime
<1>1. LightInvariant => ModeTakenInTime
  BY LightAssumption DEF LightInvariant, TypeOK, LateAtMost, ModeTakenInTime
<1> QED BY <1>1, LightInvariantHolds, PTL

=============================================================================
