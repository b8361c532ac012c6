----------------------------- MODULE StatusLight -----------------------------
(***************************************************************************)
(* The status light (lib/StatusLED): a thread that makes it flash and      *)
(* breathe, and the callers that set its mode.  The thread has the lowest  *)
(* priority: it runs while every caller sleeps, a caller interrupts it     *)
(* between any two accesses to what they share, and no mode change is      *)
(* interrupted by it.  The duty cycle goes from 0 to Full in steps of      *)
(* DELTA_SIZE; time is counted in steps of 50 ms.                          *)
(***************************************************************************)
EXTENDS Integers

CONSTANTS
  Full,                       (* the duty cycle 1, in steps of DELTA_SIZE    *)
  BreathWait, QuickWait, IdleWait, SlowWait,
                              (* how long the thread sleeps in each mode     *)
  MaxAge                      (* bound: where sinceChange stops counting     *)

ASSUME LightAssumption ==
  /\ Full \in Nat \ {0}
  /\ {BreathWait, QuickWait, IdleWait, SlowWait} \subseteq Nat \ {0}
  /\ \A w \in {BreathWait, QuickWait, IdleWait} : w <= SlowWait
  /\ MaxAge \in Nat /\ MaxAge > SlowWait

LED_Modes == {"off", "steady", "quick_flash", "slow_flash", "breathing"}
Flashing  == {"quick_flash", "slow_flash"}

VARIABLES
  mode, pwm, delta,     \* _mode, _pwm, _delta
  pc,                   \* the next access of the thread, or "asleep"
  taken,                \* the mode its switch has read
  value,                \* the duty cycle it has read or is about to write
  sleep,                \* what is left of its sleep
  sinceChange,          \* time since mode() was last called
  overlapped            \* was the thread awake then?

thread    == <<pc, taken, value, sleep>>
observers == <<sinceChange, overlapped>>
vars == <<mode, pwm, delta, thread, observers>>

Init ==
  /\ mode = "off" /\ pwm = 0 /\ delta = 1
  /\ pc = "switch" /\ taken = "off" /\ value = 0 /\ sleep = 0
  /\ sinceChange = 0 /\ overlapped = FALSE

(***************************************************************************)
(* mode(newMode), also called by operator=.                                *)
(***************************************************************************)
\* Mutant: the default case of the switch is missing.
StartLevelKept(newMode) ==
  CASE newMode \in Flashing \cup {"steady"} -> Full
    [] newMode = "breathing" -> 0
    [] OTHER -> pwm

StartLevel(newMode) == IF newMode \in Flashing \cup {"steady"} THEN Full ELSE 0

Mode(newMode) ==
  /\ mode' = newMode
  /\ pwm' = StartLevel(newMode)
  /\ delta' = IF newMode = "breathing" THEN 1 ELSE delta
  /\ sinceChange' = 0 /\ overlapped' = (pc \notin {"asleep", "switch"})
  /\ UNCHANGED thread

SetMode == \E newMode \in LED_Modes : Mode(newMode)

----------------------------------------------------------------------------
(***************************************************************************)
(* _updateLED, one access to _mode, _pwm or _delta a step.                 *)
(***************************************************************************)
\* Mutant: the time of the slow flash is that of its period.
WaitOfPeriod(m) == CASE m = "quick_flash" -> QuickWait
                     [] m = "slow_flash"  -> 2 * SlowWait
                     [] m = "breathing"   -> BreathWait
                     [] OTHER             -> IdleWait

WaitTime(m) == CASE m = "quick_flash" -> QuickWait
                 [] m = "slow_flash"  -> SlowWait
                 [] m = "breathing"   -> BreathWait
                 [] OTHER             -> IdleWait

FallAsleep(m) == pc' = "asleep" /\ sleep' = WaitTime(m)

Wake ==
  /\ pc = "asleep" /\ sleep = 0
  /\ pc' = "switch"
  /\ UNCHANGED <<mode, pwm, delta, taken, value, sleep, observers>>

Switch ==
  /\ pc = "switch" /\ taken' = mode
  /\ \/ mode \in Flashing /\ pc' = "flash" /\ UNCHANGED sleep
     \/ mode = "breathing" /\ pc' = "turnUp" /\ UNCHANGED sleep
     \/ mode \in {"off", "steady"} /\ FallAsleep(mode)
  /\ UNCHANGED <<mode, pwm, delta, value, observers>>

\* _pwm = !_pwm; mutant: inverted twice.
InvertedTwice(level) == IF level = 0 THEN 0 ELSE Full

Inverted(level) == IF level = 0 THEN Full ELSE 0

ReadToFlash ==
  /\ pc = "flash" /\ pc' = "write"
  /\ value' = Inverted(pwm)
  /\ UNCHANGED <<mode, pwm, delta, taken, sleep, observers>>

\* if (_pwm<=0) _delta = DELTA_SIZE
TurnUp ==
  /\ pc = "turnUp" /\ pc' = IF pwm <= 0 THEN "setUp" ELSE "turnDown"
  /\ UNCHANGED <<mode, pwm, delta, taken, value, sleep, observers>>

SetUp ==
  /\ pc = "setUp" /\ pc' = "turnDown" /\ delta' = 1
  /\ UNCHANGED <<mode, pwm, taken, value, sleep, observers>>

\* if (_pwm>=1) _delta = -DELTA_SIZE; mutant: > for >=.
PastTop == pwm > Full

AtTop == pwm >= Full

TurnDown ==
  /\ pc = "turnDown" /\ pc' = IF AtTop THEN "setDown" ELSE "read"
  /\ UNCHANGED <<mode, pwm, delta, taken, value, sleep, observers>>

SetDown ==
  /\ pc = "setDown" /\ pc' = "read" /\ delta' = -1
  /\ UNCHANGED <<mode, pwm, taken, value, sleep, observers>>

\* _pwm = _pwm + _delta
ReadLevel ==
  /\ pc = "read" /\ pc' = "add" /\ value' = pwm
  /\ UNCHANGED <<mode, pwm, delta, taken, sleep, observers>>

AddDelta ==
  /\ pc = "add" /\ pc' = "write" /\ value' = value + delta
  /\ UNCHANGED <<mode, pwm, delta, taken, sleep, observers>>

\* PwmOut::write keeps the duty cycle within its range; mutant: it does not.
Unclamped(level) == level

Clamped(level) ==
  CASE level < 0 -> 0 [] level > Full -> Full [] OTHER -> level

WriteLevel ==
  /\ pc = "write" /\ pwm' = Clamped(value) /\ FallAsleep(taken)
  /\ UNCHANGED <<mode, delta, taken, value, observers>>

(***************************************************************************)
(* The callers leave the processor to the thread whenever it wants it, so  *)
(* time passes only while it sleeps too.                                   *)
(***************************************************************************)
Tick ==
  /\ pc = "asleep" /\ sleep > 0 /\ sleep' = sleep - 1
  /\ sinceChange' = IF sinceChange < MaxAge THEN sinceChange + 1 ELSE MaxAge
  /\ UNCHANGED <<mode, pwm, delta, pc, taken, value, overlapped>>

UpdateLED ==
  \/ Wake \/ Switch \/ ReadToFlash \/ TurnUp \/ SetUp \/ TurnDown \/ SetDown
  \/ ReadLevel \/ AddDelta \/ WriteLevel

Next == SetMode \/ UpdateLED \/ Tick

(***************************************************************************)
(* The thread runs whenever the callers sleep, and time passes.            *)
(***************************************************************************)
Spec == Init /\ [][Next]_vars /\ WF_vars(UpdateLED) /\ WF_vars(Tick)

----------------------------------------------------------------------------
(***************************************************************************)
(* Types and ranges: the duty cycle never leaves 0..Full, although a mode  *)
(* change between the checks of _pwm and its write lets the thread compute *)
(* one below or above it.                                                  *)
(***************************************************************************)
Accesses == {"asleep", "switch", "flash", "turnUp", "setUp", "turnDown",
             "setDown", "read", "add", "write"}

TypeOK ==
  /\ mode \in LED_Modes /\ taken \in LED_Modes
  /\ pwm \in 0..Full /\ delta \in {-1, 1} /\ value \in -1..(Full + 1)
  /\ pc \in Accesses /\ (pc = "add" => value \in 0..Full)
  /\ sleep \in 0..SlowWait
  /\ sinceChange \in 0..MaxAge /\ overlapped \in BOOLEAN

(***************************************************************************)
(* A mode set while the thread sleeps, or before its switch has read       *)
(* _mode, is shown for good: the thread, which writes _pwm from what it    *)
(* read before, leaves off dark and steady lit.                            *)
(***************************************************************************)
LightFitsMode ==
  ~overlapped => /\ mode = "off" => pwm = 0
                 /\ mode = "steady" => pwm = Full

(***************************************************************************)
(* The thread follows the last mode set after one slow wait at the latest  *)
(* (test_StatusLED.cpp:13, "it can take up to 1 s for mode update"),       *)
(* whatever it was doing then and however often the mode changes before.   *)
(***************************************************************************)
ModeTakenInTime == sinceChange > SlowWait => taken = mode

(***************************************************************************)
(* Inductive: which mode the thread is working for, and for how long that  *)
(* may still be an earlier one.                                            *)
(***************************************************************************)
WorksForTaken ==
  /\ pc = "flash" => taken \in Flashing
  /\ pc \in Accesses \ {"asleep", "switch", "flash", "write"} =>
       taken = "breathing"
  /\ pc = "write" => taken \notin {"off", "steady"}
  /\ pc \notin {"asleep", "switch"} /\ ~overlapped => taken = mode

LateAtMost ==
  taken # mode => CASE pc = "asleep" -> sinceChange + sleep <= SlowWait
                    [] pc = "switch" -> sinceChange <= SlowWait
                    [] OTHER         -> sinceChange = 0

LightInvariant == TypeOK /\ LightFitsMode /\ WorksForTaken /\ LateAtMost

\* No mode is set any more, and the last one was m.
LeftIn(m) == <>[](mode = m /\ sinceChange > 0)

(***************************************************************************)
(* A light left in a flashing mode goes on and off again and again, from   *)
(* whatever duty cycle an overlapping write has left.                      *)
(***************************************************************************)
Flashes ==
  \A m \in Flashing : LeftIn(m) => []<>(pwm = 0) /\ []<>(pwm = Full)

(***************************************************************************)
(* A light left breathing goes all the way up and all the way down, even   *)
(* if the mode was set while the thread was changing _delta.               *)
(***************************************************************************)
Breathes == LeftIn("breathing") => []<>(pwm = 0) /\ []<>(pwm = Full)

=============================================================================
