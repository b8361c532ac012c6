SPECIFICATION Spec
CONSTANTS
  Full = 40
  BreathWait = 1
  QuickWait = 2
  IdleWait = 2
  SlowWait = 20
  MaxAge = 21
INVARIANTS TypeOK LightFitsMode ModeTakenInTime
PROPERTIES Flashes Breathes
