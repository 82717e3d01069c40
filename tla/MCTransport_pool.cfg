SPECIFICATION Spec
CONSTANTS
  r1 = r1
  r2 = r2
  t1 = t1
  t2 = t2
  Routes = {r1, r2}
  Tasks = {t1, t2}
  MaxCalls = 2
  MaxRetries = 2
  WarmupTries = 2
  Delay = 1
  Cooldown = 2
  None = None
INVARIANT InFlightExact
INVARIANT GivesUpOnlyAfterAll
PROPERTY SendsOnSoundSession
PROPERTY CallsReturn
CHECK_DEADLOCK FALSE
