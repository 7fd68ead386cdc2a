SPECIFICATION FairFlightSpec
CONSTANTS
  Key = {k1, k2}
  Task = {t1, t2, t3}
  Lock = {l1, l2, l3}
  NoKey = NoKey
  NoLock = NoLock
  Nobody = Nobody
INVARIANT MapIsSound
PROPERTIES ImplementsKeyedMutex EveryCallerServed
