SPECIFICATION FairSpec
CONSTANTS
  f1 = f1
  f2 = f2
  c1 = c1
  c2 = c2
  Asked <- MCAsked
  Req = {r1, r2}
  File = {f1, f2}
  Cred = {c1, c2}
  Cdn = Cdn
  NoWant = NoWant
  Window = 1
  Retry = 1
  Waits = {1}
  MaxTime = 1
  MaxLosses = 1
INVARIANTS OneWorkerPerFile ConvictedOnTwoOccasions
PROPERTIES SpendsOnlyOnTheUnknown SpendLeavesATrace EveryRequestAnswered
