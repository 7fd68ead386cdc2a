SPECIFICATION FairSpec
CONSTANTS
  c1 = c1
  c2 = c2
  Req = {r1, r2}
  Cred = {c1, c2}
  Asked <- MCAsked
  Slots <- MCSlots
  NoWant = NoWant
  MaxLosses = 1
INVARIANTS SettledIsTheAnswer BackedOffForCause
PROPERTIES WorksOnlyOnTheOpen EveryRequestAnswered
