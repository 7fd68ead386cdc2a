\* Two languages compete for one slot a day, over a midnight.
SPECIFICATION FairSpec
CONSTANTS
  Req = {r1, r2}
  Install = {i1}
  Lang = {l1, l2}
  Source = {s1}
  NoSource = NoSource
  NoWant = NoWant
  Daily = 1
  Concurrency = 2
  MaxDay = 1
INVARIANTS OneRunPerBody BoughtIsCounted
PROPERTIES BuysOnlyTheMissing EveryRequestAnswered
