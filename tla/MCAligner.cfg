CONSTANTS
  t1 = t1
  t2 = t2
  Run = {t1, t2}
  TierOf <- MCTierOf
  Film <- MCFilm
  Move <- MCMove
  Probe = 2
  Lead = 1
  MinCues = 3
  Spread = 1
  MaxShift = 12
  Agreement = 2
  NoShift = NoShift
  TotalBudget = 3
  FastBudget = 1
  FallbackBudget = 1
  FinishReserve = 1
  AlignBudget = 1
  Tier1Budget = 1
  Abandoned = 4
  MaxRuns = 2
  MaxRestarts = 1
  MaxLosses = 1
  None = None
SPECIFICATION AlignerSpec
INVARIANTS ReturnsClean AgeTellsTheLiving HandsOutItsOwn ShiftIsConfirmed
