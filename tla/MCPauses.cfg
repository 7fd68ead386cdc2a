SPECIFICATION Spec
CONSTANTS
  Key = {k1, k2}
  Call = {c1, d1, d2}
  Downloads = {d1, d2}
  Sem = {s1, s2}
  NoKey = NoKey
  NoSem = NoSem
  NoPause = NoPause
  Base = 1
  MaxPause = 2
  MaxQuotaPause = 3
  MaxKeys = 1
  Window = 2
  Stated = {1, 3}
  Resets = {1, 4}
  MaxTime = 3
  MaxRefusals = 2
SYMMETRY Symmetry
INVARIANT PausesStayBounded
PROPERTY NoCallWhileRefused
