SPECIFICATION Spec
CONSTANTS
  f1 = f1
  f2 = f2
  c1 = c1
  c2 = c2
  Asked <- MCAsked
  Req = {r1}
  File = {f1, f2}
  Cred = {c1, c2}
  Cdn = Cdn
  NoWant = NoWant
  Window = 1
  Retry = 2
  Waits = {0, 1}
  MaxTime = 2
  MaxLosses = 0
PROPERTY SuspectIsRemembered
