SPECIFICATION RefusalsSpec
CONSTANTS
    e1 = e1
    e2 = e2
    e3 = e3
    e4 = e4
    f1 = f1
    f2 = f2
    Title <- MCTitle
    SeriesOf <- MCSeriesOf
    Retry = 2
    Concurrent = 2
    MaxTime = 2
    MaxRestarts = 1
SYMMETRY TitleSymmetry
INVARIANTS OneShowBlocksOnlyItself RefusalsAreFew
CHECK_DEADLOCK FALSE
