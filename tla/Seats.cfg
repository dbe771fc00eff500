SPECIFICATION Spec
CONSTANTS
 SeatIds = {a, b}
 MaxDisplays = 2
 VTs = {1, 2, 3, 4, 5}
 InitialVt = 1
 MaxTtyFailures = 1
 None = None
 MayGiveUp = FALSE
 MayFailBehind = FALSE
 MayStopBehind = FALSE
 Watchers = {w1, w2}
 MaxBus = 2
 LateReading = FALSE
SYMMETRY WatcherSymmetry
INVARIANTS  NeverBlack
CHECK_DEADLOCK FALSE
