\* Two volumes with different keys; the agent leaves after two idle rounds.
CONSTANTS
    d1 = d1  d2 = d2
    a1 = a1  b1 = b1  x1 = x1
    k1 = k1  k2 = k2
    NoDev = NoDev  NoAnswer = NoAnswer  Absent = Absent
    Devs = {d1, d2}
    Asks = {a1, b1}
    Keys = {k1, k2}
    AskDev <- TwoAskDev
    Unlocks <- TwoUnlocks
    Media <- TwoMedia
    Enabled = {"boot", "usb"}
    IdleRounds = 2
    TimeLimited = FALSE
    MaxSwaps = 1
SPECIFICATION Spec
INVARIANTS TypeOK NoTryBurned RejectedKeyTestedOnce
PROPERTIES Contract NoEarlyIdleExit
CHECK_DEADLOCK FALSE
