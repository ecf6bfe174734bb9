SPECIFICATION FairSpec
CONSTANTS
    Watchers = {w1}
    Interval = 1
    ProbeBudget = 0
    Threshold = 2
    Lag = 1
INVARIANTS VerdictHonest NoFalseLoss
PROPERTY EveryoneTold
