SPECIFICATION FairSpec
CONSTANTS
    Slots = {s1, s2}
    NoOne = NoOne
INVARIANT AnsweredTruly
PROPERTY EveryCompletionRecorded
