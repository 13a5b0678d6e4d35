SPECIFICATION FairSpec
CONSTANT MaxRounds = 2
INVARIANT VerdictEarned
INVARIANT ReadsEarlierStages
PROPERTY RunsInOrder
PROPERTY RunEnds
