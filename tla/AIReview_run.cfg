SPECIFICATION FairSpec
CONSTANTS
    MaxFiles = 5
    upTo <- MCUpTo
    Thread = {1, 2, 3}
    fileOf <- MCFileOf
    Scaled = {0, 9, 20}
    MaxBatches = 4
    MaxShrinks = 1
    None = None
    CloneDepth = 1
    MaxRounds = 1
    Attempts = 2
    Credentials = 2
    Deployment <- MCDeployment
    MaxTip = 3
    Versions = 2
    own <- MCOwn
    upstream <- MCUpstream
    Unrelated = Unrelated
    Answers <- MCAnswers
CHECK_DEADLOCK FALSE
INVARIANTS EveryFileAccounted VoteIsEarned BlockingSurvives ResolvedAsMeant AskedOnce NeverResent
INVARIANTS ReviewsOwnChanges NothingLeft
PROPERTIES NoFutileRetry ReviewEnds
