SPECIFICATION FairSpec
CONSTANTS
    w1 = w1
    w2 = w2
    q1 = q1
    q2 = q2
    i1 = i1
    i2 = i2
    x1 = x1
    x2 = x2
    u1 = u1
    NoQuestion = NoQuestion
    NoId = NoId
    NoAnswer = NoAnswer
    NoEntry = NoEntry
    BatchSize = 50
    Pages <- OnePage
    Questions <- TwoQuestions
    Ids <- TwoIds
    Indexes <- TwoIndexes
    Uploads <- OneUpload
    MaxChunks = 1
    Shipped <- OneIndex
    NoUpload = NoUpload
    Sizes <- OneChunk
    Timeouts <- TwoSeconds
    ConvHistoryNum = 3
    Faults = FALSE
    DropsRefused = TRUE
INVARIANTS AnswerMatches HistoryPaired
PROPERTIES AskedIsTold ResultArrives
