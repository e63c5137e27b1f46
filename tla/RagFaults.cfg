SPECIFICATION Spec
CONSTANTS
    w1 = w1
    w2 = w2
    q1 = q1
    q2 = q2
    i1 = i1
    i2 = i2
    x1 = x1
    x2 = x2
    u1 = u1
    NoQuestion = NoQuestion
    NoId = NoId
    NoAnswer = NoAnswer
    NoEntry = NoEntry
    BatchSize = 50
    Pages <- TwoPages
    Questions <- TwoQuestions
    Ids <- TwoIds
    Indexes <- OneIndex
    Uploads <- NoUploads
    MaxChunks = 1
    Shipped <- OneIndex
    NoUpload = NoUpload
    Sizes <- OneChunk
    Timeouts <- NoneOrTwo
    ConvHistoryNum = 5
    Faults = TRUE
    DropsRefused = FALSE
SYMMETRY RagSymmetry
VIEW NoHistory
INVARIANTS RequestInFlight
PROPERTIES PromiseKept
