SPECIFICATION VdbSpec
CONSTANTS
    x1 = x1
    x2 = x2
    u1 = u1
    u2 = u2
    Indexes <- TwoIndexes
    Uploads <- TwoUploads
    BatchSize = 2
    MaxChunks = 5
    Shipped <- OneIndex
    NoUpload = NoUpload
    Sizes <- FileSizes
SYMMETRY UploadSymmetry
INVARIANTS BatchesFit UploadIsPrefix StoreMatchesIndex
PROPERTIES SuccessIsComplete
