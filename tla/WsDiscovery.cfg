SPECIFICATION FairSpec
CONSTANTS
    c1 = c1
    e1 = e1
    a1 = a1
    a2 = a2
    NoEndpoint = NoEndpoint
    NoAddress = NoAddress
    Loopback = Loopback
    Written = Written
    Unknown = Unknown
    NoAnswer = NoAnswer
    Clients <- OneClient
    Slots <- OneSlot
    Endpoints <- OneEndpoint
    Endpoint = NoEndpoint
    Template = TRUE
    IfName = "eth0"
    Addresses <- TwoAddresses
    Lists <- MachineLists
    MaxChanges = 2
INVARIANTS NamedAnnouncements FreshAnswer
PROPERTY ProbingFinds
