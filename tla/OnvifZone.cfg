\* SIGTERM and a refused command line end the program.
SPECIFICATION Spec
CONSTANTS
    c1 = c1
    c2 = c2
    a1 = a1
    a2 = a2
    n1 = n1
    n2 = n2
    u1 = u1
    u2 = u2
    if1 = if1
    if2 = if2
    NoName = NoName
    NoUrl = NoUrl
    NoInterface = NoInterface
    NoProfile = NoProfile
    NoAddress = NoAddress
    Localhost = Localhost
    Garbage = Garbage
    NoOne = NoOne
    NoReply = NoReply
    HwAddress = HwAddress
    CommandLines <- GmtLine
    Names <- TwoNames
    Urls <- TwoUrls
    Interfaces <- TwoInterfaces
    Descriptors <- TwoDescriptors
    Texts <- SomeTexts
    DefaultTexts <- Admin
    NoText = ""
    Ethernet <- OneEthernet
    EmptyAsked <- SomeEmpty
    Clients <- OneClient
    Addresses <- OneAddress
    Subnet <- OneSubnet
    Prefix <- OnePrefix
    Templates <- OneTemplate
    Directions <- Right
    Offsets <- India
INVARIANT ZoneIsOffset
CHECK_DEADLOCK FALSE
