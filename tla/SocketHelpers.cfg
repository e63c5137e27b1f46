\* The ends are through when they have closed what they had.
SPECIFICATION FairSpec
CONSTANTS
    MaxFds = 2
    Capacity = 2
    Word = 16
    Sizes <- SomeSizes
    Attempts = 2
    MaxTries = 2
    MaxLoops = 2
    NoFd = NoFd
INVARIANTS DescriptorsBalanced ConnectedIsEstablished
PROPERTIES StreamKept HelpersReturn
CHECK_DEADLOCK FALSE
