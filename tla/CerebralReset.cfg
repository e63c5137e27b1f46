SPECIFICATION Spec
CONSTANTS
    b1 = b1
    b2 = b2
    q1 = q1
    q2 = q2
    q3 = q3
    NoBrowser = NoBrowser
    Browsers <- OneBrowser
    Questions <- TwoQuestions
CONSTRAINT NoFetches
INVARIANT ResetClears
