\* The jobs of a pull request and of a week come to an end.
SPECIFICATION Spec
VIEW Jobs
CONSTANTS
    NoDate = NoDate
    MaxDate = 1
    PullRequests <- OneOrTwo
    Readmes <- SomeReadmes
    Namesakes <- OneOther
    Existing <- Repository
INVARIANTS PassIsClean ReportIsTrue OneFileIsCaught
CHECK_DEADLOCK FALSE
