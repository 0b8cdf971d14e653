\* One call with five retries, in words of five bits.
SPECIFICATION FairSpec
CONSTANTS
    a = a
    b = b
    None = None
    Broken = Broken
    Contents = {a, b}
    Tag = a
    MaxRetries = 5
    Base = 1
    BackoffCap = 6
    Second = 2
    RetryCap = 10
    Width = 5
    RetryHeaders <- MCHeaders
INVARIANT
    TypeOK
PROPERTIES
    AnswersTrue
    Persistent
    Patient
    Terminates
