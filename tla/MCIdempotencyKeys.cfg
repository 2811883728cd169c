SPECIFICATION FairSpec
CONSTANTS
    Request = {r1, r2, r3}
    Key = {k1}
    Fingerprint = {f1, f2}
    None = None
INVARIANTS
    HandlersExclusive
    ReplayFaithful
    AnsweredOnce
PROPERTIES
    RequestsAnswered
    ImplementsAnswers
CHECK_DEADLOCK FALSE
