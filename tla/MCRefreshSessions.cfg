CONSTANTS
    User = {alice, bob}
    NoUser = nobody
    Session = {s1, s2, s3, s4}
    NoSession = none
    Request = {r1, r2, r3}
SYMMETRY Symmetry
SPECIFICATION Spec
INVARIANTS
    OneSessionPerLogin
    SignedOutForGood
PROPERTY
    ImplementsStore
CHECK_DEADLOCK FALSE
