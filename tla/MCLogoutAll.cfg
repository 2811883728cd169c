CONSTANTS
    User = {alice}
    NoUser = nobody
    Session = {s1, s2}
    NoSession = none
    Request = {r1, r2}
SPECIFICATION Spec
INVARIANT SignedOutEverywhere
CHECK_DEADLOCK FALSE
