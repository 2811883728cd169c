SPECIFICATION Spec
CONSTANTS
    Request = {r1, r2}
    Key = {k1}
    Fingerprint = {f1}
    None = None
SYMMETRY RequestSymmetry
INVARIANTS
    EffectOnce
CHECK_DEADLOCK FALSE
