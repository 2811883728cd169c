SPECIFICATION Spec
SYMMETRY SessionSymmetry
CONSTANTS
    left = left
    right = right
    me1 = me1
    list1 = list1
    me2 = me2
    None = None
    Tab = {left, right}
    Call = {me1, list1, me2}
    TabOf <- MCTabOf
    Me = {me1, me2}
    Session = {s1, s2, s3, s4}
INVARIANTS
    QuietJarUsable
    RefusedByOthers
    NobodyWaitsInVain
