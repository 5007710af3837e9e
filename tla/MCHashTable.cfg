CONSTANTS
    a = a
    b = b
    c = c
    d = d
    a1 = a1
    a2 = a2
    b1 = b1
    c1 = c1
    d1 = d1
    PHYSICAL = PHYSICAL
    LOGICAL = LOGICAL
    Yes = Yes
    Erased = Erased
    No = No
    Keys = {a, b, c, d}
    Elements = {a1, a2, b1, c1, d1}
    Key <- KeyOf
    hkey <- CodeSumHash
    InitSize = 3
    MaxDim = 15
    MaxQtty = 6
    GrowthMayFail = TRUE
SPECIFICATION Spec
INVARIANTS
    TypeOK
    SearchesEnd
    EveryElementIsFound
PROPERTY
    ImplementsDictionary
CHECK_DEADLOCK FALSE
