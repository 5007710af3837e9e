CONSTANTS
    p1 = p1
    p2 = p2
    t1 = t1
    t2 = t2
    ana = ana
    beto = beto
    w1 = w1
    w2 = w2
    anonimo = anonimo
    Nothing = Nothing
    Process = {p1, p2}
    Terminals = {t1, t2}
    Users = {ana}
    Passwords = {w1, w2}
    LdapMayFail = TRUE
    MaxRequests = 4
SPECIFICATION Spec
SYMMETRY Symmetric
INVARIANTS
    TypeOK
    SessionHasAccountPassword
    BeliefIsRight
PROPERTY
    SessionsAreAuthenticated
