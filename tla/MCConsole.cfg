CONSTANTS
    anonimo = anonimo
    ana = ana
    bo = bo
    x = x
    None = None
    Words <- MCWords
    Length <- MCLength
    Lines <- MCLines
    MAX_LINE = 24

SPECIFICATION Spec

INVARIANTS
    TypeOK
    RunsWhatWasTyped
    PromptNamesSession
    WhatIsSaidIsTrue
    DeniedIsLoggedOut

PROPERTY LinesAreAnswered

\* A terminal ends when its user leaves.
CHECK_DEADLOCK FALSE
