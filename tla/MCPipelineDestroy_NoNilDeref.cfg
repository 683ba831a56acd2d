CONSTANTS
    Timeouts <- MCTimeouts

SPECIFICATION Spec

INVARIANT NoNilDeref
