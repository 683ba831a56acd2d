CONSTANTS
    Timeouts <- MCTimeouts

SPECIFICATION Spec

INVARIANT ZeroTimeoutMeansNever
