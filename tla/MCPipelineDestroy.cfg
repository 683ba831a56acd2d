CONSTANTS
    Timeouts <- MCTimeouts

SPECIFICATION FairSpec

INVARIANT DestroyedMeansGone
PROPERTY WaitTerminates
