CONSTANTS
    MaxFailures <- MCMaxFailures
    MaxRuns <- MCMaxRuns

SPECIFICATION Spec

INVARIANT NotSupportedLeavesNothing
