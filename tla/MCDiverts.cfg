CONSTANTS
    MaxFailures <- MCMaxFailures
    MaxRuns <- MCMaxRuns

SPECIFICATION FairSpec

INVARIANT TypeOK
INVARIANT NoDanglingCRD
PROPERTY Settles
PROPERTY AbstractSpec
