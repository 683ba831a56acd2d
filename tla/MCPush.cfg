CONSTANTS
    app = app
    svc = svc
    Main = app
    Services <- MCServices

SPECIFICATION FairSpec

INVARIANT TypeOK
INVARIANT NoDeployInDevMode
INVARIANT PushedMeansDeployed
PROPERTY PushTerminates
