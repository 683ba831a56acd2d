CONSTANTS
    app = app
    svc = svc
    Main = app
    Services <- MCServices

SPECIFICATION Spec

INVARIANT PushRedeploysAll
