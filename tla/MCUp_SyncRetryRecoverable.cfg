CONSTANTS
    MaxDrops <- MCMaxDrops
    Manifests <- MCManifests

SPECIFICATION Spec

PROPERTY SyncRetryRecoverable
