CONSTANTS
    MaxDrops <- MCMaxDrops
    Manifests <- MCManifests

SPECIFICATION FairSpec

INVARIANT ModeFlipAfterDrain
INVARIANT EarlierActivationsCancelled
PROPERTY InterruptTerminates
PROPERTY SessionSpec
