SPECIFICATION DataflowSpec
CONSTANTS
    Manifests <- MCManifests
    InputChoices <- MCInputs
    StepChoices <- MCSteps
    Natives <- MCNatives
    Flats = {"features", "pairs", "matches", "verify", "map", "map_feed_forward"}
    MaxNative = 2
    Dotted = FALSE
    MaxSteps = 5
INVARIANTS CheckersAgree DepsComplete
PROPERTY PluginsAreIsolated
