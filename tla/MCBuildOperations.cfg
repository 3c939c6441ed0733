SPECIFICATION BuildSpec
CONSTANTS
    Kinds <- MCKinds
    Envs <- MCEnvs
    Streams <- MCStreams
    MaxOps = 2
    MaxVisits = 1
    MaxCancels = 1
    MaxMishaps = 1
CHECK_DEADLOCK FALSE
PROPERTIES Remembered FlagFalls
