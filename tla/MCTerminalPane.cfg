\* A Docker terminal pane and its command mode.
CONSTANTS
    Chars = {"a", " "}
    Space = " "
    Clear <- MCClear
    Dirs = {"/", "home", "tmp"}
    Home = "home"
    Root = "/"
    Shells = 2
    HistoryMax = 2
    MaxLine = 3
    MaxKeys = 5
    MaxErrors = 2
SPECIFICATION Spec
INVARIANTS TypeOK IndicatorsTrue DirKept
PROPERTY Responds
CHECK_DEADLOCK FALSE
