SPECIFICATION Spec
CONSTANTS
    MaxProcs = 2
    None = None
    Dir = Dir
    MaxEvents = 0
PROPERTIES
    RestartNotRefused
CHECK_DEADLOCK FALSE
