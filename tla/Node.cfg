SPECIFICATION Spec
CONSTANTS
    DHTs = {"v4", "v6"}
    Ops = {1, 2}
    MaxStarts = 2
INVARIANTS PromisesKept StoppedSettles
PROPERTIES FirstRunAnswers
CHECK_DEADLOCK FALSE
