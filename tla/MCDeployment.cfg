SPECIFICATION FairSpec
CONSTANTS
    Nets = {"local", "test", "main", "known"}
    MaxFaults = 1
    MaxSource = 2
INVARIANTS WiredWhenComplete HandedOverWhenComplete
PROPERTIES RerunChangesNothing EventuallyComplete
