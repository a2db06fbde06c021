CONSTANTS
    MaxStarts = 3
    MaxStops = 4
SPECIFICATION LifecycleFairSpec
INVARIANTS LifecycleTypeOK FindsItsServer StoppedIsQuiet
PROPERTY StopReturns
