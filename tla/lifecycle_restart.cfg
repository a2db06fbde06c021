CONSTANTS
    MaxStarts = 2
    MaxStops = 2
SPECIFICATION LifecycleSpec
INVARIANT AlreadyStartedServes
