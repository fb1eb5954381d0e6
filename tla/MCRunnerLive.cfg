SPECIFICATION RecoveringSpec
CONSTANTS
    Instances = {i1}
    Slots = {s1, s2}
    Intervals = {4}
    MaxDelay = 1
    Nobody = Nobody
PROPERTY HungRunEndsProcess
PROPERTY KeepsExecuting
