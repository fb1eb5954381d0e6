SPECIFICATION Spec
CONSTANTS
    Instances = {i1, i2}
    Slots = {s1}
    Intervals = {10}
    MaxDelay = 1
    Nobody = Nobody
INVARIANT OneExecutionPerWorker
