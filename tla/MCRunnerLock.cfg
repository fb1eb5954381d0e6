SPECIFICATION Spec
CONSTANTS
    Instances = {i1}
    Slots = {s1, s2}
    Intervals = {8, 10}
    MaxDelay = 1
    Nobody = Nobody
SYMMETRY SlotSymmetry
INVARIANT TypeOK
INVARIANT OneExecutionPerProcess
INVARIANT LockOutlivesExecution
