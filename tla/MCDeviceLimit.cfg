CONSTANTS
    FingerPrints = {f1, f2, f3, f4}
    Logins = {l1, l2}
    Managers = {m1}
    LoginLimit = 1
    BindLimit = 2
    LoginRestriction = TRUE
    DeviceManagement = TRUE
    AppOwner = FALSE
    MaxRows = 1
    None = None
SPECIFICATION Spec
SYMMETRY Symmetry
INVARIANTS TypeOK OvershootBounded
PROPERTIES SliceMakesRoom
