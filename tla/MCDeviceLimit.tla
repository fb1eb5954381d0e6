--------------------------- MODULE MCDeviceLimit ---------------------------
(* Instances of DeviceLimit for TLC.                                       *)
EXTENDS DeviceLimit, TLC

(* Browsers are interchangeable, and so are requests of a kind.            *)
Symmetry == Permutations(FingerPrints) \cup Permutations(Logins)

============================================================================
