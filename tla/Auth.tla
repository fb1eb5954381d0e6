-------------------------------- MODULE Auth --------------------------------
(***************************************************************************)
(* A login is accepted by its password (PasswordLogin), and then a device  *)
(* over the bind limit is bound by a mailed code (DeviceBindCode, whose    *)
(* LoginCheck begins there).  The two share no key and no row, and an      *)
(* accepted login may come at any time: a behaviour moves one of the two.  *)
(***************************************************************************)
EXTENDS DeviceBindCode, PasswordLogin

CONSTANT Scenes  \* what behaviours begin with: [focus, passhash, left, origins]

ASSUME ScenesAssumption ==
  Scenes \subseteq [focus : {"codes", "passwords"}, passhash : BOOLEAN, left : Nat,
                   origins : SUBSET (Typed \X Ips)]

VARIABLE focus  \* the part that moves

authVars == <<vars, passwordVars, focus>>

AuthTypeOK == TypeOK /\ PasswordTypeOK /\ focus \in {"codes", "passwords"}

AuthInit ==
  \E scene \in Scenes : Init /\ PasswordInit(scene) /\ focus = scene.focus

CodesStep == focus = "codes" /\ Next /\ UNCHANGED <<passwordVars, focus>>

PasswordsStep == focus = "passwords" /\ PasswordNext /\ UNCHANGED <<vars, focus>>

AuthNext == CodesStep \/ PasswordsStep

AuthSpec == AuthInit /\ [][AuthNext]_authVars

=============================================================================
