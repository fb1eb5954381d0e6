----------------------------- MODULE DeviceLimit -----------------------------
(***************************************************************************)
(* The devices of one member: binding a device and marking it signed in    *)
(* when the member logs in (checkAndBindDevices in                         *)
(* src/src/auth/device/device.service.ts, called by general-login), and    *)
(* signing out older devices at the limit (manage-logged-in-limit in       *)
(* device.controller.ts).  Requests run concurrently; each SQL statement   *)
(* and Redis command is one step, and no statement is in a transaction     *)
(* with another.                                                           *)
(***************************************************************************)
EXTENDS Integers, FiniteSets

CONSTANTS
    FingerPrints,       \* the browsers the member uses
    Logins,             \* concurrent general-login requests of the member
    Managers,           \* concurrent manage-logged-in-limit requests
    LoginLimit,         \* app setting login_device_num, or 1
    BindLimit,          \* app setting bind_device_num, or 1
    LoginRestriction,   \* is the module login_restriction enabled?
    DeviceManagement,   \* is the module device_management enabled?
    AppOwner,           \* is the member an app-owner?
    MaxRows,            \* bound: rows inserted per browser
    None                \* no browser

VARIABLES
    row,        \* id of the browser's member_device row, 0 if it has none
    made,       \* rows inserted so far for each browser
    earlier,    \* pairs of bound browsers, the first with the earlier last_login_at
    logged,     \* browsers whose row has is_login
    challenge,  \* browser in auth:device-login-limit:<app>:<member>, or None
    lpc, lfp, found,    \* locals of a login
    mpc, mfp, mids      \* locals of a manage-logged-in-limit request

deviceVars == <<row, made, earlier, logged>>
loginVars  == <<lpc, lfp, found>>
manageVars == <<mpc, mfp, mids>>
vars == <<deviceVars, challenge, loginVars, manageVars>>

ASSUME LimitAssumption == LoginLimit \in Nat \ {0} /\ BindLimit \in Nat \ {0}
ASSUME ModulesAssumption == /\ LoginRestriction \in BOOLEAN /\ DeviceManagement \in BOOLEAN
                            /\ LoginRestriction \/ DeviceManagement
                            /\ AppOwner \in BOOLEAN
ASSUME SetsAssumption == /\ IsFiniteSet(FingerPrints) /\ IsFiniteSet(Logins)
                         /\ None \notin FingerPrints /\ MaxRows \in Nat

LPcs == {"idle", "checking", "challenging", "finding", "saving"}
MPcs == {"idle", "listing", "counting", "slicing", "updating", "clearing"}
Ids == FingerPrints \X (1..MaxRows)

Bound == {f \in FingerPrints : row[f] # 0}

(* The rows, their order and the is_login flags agree: the bound browsers    *)
(* are totally ordered by last_login_at.                                     *)
DevicesConsistent ==
    /\ logged \subseteq Bound
    /\ earlier \subseteq Bound \X Bound
    /\ \A f \in Bound : <<f, f>> \notin earlier
    /\ \A f, g \in Bound : f # g => <<f, g>> \in earlier \/ <<g, f>> \in earlier
    /\ \A f, g, h \in Bound :
           <<f, g>> \in earlier /\ <<g, h>> \in earlier => <<f, h>> \in earlier

TypeOK ==
    /\ row \in [FingerPrints -> 0..MaxRows]
    /\ made \in [FingerPrints -> 0..MaxRows]
    /\ logged \in SUBSET FingerPrints
    /\ challenge \in FingerPrints \cup {None}
    /\ lpc \in [Logins -> LPcs]
    /\ lfp \in [Logins -> FingerPrints \cup {None}]
    /\ \A l \in Logins : lpc[l] # "idle" => lfp[l] \in FingerPrints
    /\ found \in [Logins -> 0..MaxRows]
    /\ mpc \in [Managers -> MPcs]
    /\ mfp \in [Managers -> FingerPrints \cup {None}]
    /\ mids \in [Managers -> SUBSET Ids]
    /\ DevicesConsistent

Init ==
    /\ row = [f \in FingerPrints |-> 0] /\ made = [f \in FingerPrints |-> 0]
    /\ earlier = {} /\ logged = {}
    /\ challenge = None
    /\ lpc = [l \in Logins |-> "idle"] /\ lfp = [l \in Logins |-> None]
    /\ found = [l \in Logins |-> 0]
    /\ mpc = [m \in Managers |-> "idle"] /\ mfp = [m \in Managers |-> None]
    /\ mids = [m \in Managers |-> {}]

(* Variants with one plausible mistake; they belong to no specification.     *)
BugLoginExceeded(f) == Cardinality(logged) > LoginLimit /\ f \notin logged
BugToLogOut(n) == n - LoginLimit         \* leaves no room for the new device
BugLeaveLogin(l) == lfp' = [lfp EXCEPT ![l] = None] /\ UNCHANGED <<lpc, found>>

Without(f) == {q \in earlier : q[1] # f /\ q[2] # f}
IdOf(f) == <<f, row[f]>>

-----------------------------------------------------------------------------
(* checkAndBindDevices, after the password was accepted.                     *)
AtBindLimit(n) == n >= BindLimit
BindExceeded(f) == AtBindLimit(Cardinality(Bound)) /\ DeviceManagement /\ f \notin Bound
LoginExceeded(f) == Cardinality(logged) >= LoginLimit /\ LoginRestriction /\ f \notin logged

Login(l, f) ==
    /\ lpc[l] = "idle"
    /\ lpc' = [lpc EXCEPT ![l] = "checking"]
    /\ lfp' = [lfp EXCEPT ![l] = f]
    /\ UNCHANGED <<deviceVars, challenge, found, manageVars>>

(* The device is signed in already, or within the limits, or unlimited.      *)
Admit(l) ==
    /\ lpc[l] = "checking"
    /\ \/ AppOwner
       \/ lfp[l] \in logged
       \/ ~BindExceeded(lfp[l]) /\ ~LoginExceeded(lfp[l])
    /\ lpc' = [lpc EXCEPT ![l] = "finding"]
    /\ UNCHANGED <<deviceVars, challenge, lfp, found, manageVars>>

LeaveLogin(l) ==
    /\ lpc' = [lpc EXCEPT ![l] = "idle"]
    /\ lfp' = [lfp EXCEPT ![l] = None]
    /\ found' = [found EXCEPT ![l] = 0]

(* BIND_LIMIT_EXCEED: the flow of DeviceBindCode begins.                     *)
RefuseBind(l) ==
    /\ lpc[l] = "checking" /\ ~AppOwner
    /\ lfp[l] \notin logged /\ BindExceeded(lfp[l])
    /\ LeaveLogin(l)
    /\ UNCHANGED <<deviceVars, challenge, manageVars>>

(* LOGIN_LIMIT_EXCEED: the challenge for this browser is written next.       *)
RefuseLogin(l) ==
    /\ lpc[l] = "checking" /\ ~AppOwner
    /\ ~BindExceeded(lfp[l]) /\ LoginExceeded(lfp[l])
    /\ lpc' = [lpc EXCEPT ![l] = "challenging"]
    /\ UNCHANGED <<deviceVars, challenge, lfp, found, manageVars>>

WriteChallenge(l) ==
    /\ lpc[l] = "challenging"
    /\ challenge' = lfp[l]
    /\ LeaveLogin(l)
    /\ UNCHANGED <<deviceVars, manageVars>>

(* upsertMemberDevice: find the row, or create an entity without an id ...   *)
Find(l) ==
    /\ lpc[l] = "finding"
    /\ found' = [found EXCEPT ![l] = row[lfp[l]]]
    /\ lpc' = [lpc EXCEPT ![l] = "saving"]
    /\ UNCHANGED <<deviceVars, challenge, lfp, manageVars>>

(* last_login_at is taken just before the row is saved.                      *)
MarkLoggedIn(f) ==
    /\ logged' = logged \cup {f}
    /\ earlier' = Without(f) \cup ((Bound \ {f}) \X {f})

(* ... and save it: an UPDATE of the row with its id, or an INSERT, under    *)
(* its old id when the row was deleted meanwhile.                            *)
SaveFound(l) ==
    /\ lpc[l] = "saving" /\ found[l] # 0
    /\ row[lfp[l]] \in {0, found[l]}
    /\ row' = [row EXCEPT ![lfp[l]] = found[l]]
    /\ MarkLoggedIn(lfp[l])
    /\ LeaveLogin(l)
    /\ UNCHANGED <<made, challenge, manageVars>>

SaveNew(l) ==
    /\ lpc[l] = "saving" /\ found[l] = 0
    /\ row[lfp[l]] = 0 /\ made[lfp[l]] < MaxRows
    /\ made' = [made EXCEPT ![lfp[l]] = @ + 1]
    /\ row' = [row EXCEPT ![lfp[l]] = made'[lfp[l]]]
    /\ MarkLoggedIn(lfp[l])
    /\ LeaveLogin(l)
    /\ UNCHANGED <<challenge, manageVars>>

(* The unique key (member_id, fingerprint_id) rejects the insert, a query    *)
(* fails, or the process dies.                                               *)
LoginFails(l) ==
    /\ lpc[l] # "idle"
    /\ LeaveLogin(l)
    /\ UNCHANGED <<deviceVars, challenge, manageVars>>

-----------------------------------------------------------------------------
(* manage-logged-in-limit.                                                   *)
LeaveManage(m) ==
    /\ mpc' = [mpc EXCEPT ![m] = "idle"]
    /\ mfp' = [mfp EXCEPT ![m] = None]
    /\ mids' = [mids EXCEPT ![m] = {}]

(* matchDeviceLoginChallenge                                                 *)
Manage(m, f) ==
    /\ mpc[m] = "idle" /\ challenge = f
    /\ mpc' = [mpc EXCEPT ![m] = "listing"]
    /\ mfp' = [mfp EXCEPT ![m] = f]
    /\ UNCHANGED <<deviceVars, challenge, loginVars, mids>>

(* E_DEVICE_LOGINED_EMPTY                                                    *)
ListLoggedIn(m) ==
    /\ mpc[m] = "listing" /\ logged # {}
    /\ mpc' = [mpc EXCEPT ![m] = "counting"]
    /\ UNCHANGED <<deviceVars, challenge, loginVars, mfp, mids>>

(* E_DEVICE_LOGINED_NOT_REACHED_LIMIT                                        *)
CheckReached(m) ==
    /\ mpc[m] = "counting" /\ Cardinality(logged) >= LoginLimit
    /\ mpc' = [mpc EXCEPT ![m] = "slicing"]
    /\ UNCHANGED <<deviceVars, challenge, loginVars, mfp, mids>>

(* The number of elements of array.slice(0, k) of an array of length n: a    *)
(* negative k counts from the end.                                           *)
SliceLength(n, k) ==
    IF k >= 0 THEN (IF k < n THEN k ELSE n) ELSE (IF n + k > 0 THEN n + k ELSE 0)

ToLogOut(n) == n - LoginLimit + 1

(* logoutExcessDevices reads the signed-in devices once more and takes the   *)
(* excess in order of last_login_at; an empty list makes IN () an SQL error. *)
Slice(m) ==
    /\ mpc[m] = "slicing"
    /\ LET n == SliceLength(Cardinality(logged), ToLogOut(Cardinality(logged)))
       IN /\ n > 0
          /\ \E s \in SUBSET logged :
                 /\ Cardinality(s) = n /\ s \X (logged \ s) \subseteq earlier
                 /\ mids' = [mids EXCEPT ![m] = {IdOf(f) : f \in s}]
    /\ mpc' = [mpc EXCEPT ![m] = "updating"]
    /\ UNCHANGED <<deviceVars, challenge, loginVars, mfp>>

LogOut(m) ==
    /\ mpc[m] = "updating"
    /\ logged' = {f \in logged : IdOf(f) \notin mids[m]}
    /\ mpc' = [mpc EXCEPT ![m] = "clearing"]
    /\ mids' = [mids EXCEPT ![m] = {}]
    /\ UNCHANGED <<row, made, earlier, challenge, loginVars, mfp>>

(* clearDeviceLoginChallenge, after the audit log.                           *)
ClearChallenge(m) ==
    /\ mpc[m] = "clearing"
    /\ challenge' = None
    /\ LeaveManage(m)
    /\ UNCHANGED <<deviceVars, loginVars>>

(* A check or a query throws; the request answers with an error.             *)
ManageFails(m) ==
    /\ mpc[m] # "idle"
    /\ LeaveManage(m)
    /\ UNCHANGED <<deviceVars, challenge, loginVars>>

-----------------------------------------------------------------------------
(* What others do to the devices.  Signing out by the member is done by      *)
(* another service; a row is removed by verifyMailVerificationCode.          *)
SignOut(f) ==
    /\ f \in logged
    /\ logged' = logged \ {f}
    /\ UNCHANGED <<row, made, earlier, challenge, loginVars, manageVars>>

RemoveDevice(f) ==
    /\ row[f] # 0
    /\ row' = [row EXCEPT ![f] = 0]
    /\ logged' = logged \ {f}
    /\ earlier' = Without(f)
    /\ UNCHANGED <<made, challenge, loginVars, manageVars>>

ChallengeExpires ==
    /\ challenge # None
    /\ challenge' = None
    /\ UNCHANGED <<deviceVars, loginVars, manageVars>>

LoginStep(l) ==
    \/ \E f \in FingerPrints : Login(l, f)
    \/ Admit(l) \/ RefuseBind(l) \/ RefuseLogin(l) \/ WriteChallenge(l)
    \/ Find(l) \/ SaveFound(l) \/ SaveNew(l) \/ LoginFails(l)

ManageStep(m) ==
    \/ \E f \in FingerPrints : Manage(m, f)
    \/ ListLoggedIn(m) \/ CheckReached(m) \/ Slice(m) \/ LogOut(m)
    \/ ClearChallenge(m) \/ ManageFails(m)

Next ==
    \/ \E l \in Logins : LoginStep(l)
    \/ \E m \in Managers : ManageStep(m)
    \/ \E f \in FingerPrints : SignOut(f) \/ RemoveDevice(f)
    \/ ChallengeExpires

Spec == Init /\ [][Next]_vars

-----------------------------------------------------------------------------
(* Properties.                                                               *)

(* Browsers a login has been admitted for and not yet written.               *)
Admitted == {lfp[l] : l \in {k \in Logins : lpc[k] \in {"finding", "saving"}}}

(* The limit is checked before the device is written, so logins that overlap *)
(* can pass it together; the excess is at most the other open logins, and it *)
(* never adds up over time.                                                  *)
LoginOvershootBounded ==
    LoginRestriction /\ ~AppOwner =>
        Cardinality(logged \cup Admitted) <= LoginLimit - 1 + Cardinality(Logins)

(* Likewise for the bound devices.                                           *)
BindOvershootBounded ==
    DeviceManagement /\ ~AppOwner =>
        Cardinality(Bound \cup Admitted) <= BindLimit - 1 + Cardinality(Logins)

(* However logins overlap, both limits are exceeded by less than their      *)
(* number.                                                                   *)
OvershootBounded == LoginOvershootBounded /\ BindOvershootBounded

(* What logoutExcessDevices selects leaves room for one more device.         *)
SliceMakesRoom ==
    [][\A m \in Managers :
          mpc[m] = "slicing" /\ mpc'[m] = "updating" =>
              Cardinality({f \in logged : IdOf(f) \notin mids'[m]}) < LoginLimit]_vars

==============================================================================
