-------------------------- MODULE DeviceLimitProofs --------------------------
(***************************************************************************)
(* Proofs about DeviceLimit: overlapping logins exceed a device limit by   *)
(* at most the number of logins that can overlap, for any limits, any      *)
(* number of browsers and requests, and however devices are signed out or  *)
(* removed meanwhile; the devices keep their order and the rows their      *)
(* types; and the forced sign-out of old devices makes room.               *)
(***************************************************************************)
EXTENDS DeviceLimit, FiniteSetTheorems, TLAPS

(* The types the proofs need; the order of the devices plays no part.      *)
RequestsOK ==
    /\ lpc \in [Logins -> LPcs]
    /\ lfp \in [Logins -> FingerPrints \cup {None}]
    /\ \A l \in Logins : lpc[l] # "idle" => lfp[l] \in FingerPrints
    /\ found \in [Logins -> 0..MaxRows]

RowsOK ==
    /\ row \in [FingerPrints -> 0..MaxRows]
    /\ made \in [FingerPrints -> 0..MaxRows]
    /\ logged \in SUBSET FingerPrints
    /\ logged \subseteq Bound

BaseInv == RequestsOK /\ RowsOK

Open == {k \in Logins : lpc[k] \in {"finding", "saving"}}

(* There are no more admitted browsers than open logins.                   *)
AdmittedSmall ==
    /\ Admitted \in SUBSET FingerPrints
    /\ Cardinality(Admitted) <= Cardinality(Logins)

LEMMA AdmittedBounded == RequestsOK => AdmittedSmall
<1> SUFFICES ASSUME RequestsOK PROVE AdmittedSmall
  OBVIOUS
<1>1. Admitted \subseteq FingerPrints
  BY DEF Admitted, RequestsOK
<1>2. IsFiniteSet(Open) /\ Cardinality(Open) <= Cardinality(Logins)
  BY SetsAssumption, FS_Subset DEF Open
<1>3. Admitted = {lfp[l] : l \in Open}
  BY DEF Admitted, Open
<1> DEFINE f == [l \in Open |-> lfp[l]]
<1>4. f \in Surjection(Open, Admitted)
  <2>1. f \in [Open -> Admitted]
    BY <1>3
  <2>2. \A t \in Admitted : \E s \in Open : f[s] = t
    BY <1>3
  <2> QED BY <2>1, <2>2 DEF Surjection
<1>5. IsFiniteSet(Admitted) /\ Cardinality(Admitted) <= Cardinality(Open)
  BY <1>2, <1>4, FS_Surjection
<1>6. /\ Cardinality(Admitted) \in Nat /\ Cardinality(Logins) \in Nat
      /\ Cardinality(Open) \in Nat
  BY <1>2, <1>5, SetsAssumption, FS_CardinalityType
<1> QED BY <1>1, <1>2, <1>5, <1>6 DEF AdmittedSmall

LEMMA AdmittedBoundedNext == RequestsOK' => AdmittedSmall'
BY AdmittedBounded, PTL

(* What a login is admitted for, step by step.                             *)
LEMMA AdmittedKept ==
    ASSUME NEW l \in Logins, RequestsOK,
           \A k \in Logins \ {l} : lpc'[k] = lpc[k] /\ lfp'[k] = lfp[k],
           lpc'[l] \notin {"finding", "saving"}
    PROVE  Admitted' \subseteq Admitted
BY DEF Admitted, RequestsOK

LEMMA BaseInit == Init => BaseInv
<1> SUFFICES ASSUME Init PROVE BaseInv
  OBVIOUS
<1> USE SetsAssumption
<1>1. RequestsOK
  BY DEF Init, RequestsOK, LPcs
<1>2. row \in [FingerPrints -> 0..MaxRows] /\ made \in [FingerPrints -> 0..MaxRows]
  BY DEF Init
<1>3. logged \in SUBSET FingerPrints /\ logged \subseteq Bound
  BY DEF Init
<1> QED BY <1>1, <1>2, <1>3 DEF BaseInv, RowsOK

LEMMA BaseNext == BaseInv /\ [Next]_vars => BaseInv'
<1> SUFFICES ASSUME BaseInv, [Next]_vars PROVE BaseInv'
  OBVIOUS
<1> USE SetsAssumption DEF BaseInv, RequestsOK, RowsOK, Bound, deviceVars, loginVars, LPcs
<1>1. ASSUME NEW l \in Logins, LoginStep(l) PROVE BaseInv'
  <2>1. ASSUME NEW f \in FingerPrints, Login(l, f) PROVE BaseInv'
    BY <2>1 DEF Login
  <2>2. CASE Admit(l)
    BY <2>2 DEF Admit
  <2>3. CASE RefuseBind(l)
    BY <2>3 DEF RefuseBind, LeaveLogin
  <2>4. CASE RefuseLogin(l)
    BY <2>4 DEF RefuseLogin
  <2>5. CASE WriteChallenge(l)
    BY <2>5 DEF WriteChallenge, LeaveLogin
  <2>6. CASE Find(l)
    BY <2>6 DEF Find
  <2>7. CASE SaveFound(l)
    <3>1. RequestsOK'
      BY <2>7 DEF SaveFound, LeaveLogin
    <3>2. lfp[l] \in FingerPrints /\ found[l] \in 0..MaxRows /\ found[l] # 0
      BY <2>7 DEF SaveFound
    <3>3. row' = [row EXCEPT ![lfp[l]] = found[l]] /\ made' = made
          /\ logged' = logged \cup {lfp[l]}
      BY <2>7 DEF SaveFound, MarkLoggedIn
    <3>4. row' \in [FingerPrints -> 0..MaxRows]
      BY <3>2, <3>3
    <3>5. logged' \subseteq Bound'
      BY <3>2, <3>3
    <3> QED BY <3>1, <3>2, <3>3, <3>4, <3>5
  <2>8. CASE SaveNew(l)
    <3>1. RequestsOK'
      BY <2>8 DEF SaveNew, LeaveLogin
    <3>2. lfp[l] \in FingerPrints /\ made[lfp[l]] + 1 \in 1..MaxRows
      BY <2>8 DEF SaveNew
    <3>3. made' = [made EXCEPT ![lfp[l]] = made[lfp[l]] + 1]
          /\ logged' = logged \cup {lfp[l]}
      BY <2>8 DEF SaveNew, MarkLoggedIn
    <3>4. row' = [row EXCEPT ![lfp[l]] = made[lfp[l]] + 1]
      BY <2>8, <3>2, <3>3 DEF SaveNew
    <3>5. row' \in [FingerPrints -> 0..MaxRows] /\ made' \in [FingerPrints -> 0..MaxRows]
      BY <3>2, <3>3, <3>4
    <3>6. logged' \subseteq Bound'
      BY <3>2, <3>3, <3>4
    <3> QED BY <3>1, <3>2, <3>3, <3>5, <3>6
  <2>9. CASE LoginFails(l)
    BY <2>9 DEF LoginFails, LeaveLogin
  <2> QED BY <1>1, <2>1, <2>2, <2>3, <2>4, <2>5, <2>6, <2>7, <2>8, <2>9 DEF LoginStep
<1>2. ASSUME NEW m \in Managers, ManageStep(m) PROVE BaseInv'
  BY <1>2 DEF ManageStep, Manage, ListLoggedIn, CheckReached, Slice, LogOut, ClearChallenge,
              ManageFails, LeaveManage
<1>3. ASSUME NEW f \in FingerPrints, SignOut(f) \/ RemoveDevice(f) PROVE BaseInv'
  BY <1>3 DEF SignOut, RemoveDevice
<1>4. CASE ChallengeExpires
  BY <1>4 DEF ChallengeExpires
<1>5. CASE UNCHANGED vars
  BY <1>5 DEF vars
<1> QED BY <1>1, <1>2, <1>3, <1>4, <1>5 DEF Next

(* A step either adds no browser to those signed in (bound) or admitted,   *)
(* or is the admission of a browser while there are fewer than the limit.  *)
LEMMA AdmissionStep ==
    ASSUME BaseInv, [Next]_vars, ~AppOwner
    PROVE  /\ \/ logged' \cup Admitted' \subseteq logged \cup Admitted
              \/ /\ logged' = logged
                 /\ LoginRestriction => Cardinality(logged) < LoginLimit
           /\ \/ Bound' \cup Admitted' \subseteq Bound \cup Admitted
              \/ /\ Bound' = Bound
                 /\ DeviceManagement => Cardinality(Bound) < BindLimit
<1> DEFINE Goal == /\ \/ logged' \cup Admitted' \subseteq logged \cup Admitted
                      \/ /\ logged' = logged
                         /\ LoginRestriction => Cardinality(logged) < LoginLimit
                   /\ \/ Bound' \cup Admitted' \subseteq Bound \cup Admitted
                      \/ /\ Bound' = Bound
                         /\ DeviceManagement => Cardinality(Bound) < BindLimit
<1>0. logged \in SUBSET FingerPrints /\ logged \subseteq Bound
      /\ row \in [FingerPrints -> 0..MaxRows] /\ RequestsOK
  BY DEF BaseInv, RowsOK
<1>1. ASSUME UNCHANGED <<lpc, lfp>>, logged' \subseteq logged, Bound' \subseteq Bound PROVE Goal
  <2>1. Admitted' = Admitted
    BY <1>1 DEF Admitted
  <2> QED BY <1>1, <2>1
<1>2. ASSUME NEW l \in Logins, LoginStep(l) PROVE Goal
  <2>0. lpc \in [Logins -> LPcs] /\ lfp \in [Logins -> FingerPrints \cup {None}]
        /\ (lpc[l] # "idle" => lfp[l] \in FingerPrints)
    BY <1>0 DEF RequestsOK
  <2>1. ASSUME logged' = logged, row' = row, Admitted' \subseteq Admitted PROVE Goal
    BY <2>1 DEF Bound
  <2>2. CASE \/ \E f \in FingerPrints : Login(l, f)
             \/ RefuseBind(l) \/ RefuseLogin(l) \/ WriteChallenge(l) \/ LoginFails(l)
    <3>1. \A k \in Logins \ {l} : lpc'[k] = lpc[k] /\ lfp'[k] = lfp[k]
      BY <2>0, <2>2 DEF Login, RefuseBind, RefuseLogin, WriteChallenge, LoginFails, LeaveLogin
    <3>2. lpc'[l] \notin {"finding", "saving"}
      BY <2>0, <2>2 DEF Login, RefuseBind, RefuseLogin, WriteChallenge, LoginFails, LeaveLogin
    <3>3. Admitted' \subseteq Admitted
      BY <1>0, <3>1, <3>2, AdmittedKept
    <3>4. logged' = logged /\ row' = row
      BY <2>2 DEF Login, RefuseBind, RefuseLogin, WriteChallenge, LoginFails, deviceVars
    <3> QED BY <2>1, <3>3, <3>4
  <2>3. CASE Admit(l)
    <3>1. logged' = logged /\ row' = row /\ Bound' = Bound
      BY <2>3 DEF Admit, deviceVars, Bound
    <3>2. Admitted' \subseteq Admitted \cup {lfp[l]}
      BY <2>0, <2>3 DEF Admit, Admitted
    <3>3. CASE lfp[l] \in logged
      BY <1>0, <3>1, <3>2, <3>3
    <3>4. CASE lfp[l] \notin logged
      <4>1. ~BindExceeded(lfp[l]) /\ ~LoginExceeded(lfp[l])
        BY <2>3, <3>4 DEF Admit
      <4>2. Cardinality(logged) \in Nat /\ Cardinality(Bound) \in Nat
        BY <1>0, SetsAssumption, FS_Subset, FS_CardinalityType DEF Bound
      <4>3. LoginRestriction => Cardinality(logged) < LoginLimit
        BY <3>4, <4>1, <4>2, LimitAssumption DEF LoginExceeded
      <4>4. DeviceManagement /\ lfp[l] \notin Bound => Cardinality(Bound) < BindLimit
        BY <4>1, <4>2, LimitAssumption DEF BindExceeded, AtBindLimit
      <4>5. CASE lfp[l] \in Bound
        BY <3>1, <3>2, <4>3, <4>5
      <4>6. CASE lfp[l] \notin Bound
        BY <3>1, <3>2, <4>3, <4>4, <4>6
      <4> QED BY <4>5, <4>6
    <3> QED BY <3>3, <3>4
  <2>4. CASE Find(l)
    <3>1. Admitted' \subseteq Admitted
      BY <2>0, <2>4 DEF Find, Admitted
    <3> QED BY <2>1, <2>4, <3>1 DEF Find, deviceVars
  <2>5. CASE SaveFound(l) \/ SaveNew(l)
    <3>1. lfp[l] \in Admitted /\ lfp[l] \in FingerPrints
      BY <2>0, <2>5 DEF SaveFound, SaveNew, Admitted
    <3>2. Admitted' \subseteq Admitted
      <4>1. \A k \in Logins \ {l} : lpc'[k] = lpc[k] /\ lfp'[k] = lfp[k]
        BY <2>0, <2>5 DEF SaveFound, SaveNew, LeaveLogin
      <4>2. lpc'[l] = "idle"
        BY <2>0, <2>5 DEF SaveFound, SaveNew, LeaveLogin
      <4> QED BY <1>0, <4>1, <4>2, AdmittedKept
    <3>3. logged' = logged \cup {lfp[l]}
      BY <2>5 DEF SaveFound, SaveNew, MarkLoggedIn
    <3>4. \A f \in FingerPrints \ {lfp[l]} : row'[f] = row[f]
      BY <1>0, <2>5 DEF SaveFound, SaveNew
    <3>5. Bound' \subseteq Bound \cup {lfp[l]}
      BY <3>4 DEF Bound
    <3> QED BY <3>1, <3>2, <3>3, <3>5
  <2> QED BY <1>2, <2>2, <2>3, <2>4, <2>5 DEF LoginStep
<1>3. ASSUME NEW m \in Managers, ManageStep(m) PROVE Goal
  <2>1. UNCHANGED <<lpc, lfp>> /\ logged' \subseteq logged /\ row' = row
    BY <1>3 DEF ManageStep, Manage, ListLoggedIn, CheckReached, Slice, LogOut, ClearChallenge,
                ManageFails, LeaveManage, deviceVars, loginVars
  <2>2. Bound' = Bound
    BY <2>1 DEF Bound
  <2> QED BY <1>1, <2>1, <2>2
<1>4. ASSUME NEW f \in FingerPrints, SignOut(f) \/ RemoveDevice(f) PROVE Goal
  <2>1. UNCHANGED <<lpc, lfp>> /\ logged' \subseteq logged
    BY <1>4 DEF SignOut, RemoveDevice, loginVars
  <2>2. Bound' \subseteq Bound
    BY <1>0, <1>4 DEF SignOut, RemoveDevice, Bound
  <2> QED BY <1>1, <2>1, <2>2
<1>5. CASE ChallengeExpires \/ UNCHANGED vars
  <2>1. UNCHANGED <<lpc, lfp, logged, row>>
    BY <1>5 DEF ChallengeExpires, vars, deviceVars, loginVars
  <2>2. Bound' = Bound
    BY <2>1 DEF Bound
  <2> QED BY <1>1, <2>1, <2>2
<1> QED BY <1>2, <1>3, <1>4, <1>5 DEF Next

(* The size of the union of a set below a limit with the admitted browsers.*)
LEMMA UnionBounded ==
    ASSUME NEW S \in SUBSET FingerPrints, NEW A \in SUBSET FingerPrints, NEW L \in Nat \ {0},
           Cardinality(S) < L, Cardinality(A) <= Cardinality(Logins)
    PROVE  Cardinality(S \cup A) <= L - 1 + Cardinality(Logins)
<1>1. IsFiniteSet(S) /\ IsFiniteSet(A) /\ IsFiniteSet(S \cap A) /\ IsFiniteSet(Logins)
  BY SetsAssumption, FS_Subset
<1>2. /\ Cardinality(S) \in Nat /\ Cardinality(A) \in Nat
      /\ Cardinality(S \cap A) \in Nat /\ Cardinality(Logins) \in Nat
  BY <1>1, FS_CardinalityType
<1>3. Cardinality(S \cup A) = Cardinality(S) + Cardinality(A) - Cardinality(S \cap A)
  BY <1>1, FS_Union
<1> QED BY <1>2, <1>3

(* Logins that overlap pass the check of checkAndBindDevices together, but *)
(* never exceed login_device_num by more than the other open logins.       *)
THEOREM DeviceLoginOvershoot == Spec => []LoginOvershootBounded
<1>1. BaseInv /\ LoginOvershootBounded /\ [Next]_vars => LoginOvershootBounded'
  <2> SUFFICES ASSUME BaseInv, LoginOvershootBounded, [Next]_vars, LoginRestriction, ~AppOwner
               PROVE  Cardinality(logged' \cup Admitted') <= LoginLimit - 1 + Cardinality(Logins)
    BY DEF LoginOvershootBounded
  <2>0. BaseInv'
    BY BaseNext
  <2>1. logged \in SUBSET FingerPrints /\ Admitted \in SUBSET FingerPrints
    BY AdmittedBounded DEF AdmittedSmall, BaseInv, RowsOK
  <2>2. logged' \in SUBSET FingerPrints
    BY <2>0 DEF BaseInv, RowsOK
  <2>3. RequestsOK'
    BY <2>0 DEF BaseInv
  <2>4. Admitted' \in SUBSET FingerPrints /\ Cardinality(Admitted') <= Cardinality(Logins)
    BY <2>3, AdmittedBoundedNext DEF AdmittedSmall
  <2>5. CASE logged' \cup Admitted' \subseteq logged \cup Admitted
    <3>1. IsFiniteSet(logged \cup Admitted)
      BY <2>1, SetsAssumption, FS_Subset
    <3>2. /\ Cardinality(logged' \cup Admitted') <= Cardinality(logged \cup Admitted)
          /\ IsFiniteSet(logged' \cup Admitted')
      BY <2>5, <3>1, FS_Subset
    <3>3. /\ Cardinality(logged' \cup Admitted') \in Nat
          /\ Cardinality(logged \cup Admitted) \in Nat /\ Cardinality(Logins) \in Nat
      BY <3>1, <3>2, SetsAssumption, FS_CardinalityType
    <3> QED BY <3>2, <3>3, LimitAssumption DEF LoginOvershootBounded
  <2>6. CASE logged' = logged /\ Cardinality(logged) < LoginLimit
    BY <2>1, <2>4, <2>6, LimitAssumption, UnionBounded
  <2> QED BY <2>5, <2>6, AdmissionStep
<1>2. Init => LoginOvershootBounded
  <2> SUFFICES ASSUME Init PROVE Cardinality(logged \cup Admitted)
                                     <= LoginLimit - 1 + Cardinality(Logins)
    BY DEF LoginOvershootBounded
  <2>0. Cardinality({}) = 0 /\ LoginLimit \in Nat \ {0}
    BY LimitAssumption, FS_EmptySet
  <2>1. logged \cup Admitted = {}
    BY DEF Init, Admitted
  <2>2. Cardinality(Logins) \in Nat
    BY SetsAssumption, FS_CardinalityType
  <2> QED BY <2>0, <2>1, <2>2
<1> QED BY <1>1, <1>2, BaseInit, BaseNext, PTL DEF Spec

(* Likewise for the bound devices and bind_device_num.                     *)
THEOREM DeviceBindOvershoot == Spec => []BindOvershootBounded
<1>1. BaseInv /\ BindOvershootBounded /\ [Next]_vars => BindOvershootBounded'
  <2> SUFFICES ASSUME BaseInv, BindOvershootBounded, [Next]_vars, DeviceManagement, ~AppOwner
               PROVE  Cardinality(Bound' \cup Admitted') <= BindLimit - 1 + Cardinality(Logins)
    BY DEF BindOvershootBounded
  <2>0. BaseInv'
    BY BaseNext
  <2>1. Bound \in SUBSET FingerPrints /\ Admitted \in SUBSET FingerPrints
    BY AdmittedBounded DEF AdmittedSmall, BaseInv, Bound
  <2>2. Bound' \in SUBSET FingerPrints
    BY DEF Bound
  <2>3. RequestsOK'
    BY <2>0 DEF BaseInv
  <2>4. Admitted' \in SUBSET FingerPrints /\ Cardinality(Admitted') <= Cardinality(Logins)
    BY <2>3, AdmittedBoundedNext DEF AdmittedSmall
  <2>5. CASE Bound' \cup Admitted' \subseteq Bound \cup Admitted
    <3>1. IsFiniteSet(Bound \cup Admitted)
      BY <2>1, SetsAssumption, FS_Subset
    <3>2. /\ Cardinality(Bound' \cup Admitted') <= Cardinality(Bound \cup Admitted)
          /\ IsFiniteSet(Bound' \cup Admitted')
      BY <2>5, <3>1, FS_Subset
    <3>3. /\ Cardinality(Bound' \cup Admitted') \in Nat
          /\ Cardinality(Bound \cup Admitted) \in Nat /\ Cardinality(Logins) \in Nat
      BY <3>1, <3>2, SetsAssumption, FS_CardinalityType
    <3> QED BY <3>2, <3>3, LimitAssumption DEF BindOvershootBounded
  <2>6. CASE Bound' = Bound /\ Cardinality(Bound) < BindLimit
    BY <2>1, <2>4, <2>6, LimitAssumption, UnionBounded
  <2> QED BY <2>5, <2>6, AdmissionStep
<1>2. Init => BindOvershootBounded
  <2> SUFFICES ASSUME Init PROVE Cardinality(Bound \cup Admitted)
                                     <= BindLimit - 1 + Cardinality(Logins)
    BY DEF BindOvershootBounded
  <2>0. Cardinality({}) = 0 /\ BindLimit \in Nat \ {0}
    BY LimitAssumption, FS_EmptySet
  <2>1. Bound \cup Admitted = {}
    BY DEF Init, Admitted, Bound
  <2>2. Cardinality(Logins) \in Nat
    BY SetsAssumption, FS_CardinalityType
  <2> QED BY <2>0, <2>1, <2>2
<1> QED BY <1>1, <1>2, BaseInit, BaseNext, PTL DEF Spec

(* Both limits together.                                                   *)
THEOREM DeviceOvershoot == Spec => []OvershootBounded
<1>1. LoginOvershootBounded /\ BindOvershootBounded => OvershootBounded
  BY DEF OvershootBounded
<1> QED BY <1>1, DeviceLoginOvershoot, DeviceBindOvershoot, PTL

-----------------------------------------------------------------------------
(* Types, and the order of the devices.                                    *)

OrderOK ==
    /\ earlier \subseteq Bound \X Bound
    /\ \A f \in Bound : <<f, f>> \notin earlier
    /\ \A f, g \in Bound : f # g => <<f, g>> \in earlier \/ <<g, f>> \in earlier
    /\ \A f, g, h \in Bound :
           <<f, g>> \in earlier /\ <<g, h>> \in earlier => <<f, h>> \in earlier

ManagersOK ==
    /\ challenge \in FingerPrints \cup {None}
    /\ mpc \in [Managers -> MPcs]
    /\ mfp \in [Managers -> FingerPrints \cup {None}]
    /\ mids \in [Managers -> SUBSET Ids]

(* A browser that logs in becomes the last one.                            *)
LEMMA OrderMarked ==
    ASSUME BaseInv, OrderOK, NEW f \in FingerPrints, MarkLoggedIn(f), row'[f] # 0,
           \A g \in FingerPrints \ {f} : row'[g] = row[g]
    PROVE  OrderOK'
<1>1. Bound' = Bound \cup {f}
  BY DEF Bound
<1>2. earlier' = Without(f) \cup ((Bound \ {f}) \X {f})
  BY DEF MarkLoggedIn
<1>3. \A g, h : <<g, h>> \in earlier' <=>
          \/ <<g, h>> \in earlier /\ g # f /\ h # f
          \/ g \in Bound \ {f} /\ h = f
  BY <1>2 DEF Without
<1>4. earlier' \subseteq Bound' \X Bound'
  <2>1. Without(f) \subseteq Bound' \X Bound'
    BY <1>1 DEF Without, OrderOK
  <2> QED BY <1>1, <1>2, <2>1
<1> QED BY <1>1, <1>3, <1>4 DEF OrderOK

LEMMA OrderRemoved ==
    ASSUME BaseInv, OrderOK, NEW f \in FingerPrints, RemoveDevice(f)
    PROVE  OrderOK'
<1>1. Bound' = Bound \ {f}
  BY DEF Bound, RemoveDevice, BaseInv, RowsOK
<1>2. earlier' = Without(f)
  BY DEF RemoveDevice
<1>3. \A g, h : <<g, h>> \in earlier' <=> <<g, h>> \in earlier /\ g # f /\ h # f
  BY <1>2 DEF Without
<1>4. earlier' \subseteq Bound' \X Bound'
  BY <1>1, <1>2 DEF Without, OrderOK
<1> QED BY <1>1, <1>3, <1>4 DEF OrderOK

LEMMA OrderNext ==
    ASSUME BaseInv, OrderOK, [Next]_vars
    PROVE  OrderOK'
<1>1. CASE UNCHANGED <<row, earlier>>
  BY <1>1 DEF OrderOK, Bound
<1>2. ASSUME NEW l \in Logins, SaveFound(l) PROVE OrderOK'
  <2>1. /\ lfp[l] \in FingerPrints /\ MarkLoggedIn(lfp[l]) /\ found[l] # 0
        /\ row' = [row EXCEPT ![lfp[l]] = found[l]]
    BY <1>2 DEF SaveFound, BaseInv, RequestsOK
  <2> QED BY <2>1, OrderMarked DEF BaseInv, RowsOK
<1>3. ASSUME NEW l \in Logins, SaveNew(l) PROVE OrderOK'
  <2>1. /\ lfp[l] \in FingerPrints /\ MarkLoggedIn(lfp[l])
        /\ made' = [made EXCEPT ![lfp[l]] = made[lfp[l]] + 1]
        /\ row' = [row EXCEPT ![lfp[l]] = made'[lfp[l]]]
    BY <1>3 DEF SaveNew, BaseInv, RequestsOK
  <2>2. made'[lfp[l]] # 0
    BY <2>1, SetsAssumption DEF BaseInv, RowsOK
  <2> QED BY <2>1, <2>2, OrderMarked DEF BaseInv, RowsOK
<1>4. ASSUME NEW f \in FingerPrints, RemoveDevice(f) PROVE OrderOK'
  BY <1>4, OrderRemoved
<1>5. \/ UNCHANGED <<row, earlier>>
      \/ \E l \in Logins : SaveFound(l) \/ SaveNew(l)
      \/ \E f \in FingerPrints : RemoveDevice(f)
  BY DEF Next, LoginStep, ManageStep, vars, deviceVars, Login, Admit, RefuseBind, RefuseLogin,
         WriteChallenge, Find, LoginFails, Manage, ListLoggedIn, CheckReached, Slice, LogOut,
         ClearChallenge, ManageFails, SignOut, ChallengeExpires
<1> QED BY <1>1, <1>2, <1>3, <1>4, <1>5

(* An id that is selected is that of a row.                                *)
LEMMA IdsSelected ==
    ASSUME BaseInv, NEW s \in SUBSET logged
    PROVE  {IdOf(f) : f \in s} \in SUBSET Ids
BY SetsAssumption DEF BaseInv, RowsOK, Bound, IdOf, Ids

LEMMA ManagersNext ==
    ASSUME BaseInv, ManagersOK, [Next]_vars
    PROVE  ManagersOK'
<1> USE DEF ManagersOK, MPcs, manageVars
<1>1. ASSUME NEW l \in Logins, LoginStep(l) PROVE ManagersOK'
  <2>1. CASE WriteChallenge(l)
    BY <2>1 DEF WriteChallenge, BaseInv, RequestsOK
  <2>2. CASE ~WriteChallenge(l)
    BY <1>1, <2>2 DEF LoginStep, Login, Admit, RefuseBind, RefuseLogin, Find, SaveFound,
                      SaveNew, LoginFails
  <2> QED BY <2>1, <2>2
<1>2. ASSUME NEW m \in Managers, ManageStep(m) PROVE ManagersOK'
  <2>1. ASSUME NEW f \in FingerPrints, Manage(m, f) PROVE ManagersOK'
    BY <2>1 DEF Manage
  <2>2. CASE ListLoggedIn(m) \/ CheckReached(m) \/ LogOut(m)
    BY <2>2 DEF ListLoggedIn, CheckReached, LogOut
  <2>3. CASE Slice(m)
    <3>1. PICK s \in SUBSET logged : mids' = [mids EXCEPT ![m] = {IdOf(f) : f \in s}]
      BY <2>3 DEF Slice
    <3>2. {IdOf(f) : f \in s} \in SUBSET Ids
      BY <3>1, IdsSelected
    <3>3. mids' \in [Managers -> SUBSET Ids]
      BY <3>1, <3>2
    <3> QED BY <2>3, <3>3 DEF Slice
  <2>4. CASE ClearChallenge(m) \/ ManageFails(m)
    BY <2>4 DEF ClearChallenge, ManageFails, LeaveManage
  <2> QED BY <1>2, <2>1, <2>2, <2>3, <2>4 DEF ManageStep
<1>3. ASSUME NEW f \in FingerPrints, SignOut(f) \/ RemoveDevice(f) PROVE ManagersOK'
  BY <1>3 DEF SignOut, RemoveDevice
<1>4. CASE ChallengeExpires \/ UNCHANGED vars
  BY <1>4 DEF ChallengeExpires, vars
<1> QED BY <1>1, <1>2, <1>3, <1>4 DEF Next

(* The rows, their order by last login and the flags of the devices agree, *)
(* and every login and every forced sign-out holds browsers and ids that   *)
(* exist.                                                                  *)
THEOREM DeviceTypeCorrect == Spec => []TypeOK
<1>1. Init => OrderOK /\ ManagersOK
  <2> SUFFICES ASSUME Init PROVE OrderOK /\ ManagersOK
    OBVIOUS
  <2>1. Bound = {} /\ earlier = {}
    BY DEF Init, Bound
  <2> QED BY <2>1 DEF Init, OrderOK, ManagersOK, MPcs
<1>2. BaseInv /\ OrderOK /\ ManagersOK /\ [Next]_vars => OrderOK' /\ ManagersOK'
  BY OrderNext, ManagersNext
<1>3. BaseInv /\ OrderOK /\ ManagersOK => TypeOK
  BY DEF BaseInv, RequestsOK, RowsOK, OrderOK, ManagersOK, TypeOK, DevicesConsistent
<1> QED BY <1>1, <1>2, <1>3, BaseInit, BaseNext, PTL DEF Spec

-----------------------------------------------------------------------------
(* The forced sign-out.                                                    *)

(* What slice(0, n - limit + 1) leaves of n devices, if it selects any.    *)
LEMMA SliceLeaves ==
    ASSUME NEW n \in Nat, SliceLength(n, ToLogOut(n)) > 0
    PROVE  SliceLength(n, ToLogOut(n)) \in 0..n /\ n - SliceLength(n, ToLogOut(n)) < LoginLimit
BY LimitAssumption DEF SliceLength, ToLogOut

LEMMA SliceMakesRoomStep ==
    ASSUME BaseInv, NEW m \in Managers, Slice(m),
           mids \in [Managers -> SUBSET Ids]
    PROVE  Cardinality({f \in logged : IdOf(f) \notin mids'[m]}) < LoginLimit
<1> DEFINE n == SliceLength(Cardinality(logged), ToLogOut(Cardinality(logged)))
<1>1. PICK s \in SUBSET logged : /\ n > 0 /\ Cardinality(s) = n
                                 /\ mids' = [mids EXCEPT ![m] = {IdOf(f) : f \in s}]
  BY DEF Slice
<1>2. {f \in logged : IdOf(f) \notin mids'[m]} \subseteq logged \ s
  BY <1>1
<1>3. IsFiniteSet(logged) /\ IsFiniteSet(s) /\ IsFiniteSet(logged \ s)
  BY SetsAssumption, FS_Subset DEF BaseInv, RowsOK
<1>4. /\ Cardinality(logged) \in Nat /\ Cardinality(logged \ s) \in Nat
      /\ Cardinality({f \in logged : IdOf(f) \notin mids'[m]}) \in Nat
      /\ Cardinality({f \in logged : IdOf(f) \notin mids'[m]}) <= Cardinality(logged \ s)
  BY <1>2, <1>3, FS_Subset, FS_CardinalityType
<1>5. Cardinality(logged \ s) = Cardinality(logged) - Cardinality(logged \cap s)
  BY <1>3, FS_Difference
<1>6. logged \cap s = s
  OBVIOUS
<1>7. Cardinality(logged) - n < LoginLimit /\ n \in Int
  BY <1>1, <1>4, SliceLeaves
<1> HIDE DEF n
<1>8. Cardinality(logged \ s) = Cardinality(logged) - n
  BY <1>1, <1>5, <1>6
<1> QED BY <1>4, <1>7, <1>8, LimitAssumption

(* What logoutExcessDevices selects leaves room for one more device,       *)
(* whatever signed in or out since the limit was checked, and also where   *)
(* slice counts from the end.                                              *)
THEOREM DeviceSliceMakesRoom == Spec => SliceMakesRoom
<1>1. BaseInv /\ TypeOK /\ [Next]_vars =>
          \A m \in Managers : mpc[m] = "slicing" /\ mpc'[m] = "updating" =>
              Cardinality({f \in logged : IdOf(f) \notin mids'[m]}) < LoginLimit
  <2> SUFFICES ASSUME BaseInv, TypeOK, [Next]_vars, NEW m \in Managers,
                      mpc[m] = "slicing", mpc'[m] = "updating"
               PROVE  Slice(m)
    BY SliceMakesRoomStep DEF TypeOK
  <2> USE DEF TypeOK, manageVars
  <2>1. ASSUME NEW l \in Logins, LoginStep(l) PROVE FALSE
    BY <2>1 DEF LoginStep, Login, Admit, RefuseBind, RefuseLogin, WriteChallenge, Find,
                SaveFound, SaveNew, LoginFails
  <2>2. ASSUME NEW k \in Managers, ManageStep(k), ~(k = m /\ Slice(k)) PROVE FALSE
    BY <2>2 DEF ManageStep, Manage, ListLoggedIn, CheckReached, Slice, LogOut, ClearChallenge,
                ManageFails, LeaveManage
  <2>3. ASSUME NEW f \in FingerPrints, SignOut(f) \/ RemoveDevice(f) PROVE FALSE
    BY <2>3 DEF SignOut, RemoveDevice
  <2>4. CASE ChallengeExpires \/ UNCHANGED vars
    BY <2>4 DEF ChallengeExpires, vars
  <2> QED BY <2>1, <2>2, <2>3, <2>4 DEF Next
<1>2. Spec => []BaseInv
  BY BaseInit, BaseNext, PTL DEF Spec
<1> QED BY <1>1, <1>2, DeviceTypeCorrect, PTL DEF Spec, SliceMakesRoom

==============================================================================
