----------------------------- MODULE AuthProofs -----------------------------
(***************************************************************************)
(* Proofs about Auth.  Of the bind codes: their types, the accounting of   *)
(* the fail counter, the bound on wrong codes and the death of the codes,  *)
(* for any number of concurrent requests, codes, devices and any Cap.  Of  *)
(* the passwords: the types, the bound on the passwords compared, and the  *)
(* links a reset can revoke, for any number of concurrent requests,        *)
(* accounts, addresses and tokens and any caps; and that what is proved of *)
(* DeviceBindCode holds of Auth.                                           *)
(***************************************************************************)
EXTENDS Auth, FiniteSetTheorems, TLAPS

(* Every reachable state of DeviceBindCode is well typed.                  *)
THEOREM BindTypeCorrect == Codes # {} => (Spec => []TypeOK)
<1> SUFFICES ASSUME Codes # {} PROVE Spec => []TypeOK
  OBVIOUS
<1> USE CapAssumption, BoundsAssumption
<1>0. SomeCode \in Codes
  BY DEF SomeCode
<1>1. Init => TypeOK
  <2> SUFFICES ASSUME Init PROVE TypeOK
    OBVIOUS
  <2>1. /\ challenge \in BOOLEAN /\ failExists \in BOOLEAN /\ cooldown \in BOOLEAN
        /\ fail \in Int /\ sendCount \in 0..(SendCap + 1)
        /\ rows \in 0..MaxRows /\ live \in SUBSET (1..rows)
        /\ devices \in SUBSET Devices /\ login \in BOOLEAN
    <3>1. challenge \in BOOLEAN /\ failExists \in BOOLEAN /\ cooldown \in BOOLEAN /\ login \in BOOLEAN
      BY DEF Init
    <3>2. fail \in Int /\ sendCount \in 0..(SendCap + 1) /\ rows \in 0..MaxRows
      BY DEF Init
    <3>3. live \in SUBSET (1..rows) /\ devices \in SUBSET Devices
      BY DEF Init
    <3> QED BY <3>1, <3>2, <3>3
  <2>2. /\ vpc \in [Verifiers -> VPcs] /\ guess \in [Verifiers -> Codes]
        /\ attempts \in [Verifiers -> Int] /\ codeOf \in [Rows -> Codes]
    BY <1>0 DEF Init, VPcs
  <2>3. /\ oldest \in [Verifiers -> Devices \cup {0}]
        /\ vids \in [Verifiers -> SUBSET Rows] /\ matched \in [Verifiers -> SUBSET Rows]
    BY DEF Init
  <2>4. /\ spc \in [Senders -> SPcs] /\ sids \in [Senders -> SUBSET Rows]
        /\ holders \in SUBSET Verifiers
        /\ wrong \in Nat /\ kept \in Nat /\ debt \in Nat /\ removed \in Nat
    BY DEF Init, SPcs
  <2> QED BY <2>1, <2>2, <2>3, <2>4 DEF TypeOK
<1>2. TypeOK /\ [Next]_vars => TypeOK'
  <2> SUFFICES ASSUME TypeOK, [Next]_vars PROVE TypeOK'
    OBVIOUS
  <2> USE <1>0 DEF TypeOK, redisVars, codeVars, verifyVars, sendVars, ghostVars, removalVars,
                   Goto, Step
  <2>1. CASE LoginCheck
    BY <2>1 DEF LoginCheck
  <2>2. CASE LoginWrite
    BY <2>2 DEF LoginWrite
  <2>3. ASSUME NEW s \in Senders, SendStep(s) PROVE TypeOK'
    <3>1. CASE Send(s)
      BY <3>1 DEF Send, SPcs
    <3>2. CASE Cool(s)
      BY <3>2 DEF Cool, SPcs
    <3>3. CASE CountSend(s)
      BY <3>3 DEF CountSend, SPcs
    <3>4. CASE ListOld(s)
      BY <3>4 DEF ListOld, SPcs, Rows
    <3>5. CASE ExpireOld(s)
      BY <3>5 DEF ExpireOld, SPcs, AfterUpdateToNow
    <3>6. CASE InsertCode(s)
      <4>1. codeOf' \in [Rows -> Codes]
        BY <3>6 DEF InsertCode, Rows
      <4>2. rows' \in 0..MaxRows /\ live' \in SUBSET (1..rows')
        BY <3>6 DEF InsertCode, NewRow
      <4> QED BY <3>6, <4>1, <4>2 DEF InsertCode, SPcs
    <3>7. CASE SendFails(s)
      BY <3>7 DEF SendFails, SPcs
    <3> QED BY <2>3, <3>1, <3>2, <3>3, <3>4, <3>5, <3>6, <3>7 DEF SendStep
  <2>4. ASSUME NEW v \in Verifiers, VerifyStep(v) PROVE TypeOK'
    <3>1. ASSUME NEW c \in Codes, Verify(v, c) PROVE TypeOK'
      BY <3>1 DEF Verify, VPcs
    <3>2. CASE ReadChallenge(v)
      BY <3>2 DEF ReadChallenge, VPcs
    <3>3. CASE CountAttempt(v)
      BY <3>3 DEF CountAttempt, VPcs, Increment, Accept
    <3>4. CASE RightCode(v)
      <4>0. live \subseteq Rows
        BY DEF Rows
      <4>3. {r \in live : codeOf[r] = guess[v]} \in SUBSET Rows
        BY <4>0
      <4>1. matched' \in [Verifiers -> SUBSET Rows]
        BY <3>4, <4>3 DEF RightCode
      <4>2. vpc' \in [Verifiers -> VPcs] /\ guess' \in [Verifiers -> Codes]
        BY <3>4 DEF RightCode, VPcs
      <4> QED BY <3>4, <4>1, <4>2 DEF RightCode
    <3>5. CASE WrongCode(v)
      BY <3>5 DEF WrongCode, VPcs
    <3>6. CASE ReadDevices(v)
      BY <3>6 DEF ReadDevices, VPcs, Devices
    <3>7. CASE RemoveDevice(v)
      <4>1. vpc' \in [Verifiers -> VPcs] /\ oldest' \in [Verifiers -> Devices \cup {0}]
        BY <3>7 DEF RemoveDevice, VPcs
      <4>2. devices' \in SUBSET Devices /\ removed' \in Nat
        BY <3>7 DEF RemoveDevice
      <4> QED BY <3>7, <4>1, <4>2 DEF RemoveDevice
    <3>8. CASE ListCodes(v)
      BY <3>8 DEF ListCodes, VPcs, Rows
    <3>9. CASE ExpireCodes(v)
      BY <3>9 DEF ExpireCodes, VPcs, AfterUpdateToNow
    <3>10. CASE GiveBack(v)
      BY <3>10 DEF GiveBack, VPcs, DecrementIfExists
    <3>11. CASE Refuse(v)
      BY <3>11 DEF Refuse, VPcs
    <3>12. CASE ClearChallenge(v)
      BY <3>12 DEF ClearChallenge, VPcs
    <3>13. CASE VerifyThrows(v)
      BY <3>13 DEF VerifyThrows, VPcs, Forget
    <3>14. CASE VerifyDies(v)
      BY <3>14 DEF VerifyDies, VPcs, Forget
    <3> QED BY <2>4, <3>1, <3>2, <3>3, <3>4, <3>5, <3>6, <3>7, <3>8, <3>9, <3>10, <3>11, <3>12,
               <3>13, <3>14 DEF VerifyStep
  <2>5. CASE ChallengeExpires
    BY <2>5 DEF ChallengeExpires
  <2>6. CASE FailExpires
    <3>1. /\ failExists' = FALSE /\ fail' = 0 /\ holders' = {}
          /\ wrong' = 0 /\ kept' = 0 /\ debt' = 0
      BY <2>6 DEF FailExpires
    <3>2. UNCHANGED <<challenge, cooldown, sendCount, codeVars, devices, login, verifyVars,
                      sendVars, removalVars>>
      BY <2>6 DEF FailExpires
    <3>3. failExists' \in BOOLEAN /\ challenge' \in BOOLEAN /\ cooldown' \in BOOLEAN
          /\ login' \in BOOLEAN
      BY <3>1, <3>2
    <3>4. fail' \in Int /\ holders' \in SUBSET Verifiers /\ wrong' \in Nat /\ kept' \in Nat
          /\ debt' \in Nat
      BY <3>1
    <3> QED BY <3>2, <3>3, <3>4
  <2>7. CASE CooldownExpires
    BY <2>7 DEF CooldownExpires
  <2>8. CASE SendCountExpires
    BY <2>8 DEF SendCountExpires
  <2>9. ASSUME NEW r \in Rows, CodeExpires(r) PROVE TypeOK'
    BY <2>9 DEF CodeExpires
  <2>10. CASE UNCHANGED vars
    BY <2>10 DEF vars
  <2> QED BY <2>1, <2>2, <2>3, <2>4, <2>5, <2>6, <2>7, <2>8, <2>9, <2>10 DEF Next
<1> QED BY <1>1, <1>2, PTL DEF Spec

-----------------------------------------------------------------------------
(* What the accounting needs to know of the types.                         *)
CounterTypeOK ==
    /\ failExists \in BOOLEAN /\ fail \in Int
    /\ holders \in SUBSET Verifiers
    /\ wrong \in Nat /\ kept \in Nat /\ debt \in Nat

CounterInv == CounterTypeOK /\ CounterAccounts /\ WrongCodesBounded

counterVars == <<failExists, fail, holders, wrong, kept, debt>>

LEMMA HoldersFinite == CounterTypeOK => /\ IsFiniteSet(holders)
                                        /\ Cardinality(holders) \in Nat
BY RequestsAssumption, FS_Subset, FS_CardinalityType DEF CounterTypeOK

(* Taking an element out of the holders, or putting one in.                *)
LEMMA HoldersWithout ==
    ASSUME CounterTypeOK, NEW v \in holders
    PROVE  Cardinality(holders \ {v}) = Cardinality(holders) - 1
BY HoldersFinite, FS_RemoveElement

LEMMA HoldersWith ==
    ASSUME CounterTypeOK, NEW v \in Verifiers
    PROVE  Cardinality(holders \cup {v}) =
               IF v \in holders THEN Cardinality(holders) ELSE Cardinality(holders) + 1
BY HoldersFinite, FS_AddElement

(* A request holds an attempt only between the count and the decision.     *)
HoldersUndecided ==
    \A v \in holders : vpc[v] \in {"comparing", "devices", "removing", "listing", "expiring",
                                   "givingBack"}

AccountInv == CounterInv /\ HoldersUndecided

LEMMA AccountInit == Init => AccountInv
<1> SUFFICES ASSUME Init PROVE AccountInv
  OBVIOUS
<1>0. /\ failExists = FALSE /\ fail = 0 /\ holders = {}
      /\ wrong = 0 /\ kept = 0 /\ debt = 0
  BY DEF Init
<1>1. CounterTypeOK /\ CounterAccounts
  <2>1. failExists \in BOOLEAN /\ ~failExists
    BY <1>0
  <2>2. CounterTypeOK
    BY <1>0, <2>1 DEF CounterTypeOK
  <2>3. CounterAccounts
    BY <1>0, <2>1 DEF CounterAccounts
  <2> QED BY <2>2, <2>3
<1>2. WrongCodesBounded
  BY CapAssumption, FS_EmptySet DEF Init, WrongCodesBounded
<1>3. HoldersUndecided
  BY DEF Init, HoldersUndecided
<1> QED BY <1>1, <1>2, <1>3 DEF AccountInv, CounterInv

(* A step that leaves the counter and its history alone, and moves no      *)
(* undecided request out of the undecided part, keeps the invariant.       *)
LEMMA AccountUnchanged ==
    ASSUME AccountInv, UNCHANGED counterVars, HoldersUndecided'
    PROVE  AccountInv'
BY DEF AccountInv, CounterInv, CounterTypeOK, CounterAccounts, WrongCodesBounded, counterVars

(* A verification that breaks off leaves its attempt counted.              *)
LEMMA AccountForget ==
    ASSUME AccountInv, NEW v \in Verifiers, Forget(v), UNCHANGED <<failExists, fail>>,
           HoldersUndecided'
    PROVE  AccountInv'
<1> USE DEF AccountInv, CounterInv
<1>1. CASE v \in holders
  <2>1. Cardinality(holders') = Cardinality(holders) - 1
    BY <1>1, HoldersWithout DEF Forget
  <2>2. /\ kept' = kept + 1 /\ wrong' = wrong /\ debt' = debt
        /\ holders' = holders \ {v}
    BY <1>1 DEF Forget
  <2>3. Cardinality(holders) \in Nat
    BY HoldersFinite
  <2>4. failExists
    BY <1>1 DEF CounterAccounts
  <2>5. CounterTypeOK'
    BY <2>2 DEF CounterTypeOK
  <2>6. CounterAccounts'
    BY <2>1, <2>2, <2>3, <2>4 DEF CounterAccounts, CounterTypeOK
  <2>7. WrongCodesBounded'
    BY <2>1, <2>2, <2>3, CapAssumption DEF WrongCodesBounded, CounterTypeOK
  <2> QED BY <2>5, <2>6, <2>7
<1>2. CASE v \notin holders
  <2>1. holders' = holders /\ kept' = kept /\ wrong' = wrong /\ debt' = debt
    BY <1>2 DEF Forget
  <2> QED BY <2>1, AccountUnchanged DEF counterVars
<1> QED BY <1>1, <1>2

(* Requests other than v stay where they are.                              *)
LEMMA UndecidedStep ==
    ASSUME AccountInv, NEW v \in Verifiers, NEW pc, Step(v, pc),
           vpc \in [Verifiers -> VPcs],
           holders' \subseteq holders \cup {v},
           v \in holders' => pc \in {"comparing", "devices", "removing", "listing", "expiring",
                                     "givingBack"}
    PROVE  HoldersUndecided'
BY DEF AccountInv, CounterInv, CounterTypeOK, HoldersUndecided, Step

(* CountAttempt: an accepted attempt is within the cap when it is counted. *)
LEMMA AccountCount ==
    ASSUME AccountInv, NEW v \in Verifiers, CountAttempt(v), vpc \in [Verifiers -> VPcs]
    PROVE  AccountInv'
<1> USE DEF AccountInv, CounterInv
<1>1. v \notin holders
  BY DEF CountAttempt, HoldersUndecided
<1>2. Cardinality(holders) \in Nat
  BY HoldersFinite
<1>3. failExists' = TRUE /\ fail' = fail + 1 /\ wrong' = wrong /\ debt' = debt
  BY DEF CountAttempt, Increment
<1>4. CASE Accept(fail + 1)
  <2>1. holders' = holders \cup {v} /\ kept' = kept
    BY <1>4 DEF CountAttempt
  <2>2. Cardinality(holders') = Cardinality(holders) + 1
    BY <1>1, <2>1, HoldersWith
  <2>3. CounterTypeOK'
    BY <1>3, <2>1 DEF CounterTypeOK
  <2>4. fail + debt = wrong + kept + Cardinality(holders)
    <3>1. CASE failExists
      BY <3>1 DEF CounterAccounts
    <3>2. CASE ~failExists
      BY <3>2, FS_EmptySet DEF CounterAccounts
    <3> QED BY <3>1, <3>2
  <2>5. CounterAccounts'
    BY <1>2, <1>3, <2>1, <2>2, <2>4 DEF CounterAccounts, CounterTypeOK
  <2>6. WrongCodesBounded'
    BY <1>2, <1>3, <1>4, <2>1, <2>2, <2>4, CapAssumption
       DEF WrongCodesBounded, CounterTypeOK, Accept
  <2>7. Step(v, "comparing")
    BY <1>4 DEF CountAttempt
  <2>8. HoldersUndecided'
    BY <2>1, <2>7, UndecidedStep
  <2> QED BY <2>3, <2>5, <2>6, <2>8
<1>5. CASE ~Accept(fail + 1)
  <2>1. holders' = holders /\ kept' = kept + 1
    BY <1>5 DEF CountAttempt
  <2>2. CounterTypeOK'
    BY <1>3, <2>1 DEF CounterTypeOK
  <2>3. fail + debt = wrong + kept + Cardinality(holders)
    <3>1. CASE failExists
      BY <3>1 DEF CounterAccounts
    <3>2. CASE ~failExists
      BY <3>2, FS_EmptySet DEF CounterAccounts
    <3> QED BY <3>1, <3>2
  <2>4. CounterAccounts'
    BY <1>2, <1>3, <2>1, <2>3 DEF CounterAccounts, CounterTypeOK
  <2>5. WrongCodesBounded'
    BY <1>3, <2>1 DEF WrongCodesBounded
  <2>6. Step(v, "idle")
    BY <1>5 DEF CountAttempt
  <2>7. HoldersUndecided'
    BY <1>1, <2>1, <2>6, UndecidedStep
  <2> QED BY <2>2, <2>4, <2>5, <2>7
<1> QED BY <1>4, <1>5

(* WrongCode: the undecided attempt becomes a wrong one.                   *)
LEMMA AccountWrong ==
    ASSUME AccountInv, NEW v \in Verifiers, WrongCode(v), vpc \in [Verifiers -> VPcs]
    PROVE  AccountInv'
<1> USE DEF AccountInv, CounterInv
<1>1. HoldersUndecided'
  BY UndecidedStep DEF WrongCode
<1>2. UNCHANGED <<failExists, fail, kept, debt>> /\ holders' = holders \ {v}
  BY DEF WrongCode, redisVars
<1>3. CASE v \in holders
  <2>1. wrong' = wrong + 1
    BY <1>3 DEF WrongCode
  <2>2. Cardinality(holders') = Cardinality(holders) - 1 /\ Cardinality(holders) \in Nat
    BY <1>2, <1>3, HoldersWithout, HoldersFinite
  <2>3. failExists
    BY <1>3 DEF CounterAccounts
  <2>4. CounterTypeOK'
    BY <1>2, <2>1 DEF CounterTypeOK
  <2>5. CounterAccounts'
    BY <1>2, <2>1, <2>2, <2>3 DEF CounterAccounts, CounterTypeOK
  <2>6. WrongCodesBounded'
    BY <1>2, <2>1, <2>2, CapAssumption DEF WrongCodesBounded, CounterTypeOK
  <2> QED BY <1>1, <2>4, <2>5, <2>6
<1>4. CASE v \notin holders
  <2>1. wrong' = wrong /\ holders' = holders
    BY <1>2, <1>4 DEF WrongCode
  <2> QED BY <1>1, <1>2, <2>1, AccountUnchanged DEF counterVars
<1> QED BY <1>3, <1>4

(* GiveBack: an attempt counted on this counter returns its place; any     *)
(* other return goes on the debt.                                          *)
LEMMA AccountGiveBack ==
    ASSUME AccountInv, NEW v \in Verifiers, GiveBack(v), vpc \in [Verifiers -> VPcs]
    PROVE  AccountInv'
<1> USE DEF AccountInv, CounterInv
<1>1. HoldersUndecided'
  BY UndecidedStep DEF GiveBack
<1>2. UNCHANGED <<failExists, wrong, kept>> /\ holders' = holders \ {v}
  BY DEF GiveBack, DecrementIfExists
<1>3. Cardinality(holders) \in Nat
  BY HoldersFinite
<1>4. CASE v \in holders
  <2>1. failExists
    BY <1>4 DEF CounterAccounts
  <2>2. fail' = fail - 1 /\ debt' = debt
    BY <1>4, <2>1 DEF GiveBack, DecrementIfExists
  <2>3. Cardinality(holders') = Cardinality(holders) - 1
    BY <1>2, <1>4, HoldersWithout
  <2>4. CounterTypeOK'
    BY <1>2, <2>2 DEF CounterTypeOK
  <2>5. CounterAccounts'
    BY <1>2, <1>3, <2>1, <2>2, <2>3 DEF CounterAccounts, CounterTypeOK
  <2>6. WrongCodesBounded'
    BY <1>2, <1>3, <2>2, <2>3, CapAssumption DEF WrongCodesBounded, CounterTypeOK
  <2> QED BY <1>1, <2>4, <2>5, <2>6
<1>5. CASE v \notin holders /\ failExists
  <2>1. fail' = fail - 1 /\ debt' = debt + 1 /\ holders' = holders
    BY <1>2, <1>5 DEF GiveBack, DecrementIfExists
  <2>2. CounterTypeOK'
    BY <1>2, <2>1 DEF CounterTypeOK
  <2>3. CounterAccounts'
    BY <1>2, <1>3, <1>5, <2>1 DEF CounterAccounts, CounterTypeOK
  <2>4. WrongCodesBounded'
    <3>1. Cap \in Int /\ wrong \in Int /\ debt \in Int
      BY CapAssumption DEF CounterTypeOK
    <3>2. wrong + Cardinality(holders) <= Cap + (debt + 1)
      BY <1>3, <3>1 DEF WrongCodesBounded
    <3> QED BY <1>2, <2>1, <3>2 DEF WrongCodesBounded
  <2> QED BY <1>1, <2>2, <2>3, <2>4
<1>6. CASE v \notin holders /\ ~failExists
  <2>1. fail' = fail /\ debt' = debt /\ holders' = holders
    BY <1>2, <1>6 DEF GiveBack, DecrementIfExists
  <2> QED BY <1>1, <1>2, <2>1, AccountUnchanged DEF counterVars
<1> QED BY <1>4, <1>5, <1>6

(* A new counter starts with nothing to account for.                       *)
LEMMA AccountExpires == ASSUME AccountInv, FailExpires PROVE AccountInv'
<1>1. /\ failExists' = FALSE /\ fail' = 0 /\ holders' = {}
      /\ wrong' = 0 /\ kept' = 0 /\ debt' = 0
  BY DEF FailExpires
<1>2. CounterTypeOK' /\ CounterAccounts'
  <2>1. failExists' \in BOOLEAN /\ ~failExists'
    BY <1>1
  <2>2. CounterTypeOK'
    BY <1>1, <2>1 DEF CounterTypeOK
  <2>3. CounterAccounts'
    BY <1>1, <2>1 DEF CounterAccounts
  <2> QED BY <2>2, <2>3
<1>3. WrongCodesBounded'
  BY <1>1, CapAssumption, FS_EmptySet DEF WrongCodesBounded
<1>4. HoldersUndecided'
  BY <1>1 DEF HoldersUndecided
<1> QED BY <1>2, <1>3, <1>4 DEF AccountInv, CounterInv

LEMMA AccountVerifyStep ==
    ASSUME AccountInv, vpc \in [Verifiers -> VPcs], NEW v \in Verifiers, VerifyStep(v)
    PROVE  AccountInv'
<1> USE DEF redisVars, ghostVars, counterVars
<1>1. ASSUME NEW c \in Codes, Verify(v, c) PROVE AccountInv'
  <2>1. v \notin holders
    BY <1>1 DEF Verify, AccountInv, HoldersUndecided
  <2> QED BY <1>1, <2>1, UndecidedStep, AccountUnchanged DEF Verify
<1>2. CASE ReadChallenge(v)
  <2>1. v \notin holders
    BY <1>2 DEF ReadChallenge, AccountInv, HoldersUndecided
  <2> QED BY <1>2, <2>1, UndecidedStep, AccountUnchanged DEF ReadChallenge
<1>3. CASE CountAttempt(v)
  BY <1>3, AccountCount
<1>4. CASE RightCode(v)
  BY <1>4, UndecidedStep, AccountUnchanged DEF RightCode
<1>5. CASE WrongCode(v)
  BY <1>5, AccountWrong
<1>6. CASE ReadDevices(v)
  BY <1>6, UndecidedStep, AccountUnchanged DEF ReadDevices
<1>7. CASE RemoveDevice(v)
  BY <1>7, UndecidedStep, AccountUnchanged DEF RemoveDevice
<1>8. CASE ListCodes(v)
  <2>1. v \in holders => vpc[v] = "listing"
    BY <1>8 DEF ListCodes, AccountInv, HoldersUndecided
  <2> QED BY <1>8, <2>1, UndecidedStep, AccountUnchanged DEF ListCodes
<1>9. CASE ExpireCodes(v)
  <2>1. v \in holders => vpc[v] = "expiring"
    BY <1>9 DEF ExpireCodes, AccountInv, HoldersUndecided
  <2> QED BY <1>9, <2>1, UndecidedStep, AccountUnchanged DEF ExpireCodes
<1>10. CASE GiveBack(v)
  BY <1>10, AccountGiveBack
<1>11. CASE Refuse(v)
  <2>1. v \notin holders
    BY <1>11 DEF Refuse, AccountInv, HoldersUndecided
  <2> QED BY <1>11, <2>1, UndecidedStep, AccountUnchanged DEF Refuse
<1>12. CASE ClearChallenge(v)
  <2>1. v \notin holders
    BY <1>12 DEF ClearChallenge, AccountInv, HoldersUndecided
  <2> QED BY <1>12, <2>1, UndecidedStep, AccountUnchanged DEF ClearChallenge
<1>13. CASE VerifyThrows(v)
  BY <1>13, UndecidedStep, AccountForget DEF VerifyThrows, Forget
<1>14. CASE VerifyDies(v)
  BY <1>14, UndecidedStep, AccountForget DEF VerifyDies, Forget
<1> QED BY <1>1, <1>2, <1>3, <1>4, <1>5, <1>6, <1>7, <1>8, <1>9, <1>10, <1>11, <1>12, <1>13,
           <1>14 DEF VerifyStep

LEMMA AccountNext ==
    ASSUME AccountInv, vpc \in [Verifiers -> VPcs], [Next]_vars
    PROVE  AccountInv'
<1> USE DEF redisVars, ghostVars, counterVars, verifyVars
<1>1. ASSUME UNCHANGED <<vpc, counterVars>> PROVE AccountInv'
  <2>1. HoldersUndecided'
    BY <1>1 DEF AccountInv, HoldersUndecided
  <2> QED BY <1>1, <2>1, AccountUnchanged
<1>2. CASE LoginCheck \/ LoginWrite
  BY <1>1, <1>2 DEF LoginCheck, LoginWrite
<1>3. ASSUME NEW s \in Senders, SendStep(s) PROVE AccountInv'
  BY <1>1, <1>3 DEF SendStep, Send, Cool, CountSend, ListOld, ExpireOld, InsertCode, SendFails
<1>4. ASSUME NEW v \in Verifiers, VerifyStep(v) PROVE AccountInv'
  BY <1>4, AccountVerifyStep
<1>5. CASE FailExpires
  BY <1>5, AccountExpires
<1>6. CASE ChallengeExpires \/ CooldownExpires \/ SendCountExpires
  BY <1>1, <1>6 DEF ChallengeExpires, CooldownExpires, SendCountExpires
<1>7. ASSUME NEW r \in Rows, CodeExpires(r) PROVE AccountInv'
  BY <1>1, <1>7 DEF CodeExpires
<1>8. CASE UNCHANGED vars
  BY <1>1, <1>8 DEF vars
<1> QED BY <1>2, <1>3, <1>4, <1>5, <1>6, <1>7, <1>8 DEF Next

(* The fail counter accounts for every attempt made on it                  *)
(* (incrementWithTtl, decrementIfExists of auth-limits.ts).                *)
THEOREM BindCounterAccounts == Codes # {} => (Spec => []CounterAccounts)
<1> SUFFICES ASSUME Codes # {} PROVE Spec => []CounterAccounts
  OBVIOUS
<1>1. TypeOK => vpc \in [Verifiers -> VPcs]
  BY DEF TypeOK
<1>2. AccountInv => CounterAccounts
  BY DEF AccountInv, CounterInv
<1>3. Spec => []TypeOK
  BY BindTypeCorrect
<1>4. TypeOK /\ AccountInv /\ [Next]_vars => AccountInv'
  BY <1>1, AccountNext
<1> QED BY <1>2, <1>3, <1>4, AccountInit, PTL DEF Spec

(* The cap of verifyDeviceBindCode bounds the wrong codes of a counter,    *)
(* whatever the number of concurrent requests.                             *)
THEOREM BindWrongCodesBounded == Codes # {} => (Spec => []WrongCodesBounded)
<1> SUFFICES ASSUME Codes # {} PROVE Spec => []WrongCodesBounded
  OBVIOUS
<1>1. TypeOK => vpc \in [Verifiers -> VPcs]
  BY DEF TypeOK
<1>2. AccountInv => WrongCodesBounded
  BY DEF AccountInv, CounterInv
<1>3. Spec => []TypeOK
  BY BindTypeCorrect
<1>4. TypeOK /\ AccountInv /\ [Next]_vars => AccountInv'
  BY <1>1, AccountNext
<1> QED BY <1>2, <1>3, <1>4, AccountInit, PTL DEF Spec

-----------------------------------------------------------------------------
(* When no verification outlives the counter, every undecided attempt is   *)
(* one of the counter's own.                                               *)
Undecided == {"comparing", "devices", "removing", "listing", "expiring", "givingBack"}

NoDebt == debt = 0 /\ \A v \in Verifiers : vpc[v] \in Undecided => v \in holders

LEMMA NoDebtVerifyStep ==
    ASSUME NoDebt, vpc \in [Verifiers -> VPcs], NEW v \in Verifiers, VerifyStep(v)
    PROVE  NoDebt'
<1> USE DEF NoDebt, Undecided, redisVars, ghostVars, Step
<1>1. ASSUME NEW c \in Codes, Verify(v, c) PROVE NoDebt'
  BY <1>1 DEF Verify
<1>2. CASE ReadChallenge(v)
  BY <1>2 DEF ReadChallenge
<1>3. CASE CountAttempt(v)
  BY <1>3 DEF CountAttempt
<1>4. CASE RightCode(v)
  BY <1>4 DEF RightCode
<1>5. CASE WrongCode(v)
  BY <1>5 DEF WrongCode
<1>6. CASE ReadDevices(v)
  BY <1>6 DEF ReadDevices
<1>7. CASE RemoveDevice(v)
  BY <1>7 DEF RemoveDevice
<1>8. CASE ListCodes(v)
  BY <1>8 DEF ListCodes
<1>9. CASE ExpireCodes(v)
  BY <1>9 DEF ExpireCodes
<1>10. CASE GiveBack(v)
  BY <1>10 DEF GiveBack
<1>11. CASE Refuse(v)
  BY <1>11 DEF Refuse
<1>12. CASE ClearChallenge(v)
  BY <1>12 DEF ClearChallenge
<1>13. CASE VerifyThrows(v) \/ VerifyDies(v)
  BY <1>13 DEF VerifyThrows, VerifyDies, Forget
<1> QED BY <1>1, <1>2, <1>3, <1>4, <1>5, <1>6, <1>7, <1>8, <1>9, <1>10, <1>11, <1>12, <1>13
        DEF VerifyStep

(* If no verification outlives the fail counter it was counted on, at most *)
(* Cap wrong codes are compared per counter, however requests overlap.     *)
THEOREM BindCapNotExceeded == Codes # {} /\ ~SlowVerifications => (Spec => []CapNotExceeded)
<1> SUFFICES ASSUME Codes # {}, ~SlowVerifications PROVE Spec => []CapNotExceeded
  OBVIOUS
<1>1. Init => NoDebt
  BY DEF Init, NoDebt, Undecided
<1>2. TypeOK /\ NoDebt /\ [Next]_vars => NoDebt'
  <2> SUFFICES ASSUME TypeOK, NoDebt, [Next]_vars PROVE NoDebt'
    OBVIOUS
  <2>0. vpc \in [Verifiers -> VPcs]
    BY DEF TypeOK
  <2>1. ASSUME UNCHANGED <<vpc, holders, debt>> PROVE NoDebt'
    BY <2>1 DEF NoDebt
  <2> USE DEF verifyVars, ghostVars
  <2>2. CASE LoginCheck \/ LoginWrite
    BY <2>1, <2>2 DEF LoginCheck, LoginWrite
  <2>3. ASSUME NEW s \in Senders, SendStep(s) PROVE NoDebt'
    BY <2>1, <2>3 DEF SendStep, Send, Cool, CountSend, ListOld, ExpireOld, InsertCode, SendFails
  <2>4. ASSUME NEW v \in Verifiers, VerifyStep(v) PROVE NoDebt'
    BY <2>0, <2>4, NoDebtVerifyStep
  <2>5. CASE FailExpires
    <3>1. holders = {} /\ holders' = {} /\ debt' = 0 /\ vpc' = vpc
      BY <2>5 DEF FailExpires
    <3> QED BY <3>1 DEF NoDebt
  <2>6. CASE ChallengeExpires \/ CooldownExpires \/ SendCountExpires
    BY <2>1, <2>6 DEF ChallengeExpires, CooldownExpires, SendCountExpires
  <2>7. ASSUME NEW r \in Rows, CodeExpires(r) PROVE NoDebt'
    BY <2>1, <2>7 DEF CodeExpires
  <2>8. CASE UNCHANGED vars
    BY <2>1, <2>8 DEF vars
  <2> QED BY <2>2, <2>3, <2>4, <2>5, <2>6, <2>7, <2>8 DEF Next
<1>3. TypeOK /\ WrongCodesBounded /\ NoDebt => CapNotExceeded
  <2> SUFFICES ASSUME TypeOK, WrongCodesBounded, NoDebt PROVE CapNotExceeded
    OBVIOUS
  <2>1. Cardinality(holders) \in Nat
    BY HoldersFinite DEF TypeOK, CounterTypeOK
  <2> QED BY <2>1, CapAssumption DEF TypeOK, WrongCodesBounded, NoDebt, CapNotExceeded
<1>4. Spec => []TypeOK
  BY BindTypeCorrect
<1>5. Spec => []WrongCodesBounded
  BY BindWrongCodesBounded
<1> QED BY <1>1, <1>2, <1>3, <1>4, <1>5, PTL DEF Spec

-----------------------------------------------------------------------------
(* Dead codes.  Between its cooldown and its INSERT a send is alone, so the *)
(* rows it has read are all that are alive when it expires them.            *)
Sending == {"counting", "listing", "expiring", "inserting"}

OneSends ==
    /\ \A s \in Senders : spc[s] \in Sending => cooldown
    /\ \A s, q \in Senders : spc[s] \in Sending /\ spc[q] \in Sending => s = q
    /\ \A s \in Senders : spc[s] = "expiring" => live \subseteq sids[s]
    /\ \A s \in Senders : spc[s] = "inserting" => live = {}
    /\ \A q, r \in live : q = r

(* A verification expires the rows it has listed, and rows that are added   *)
(* meanwhile are not those it has matched.                                  *)
MatchesListed ==
    \A v \in Verifiers :
        /\ matched[v] \subseteq 1..rows
        /\ vpc[v] = "expiring" => matched[v] \cap live \subseteq vids[v]
        /\ vpc[v] = "givingBack" => matched[v] \cap live = {}

(* Steps that revive no code and move no request.                           *)
LEMMA CodesLeftAlone ==
    ASSUME live' \subseteq live, UNCHANGED <<rows, spc, sids, vpc, vids, matched>>
    PROVE  /\ OneSends /\ (cooldown => cooldown') => OneSends'
           /\ MatchesListed => MatchesListed'
BY DEF OneSends, MatchesListed

LEMMA CodesSent ==
    ASSUME TypeOK, OneSends, MatchesListed, NEW s \in Senders, SendStep(s)
    PROVE  OneSends' /\ MatchesListed'
<1> USE DEF Sending, codeVars, verifyVars, removalVars, Goto
<1>0. /\ spc \in [Senders -> SPcs] /\ sids \in [Senders -> SUBSET Rows]
      /\ rows \in Nat /\ live \subseteq 1..rows
  BY BoundsAssumption DEF TypeOK
<1>1. CASE Send(s) \/ SendFails(s)
  <2>1. /\ spc'[s] \in {"cooling", "idle"}
        /\ \A q \in Senders \ {s} : spc'[q] = spc[q] /\ sids'[q] = sids[q]
        /\ UNCHANGED <<cooldown, live, rows, vpc, vids, matched>>
    BY <1>0, <1>1 DEF Send, SendFails, redisVars
  <2> QED BY <2>1 DEF OneSends, MatchesListed
<1>2. CASE Cool(s)
  <2>1. /\ cooldown' = TRUE /\ UNCHANGED <<live, rows, sids, vpc, vids, matched>>
        /\ spc' = [spc EXCEPT ![s] = IF cooldown THEN "idle" ELSE "counting"]
    BY <1>2 DEF Cool, Allow
  <2>2. \A q, r \in Senders : spc'[q] \in Sending /\ spc'[r] \in Sending => q = r
    BY <1>0, <2>1 DEF OneSends
  <2>3. \A q \in Senders : spc'[q] \in {"expiring", "inserting"} => spc[q] = spc'[q]
    BY <1>0, <2>1
  <2> QED BY <2>1, <2>2, <2>3 DEF OneSends, MatchesListed
<1>3. CASE CountSend(s)
  BY <1>0, <1>3 DEF CountSend, OneSends, MatchesListed
<1>4. CASE ListOld(s)
  BY <1>0, <1>4 DEF ListOld, redisVars, OneSends, MatchesListed
<1>5. CASE ExpireOld(s)
  <2>1. live' = {} /\ UNCHANGED <<cooldown, rows, sids, vpc, vids, matched>>
    BY <1>5 DEF ExpireOld, AfterUpdateToNow, redisVars, OneSends
  <2>2. spc[s] = "expiring" /\ spc' = [spc EXCEPT ![s] = "inserting"]
    BY <1>5 DEF ExpireOld
  <2> QED BY <1>0, <2>1, <2>2 DEF OneSends, MatchesListed
<1>6. CASE InsertCode(s)
  <2>1. live = {} /\ spc[s] = "inserting"
    BY <1>6 DEF InsertCode, OneSends
  <2>2. /\ live' = {rows + 1} /\ rows' = rows + 1
        /\ spc' = [spc EXCEPT ![s] = "idle"]
        /\ UNCHANGED <<cooldown, vpc, vids, matched>>
    BY <1>6, <2>1 DEF InsertCode, NewRow, redisVars
  <2>3. \A q \in Senders : spc'[q] \notin Sending
    BY <1>0, <2>1, <2>2 DEF OneSends
  <2>4. OneSends'
    BY <2>2, <2>3 DEF OneSends
  <2>5. \A v \in Verifiers : rows + 1 \notin matched[v]
    BY <1>0 DEF MatchesListed
  <2>6. \A v \in Verifiers : matched[v] \subseteq 1..(rows + 1)
    BY <1>0 DEF MatchesListed
  <2>7. MatchesListed'
    BY <2>2, <2>5, <2>6 DEF MatchesListed
  <2> QED BY <2>4, <2>7
<1> QED BY <1>1, <1>2, <1>3, <1>4, <1>5, <1>6 DEF SendStep

LEMMA CodesVerified ==
    ASSUME TypeOK, OneSends, MatchesListed, NEW v \in Verifiers, VerifyStep(v)
    PROVE  OneSends' /\ MatchesListed'
<1> USE DEF codeVars, sendVars, removalVars, Step
<1>0. /\ vpc \in [Verifiers -> VPcs] /\ vids \in [Verifiers -> SUBSET Rows]
      /\ matched \in [Verifiers -> SUBSET Rows] /\ live \subseteq 1..rows
  BY DEF TypeOK
<1>1. ASSUME live' \subseteq live, UNCHANGED <<rows, spc, sids, cooldown>> PROVE OneSends'
  BY <1>1 DEF OneSends
<1>2. ASSUME UNCHANGED <<live, rows, spc, sids, cooldown, vids, matched>>,
             \A u \in Verifiers \ {v} : vpc'[u] = vpc[u],
             vpc'[v] \notin {"expiring", "givingBack"}
      PROVE  OneSends' /\ MatchesListed'
  BY <1>1, <1>2 DEF MatchesListed
<1>3. ASSUME NEW c \in Codes, Verify(v, c) PROVE OneSends' /\ MatchesListed'
  BY <1>0, <1>2, <1>3 DEF Verify, redisVars
<1>4. CASE ReadChallenge(v)
  BY <1>0, <1>2, <1>4 DEF ReadChallenge, redisVars
<1>5. CASE CountAttempt(v)
  <2>1. UNCHANGED <<live, rows, spc, sids, cooldown, vids, matched>>
    BY <1>5 DEF CountAttempt
  <2>2. /\ \A u \in Verifiers \ {v} : vpc'[u] = vpc[u]
        /\ vpc'[v] \notin {"expiring", "givingBack"}
    BY <1>0, <1>5 DEF CountAttempt
  <2> QED BY <1>2, <2>1, <2>2
<1>6. CASE RightCode(v)
  <2>1. matched' = [matched EXCEPT ![v] = {r \in live : codeOf[r] = guess[v]}]
    BY <1>6 DEF RightCode
  <2>2. /\ UNCHANGED <<live, rows, spc, sids, cooldown, vids>>
        /\ vpc' = [vpc EXCEPT ![v] = "devices"]
    BY <1>6 DEF RightCode, redisVars
  <2>3. {r \in live : codeOf[r] = guess[v]} \subseteq 1..rows
    BY <1>0
  <2> QED BY <1>0, <1>1, <2>1, <2>2, <2>3 DEF MatchesListed
<1>7. CASE WrongCode(v)
  BY <1>0, <1>2, <1>7 DEF WrongCode, redisVars
<1>8. CASE ReadDevices(v)
  BY <1>0, <1>2, <1>8 DEF ReadDevices, redisVars
<1>9. CASE RemoveDevice(v)
  BY <1>0, <1>2, <1>9 DEF RemoveDevice, redisVars
<1>10. CASE ListCodes(v)
  <2>1. /\ UNCHANGED <<live, rows, spc, sids, cooldown, matched>>
        /\ vids' = [vids EXCEPT ![v] = live]
        /\ \A u \in Verifiers \ {v} : vpc'[u] = vpc[u]
        /\ vpc'[v] # "givingBack"
    BY <1>0, <1>10 DEF ListCodes, redisVars
  <2> QED BY <1>0, <1>1, <2>1 DEF MatchesListed
<1>11. CASE ExpireCodes(v)
  <2>1. /\ live' = AfterUpdateToNow(vids[v]) /\ UNCHANGED <<rows, spc, sids, cooldown, matched>>
        /\ \A u \in Verifiers \ {v} : vpc'[u] = vpc[u] /\ vids'[u] = vids[u]
        /\ vpc[v] = "expiring" \/ vpc'[v] = "idle"
        /\ vpc'[v] # "expiring"
    BY <1>0, <1>11 DEF ExpireCodes, redisVars
  <2>2. live' \subseteq live \ vids[v]
    BY <2>1 DEF AfterUpdateToNow
  <2>3. vpc'[v] = "givingBack" => matched[v] \cap live' = {}
    BY <2>1, <2>2 DEF MatchesListed
  <2> QED BY <1>1, <2>1, <2>2, <2>3 DEF MatchesListed
<1>12. CASE GiveBack(v)
  <2>1. /\ UNCHANGED <<live, rows, spc, sids, cooldown, vids>>
        /\ matched' = [matched EXCEPT ![v] = {}] /\ vpc' = [vpc EXCEPT ![v] = "clearing"]
    BY <1>12 DEF GiveBack
  <2> QED BY <1>0, <1>1, <2>1 DEF MatchesListed
<1>13. CASE Refuse(v)
  BY <1>0, <1>2, <1>13 DEF Refuse, redisVars
<1>14. CASE ClearChallenge(v)
  BY <1>0, <1>2, <1>14 DEF ClearChallenge
<1>15. CASE VerifyThrows(v) \/ VerifyDies(v)
  <2>1. /\ UNCHANGED <<live, rows, spc, sids, cooldown>>
        /\ matched' = [matched EXCEPT ![v] = {}] /\ vids' = [vids EXCEPT ![v] = {}]
        /\ \A u \in Verifiers \ {v} : vpc'[u] = vpc[u]
        /\ vpc'[v] \notin {"expiring", "givingBack"}
    BY <1>0, <1>15 DEF VerifyThrows, VerifyDies, Forget, redisVars
  <2> QED BY <1>0, <1>1, <2>1 DEF MatchesListed
<1> QED BY <1>3, <1>4, <1>5, <1>6, <1>7, <1>8, <1>9, <1>10, <1>11, <1>12, <1>13, <1>14, <1>15
        DEF VerifyStep

(* If no send outlives its cooldown, one code is alive at a time; and the  *)
(* codes a verification has accepted are dead before it answers, however   *)
(* sends and verifications overlap, throw or die.                          *)
THEOREM BindCodesDie == Codes # {} /\ ~SlowSends => (Spec => []CodesDie)
<1> SUFFICES ASSUME Codes # {}, ~SlowSends PROVE Spec => []CodesDie
  OBVIOUS
<1>1. Init => OneSends /\ MatchesListed
  BY DEF Init, OneSends, MatchesListed, Sending
<1>2. TypeOK /\ OneSends /\ MatchesListed /\ [Next]_vars => OneSends' /\ MatchesListed'
  <2> SUFFICES ASSUME TypeOK, OneSends, MatchesListed, [Next]_vars
               PROVE  OneSends' /\ MatchesListed'
    OBVIOUS
  <2> USE DEF codeVars, sendVars, verifyVars, removalVars
  <2>1. CASE LoginCheck \/ LoginWrite
    BY <2>1, CodesLeftAlone DEF LoginCheck, LoginWrite, redisVars
  <2>2. ASSUME NEW s \in Senders, SendStep(s) PROVE OneSends' /\ MatchesListed'
    BY <2>2, CodesSent
  <2>3. ASSUME NEW v \in Verifiers, VerifyStep(v) PROVE OneSends' /\ MatchesListed'
    BY <2>3, CodesVerified
  <2>4. CASE ChallengeExpires \/ FailExpires \/ SendCountExpires
    BY <2>4, CodesLeftAlone DEF ChallengeExpires, FailExpires, SendCountExpires
  <2>5. CASE CooldownExpires
    <3>1. /\ \A s \in Senders : spc[s] \notin Sending
          /\ UNCHANGED <<live, rows, spc, sids, vpc, vids, matched>>
      BY <2>5 DEF CooldownExpires, Sending
    <3>2. OneSends'
      BY <3>1 DEF OneSends, Sending
    <3> QED BY <3>1, <3>2, CodesLeftAlone
  <2>6. ASSUME NEW r \in Rows, CodeExpires(r) PROVE OneSends' /\ MatchesListed'
    <3>1. /\ live' \subseteq live
          /\ UNCHANGED <<rows, spc, sids, vpc, vids, matched, cooldown>>
      BY <2>6 DEF CodeExpires, redisVars
    <3> QED BY <3>1, CodesLeftAlone
  <2>7. CASE UNCHANGED vars
    BY <2>7, CodesLeftAlone DEF vars, redisVars
  <2> QED BY <2>1, <2>2, <2>3, <2>4, <2>5, <2>6, <2>7 DEF Next
<1>3. OneSends /\ MatchesListed => CodesDie
  <2> SUFFICES ASSUME OneSends, MatchesListed PROVE OneLiveCode /\ AcceptedCodeDies
    BY DEF CodesDie
  <2>1. CASE live = {}
    BY <2>1, FS_EmptySet DEF OneLiveCode, MatchesListed, AcceptedCodeDies
  <2>2. CASE live # {}
    <3>1. PICK r \in live : TRUE
      BY <2>2
    <3>2. live = {r}
      BY <3>1 DEF OneSends
    <3>3. Cardinality({r}) = 1
      BY FS_Singleton
    <3> QED BY <3>2, <3>3 DEF OneLiveCode, MatchesListed, AcceptedCodeDies
  <2> QED BY <2>1, <2>2
<1>4. Spec => []TypeOK
  BY BindTypeCorrect
<1> QED BY <1>1, <1>2, <1>3, <1>4, PTL DEF Spec

-----------------------------------------------------------------------------
HaveToken == {"adding", "renewing", "copying", "mailing"}
Indexed == {"renewing", "copying", "mailing"}

(* A request that has its token has a random one of its own, unmailed.     *)
OwnTokens ==
  /\ \A r \in Requests : step[r] \in HaveToken => token[r] \in Tokens
  /\ \A r \in Requests : token[r] \notin mailed
  /\ \A q, r \in Requests : token[q] = token[r] /\ token[r] # NoToken => q = r

(* After SADD a token that works is in the index or was dropped from it,   *)
(* and after EXPIRE the index outlives it.                                 *)
IndexHolds ==
  /\ \A r \in Requests : step[r] \in Indexed /\ token[r] \in tokens =>
                           token[r] \in index \cup dropped
  /\ \A r \in Requests : step[r] \in {"copying", "mailing"} /\ token[r] \in index \cap tokens =>
                           token[r] \in renewed \cup dropped
  /\ mailed \cap index \subseteq renewed \cup dropped

LinkInv == PasswordTypeOK /\ OwnTokens /\ IndexHolds /\ LinksRevocable

(* Every step of a login keeps the types.                                  *)
LEMMA TypesKept == ASSUME PasswordTypeOK, OwnTokens, PasswordNext PROVE PasswordTypeOK'
<1> USE AccountsAssumption, LoginsAssumption, CapsAssumption DEF PasswordTypeOK, Steps, tokenVars, requestVars, bounds,
        tokenHistory, Move, Uncounted, Close, Leave
<1>1. ASSUME NEW r \in Requests, RequestStep(r) PROVE PasswordTypeOK'
  <2>1. CASE \E t \in Typed, i \in Ips : Register(r, t, i)
    <3>1. PICK t \in Typed, i \in Ips : Register(r, t, i)
      BY <2>1
    <3>2. AccountOf[t] \in Accounts /\ KeysOf(AccountOf[t], i) \subseteq Counters
      BY DEF KeysOf, Counters
    <3>3. tried' \in [Counters -> Nat] /\ left' \in Nat
      BY <3>1 DEF Register
    <3>4. CASE requestVars' = requestVars
      BY <3>1, <3>3, <3>4 DEF Register
    <3>5. CASE step' = [step EXCEPT ![r] = "finding"] /\ ip' = [ip EXCEPT ![r] = i]
      BY <3>1, <3>2, <3>3, <3>5 DEF Register
    <3> QED BY <3>1, <3>4, <3>5 DEF Register
  <2>2. CASE FindMember(r)
    BY <2>2 DEF FindMember
  <2>3. CASE FindNobody(r)
    BY <2>3 DEF FindNobody
  <2>4. CASE MatchTemporary(r)
    BY <2>4 DEF MatchTemporary, Compared
  <2>5. CASE MatchNothing(r)
    BY <2>5 DEF MatchNothing, Compared
  <2>6. CASE RightPassword(r)
    BY <2>6 DEF RightPassword, Compared
  <2>7. CASE WrongPassword(r)
    BY <2>7 DEF WrongPassword, Compared
  <2>8. CASE ClearAttempts(r)
    BY <2>8 DEF ClearAttempts
  <2>9. CASE PasswordFails(r)
    BY <2>9 DEF PasswordFails
  <2>10. CASE Acquire(r)
    <3>1. CASE Leave(r)
      BY <2>10, <3>1 DEF Acquire
    <3>2. CASE Move(r, "counting") /\ UNCHANGED <<typed, ip, seen, token, holds>>
      BY <2>10, <3>2 DEF Acquire
    <3> QED BY ONLY <2>10, <3>1, <3>2 DEF Acquire
  <2>11. CASE CountIssue(r)
    <3>0. issued' \in Nat
      BY <2>11 DEF CountIssue
    <3>1. CASE Leave(r)
      BY <2>11, <3>0, <3>1 DEF CountIssue
    <3>2. CASE Move(r, "setting") /\ UNCHANGED <<typed, ip, seen, token, holds>>
      BY <2>11, <3>0, <3>2 DEF CountIssue
    <3> QED BY ONLY <2>11, <3>1, <3>2 DEF CountIssue
  <2>12. CASE \E t \in Tokens : SetToken(r, t)
    BY <2>12 DEF SetToken
  <2>13. CASE AddToIndex(r)
    BY <2>13 DEF AddToIndex, OwnTokens, HaveToken
  <2>14. CASE RenewIndex(r)
    BY <2>14 DEF RenewIndex, Renew
  <2>15. CASE CopyToken(r)
    BY <2>15 DEF CopyToken, OwnTokens, HaveToken
  <2>16. CASE MailLink(r)
    BY <2>16 DEF MailLink
  <2> QED BY <1>1, <2>1, <2>2, <2>3, <2>4, <2>5, <2>6, <2>7, <2>8, <2>9, <2>10, <2>11,
             <2>12, <2>13, <2>14, <2>15, <2>16 DEF RequestStep
<1>2. CASE GiveTemporary
  BY <1>2 DEF GiveTemporary
<1>3. CASE TemporaryExpires
  BY <1>3 DEF TemporaryExpires
<1>4. CASE IssueKeysExpire
  <2>1. \/ cooling' = FALSE /\ issued' = issued
        \/ issued' = 0 /\ cooling' = cooling
    BY ONLY <1>4 DEF IssueKeysExpire
  <2>2. cooling' \in BOOLEAN
    BY ONLY <2>1, cooling \in BOOLEAN
  <2>3. issued' \in Nat
    BY ONLY <2>1, issued \in Nat
  <2> QED BY <1>4, <2>2, <2>3 DEF IssueKeysExpire
<1>5. CASE IndexExpires
  BY <1>5 DEF IndexExpires
<1>6. CASE LegacyExpires
  BY <1>6 DEF LegacyExpires
<1>7. ASSUME NEW t \in Tokens, ResetPassword(t) PROVE PasswordTypeOK'
  BY <1>7 DEF ResetPassword, End
<1>8. ASSUME NEW t \in Tokens, TokenExpires(t) PROVE PasswordTypeOK'
  BY <1>8 DEF TokenExpires, End
<1>9. ASSUME NEW k \in Counters, CounterExpires(k) PROVE PasswordTypeOK'
  BY <1>9 DEF CounterExpires
<1> QED BY <1>1, <1>2, <1>3, <1>4, <1>5, <1>6, <1>7, <1>8, <1>9 DEF PasswordNext

(* What the steps outside of issueResetPasswordAppToken leave alone.       *)
LEMMA LinksKept ==
  ASSUME LinkInv, UNCHANGED <<tokens, index, mailed, renewed, dropped>>,
         NEW r \in Requests, NEW place \in Steps \ HaveToken,
         step' = [step EXCEPT ![r] = place],
         token' = token \/ token' = [token EXCEPT ![r] = NoToken]
  PROVE  OwnTokens' /\ IndexHolds' /\ LinksRevocable'
<1> USE LoginsAssumption DEF LinkInv, OwnTokens, PasswordTypeOK, HaveToken, Indexed
<1>1. \A q \in Requests : step'[q] \in HaveToken => step'[q] = step[q] /\ q # r
  OBVIOUS
<1>2. \A q \in Requests : token'[q] = token[q] \/ token'[q] = NoToken
  OBVIOUS
<1>3. \A q \in Requests : q # r => token'[q] = token[q]
  OBVIOUS
<1>4. OwnTokens'
  <2>1. \A q \in Requests : step'[q] \in HaveToken => token'[q] \in Tokens
    BY <1>1, <1>3
  <2>2. \A q \in Requests : token'[q] \notin mailed'
    BY <1>2
  <2>3. \A p, q \in Requests : token'[p] = token'[q] /\ token'[q] # NoToken => p = q
    BY <1>2
  <2> QED BY <2>1, <2>2, <2>3
<1>5. IndexHolds'
  BY <1>1, <1>3 DEF IndexHolds
<1> QED BY <1>4, <1>5 DEF LinksRevocable

(* Every step of a login keeps what is said of the links.                  *)
LEMMA LinksStep == ASSUME LinkInv, PasswordNext
                   PROVE  OwnTokens' /\ IndexHolds' /\ LinksRevocable'
<1> USE LoginsAssumption DEF LinkInv, tokenVars, requestVars, tokenHistory, Move, Close, Leave
<1>0. PasswordTypeOK'
  BY TypesKept
<1>1. ASSUME NEW r \in Requests, RequestStep(r)
      PROVE  OwnTokens' /\ IndexHolds' /\ LinksRevocable'
  <2>1. ASSUME NEW place \in Steps \ HaveToken,
               step' = [step EXCEPT ![r] = place],
               token' = token \/ token' = [token EXCEPT ![r] = NoToken],
               UNCHANGED <<tokens, index, mailed, renewed, dropped>>
        PROVE  OwnTokens' /\ IndexHolds' /\ LinksRevocable'
    BY <2>1, LinksKept
  <2>2. /\ {"idle", "finding", "matching", "comparing", "clearing", "cooling", "counting",
            "setting"} \subseteq Steps \ HaveToken
    BY DEF Steps, HaveToken
  <2>3. CASE \E t \in Typed, i \in Ips : Register(r, t, i)
    <3>1. CASE requestVars' = requestVars
      BY <2>3, <3>1 DEF Register, OwnTokens, IndexHolds, LinksRevocable
    <3>2. CASE Move(r, "finding") /\ UNCHANGED token
      BY <2>1, <2>2, <2>3, <3>2 DEF Register
    <3> QED BY <2>3, <3>1, <3>2 DEF Register
  <2>4. CASE FindMember(r)
    BY <2>1, <2>2, <2>4 DEF FindMember
  <2>5. CASE FindNobody(r)
    BY <2>1, <2>2, <2>5 DEF FindNobody
  <2>6. CASE MatchTemporary(r)
    BY <2>1, <2>2, <2>6 DEF MatchTemporary
  <2>7. CASE MatchNothing(r)
    BY <2>1, <2>2, <2>7 DEF MatchNothing
  <2>8. CASE RightPassword(r)
    BY <2>1, <2>2, <2>8 DEF RightPassword
  <2>9. CASE WrongPassword(r)
    BY <2>1, <2>2, <2>9 DEF WrongPassword
  <2>10. CASE ClearAttempts(r)
    BY <2>1, <2>2, <2>10 DEF ClearAttempts
  <2>11. CASE PasswordFails(r)
    BY <2>1, <2>2, <2>11 DEF PasswordFails
  <2>12. CASE Acquire(r)
    <3>1. CASE Leave(r)
      BY <2>1, <2>2, <2>12, <3>1 DEF Acquire
    <3>2. CASE Move(r, "counting") /\ UNCHANGED token
      BY <2>1, <2>2, <2>12, <3>2 DEF Acquire
    <3> QED BY ONLY <2>12, <3>1, <3>2 DEF Acquire
  <2>13. CASE CountIssue(r)
    BY <2>1, <2>2, <2>13 DEF CountIssue
  <2>14. ASSUME NEW t \in Tokens, SetToken(r, t)
         PROVE  OwnTokens' /\ IndexHolds' /\ LinksRevocable'
    <3>1. /\ t \notin index /\ t \notin mailed /\ t # NoToken
          /\ \A q \in Requests : token[q] # t
      BY <2>14 DEF SetToken, Fresh, PasswordTypeOK
    <3>2. /\ token' = [token EXCEPT ![r] = t] /\ step' = [step EXCEPT ![r] = "adding"]
          /\ tokens' = tokens \cup {t} /\ UNCHANGED <<index, mailed, renewed, dropped>>
      BY <2>14 DEF SetToken
    <3>3. OwnTokens'
      BY <3>1, <3>2 DEF OwnTokens, HaveToken, PasswordTypeOK
    <3>4. \A q \in Requests : step'[q] \in Indexed => q # r /\ step'[q] = step[q] /\ token'[q] = token[q]
      BY <3>2 DEF Indexed, PasswordTypeOK
    <3>5. IndexHolds'
      BY <3>1, <3>2, <3>4 DEF IndexHolds, Indexed
    <3> QED BY <3>2, <3>3, <3>5 DEF LinksRevocable
  <2>15. CASE AddToIndex(r)
    <3>1. /\ token[r] \in Tokens /\ token[r] \notin mailed
          /\ \A q \in Requests : q # r => token[q] # token[r]
      BY <2>15 DEF AddToIndex, OwnTokens, HaveToken
    <3>2. /\ index' = index \cup {token[r]} /\ step' = [step EXCEPT ![r] = "renewing"]
          /\ UNCHANGED <<tokens, token, mailed, renewed, dropped>>
      BY <2>15 DEF AddToIndex
    <3>3. OwnTokens'
      BY <3>1, <3>2 DEF OwnTokens, HaveToken, PasswordTypeOK
    <3>4. \A q \in Requests : q # r => step'[q] = step[q]
      BY <3>2 DEF PasswordTypeOK
    <3>5. step'[r] = "renewing"
      BY <3>2 DEF PasswordTypeOK
    <3>6. IndexHolds'
      BY <3>1, <3>2, <3>4, <3>5 DEF IndexHolds, Indexed
    <3> QED BY <3>2, <3>3, <3>6 DEF LinksRevocable
  <2>16. CASE RenewIndex(r)
    <3>1. /\ renewed' = index \cap tokens /\ step' = [step EXCEPT ![r] = "copying"]
          /\ step[r] = "renewing"
          /\ UNCHANGED <<tokens, index, token, mailed, dropped>>
      BY <2>16 DEF RenewIndex, Renew
    <3>2. \A q \in Requests : step'[q] \in Indexed => step[q] \in Indexed
      BY <3>1 DEF Indexed, PasswordTypeOK
    <3>3. OwnTokens'
      BY <3>1 DEF OwnTokens, HaveToken, PasswordTypeOK
    <3>4. IndexHolds'
      BY <3>1, <3>2 DEF IndexHolds, PasswordTypeOK
    <3> QED BY <3>1, <3>3, <3>4 DEF LinksRevocable
  <2>17. CASE CopyToken(r)
    <3>1. /\ step' = [step EXCEPT ![r] = "mailing"] /\ step[r] = "copying"
          /\ UNCHANGED <<tokens, index, token, mailed, renewed, dropped>>
      BY <2>17 DEF CopyToken
    <3>2. /\ \A q \in Requests : step'[q] \in Indexed => step[q] \in Indexed
          /\ \A q \in Requests : step'[q] \in {"copying", "mailing"} =>
                                   step[q] \in {"copying", "mailing"}
      BY <3>1 DEF Indexed, PasswordTypeOK
    <3>3. OwnTokens'
      BY <3>1 DEF OwnTokens, HaveToken, PasswordTypeOK
    <3>4. IndexHolds'
      BY <3>1, <3>2 DEF IndexHolds
    <3> QED BY <3>1, <3>3, <3>4 DEF LinksRevocable
  <2>18. CASE MailLink(r)
    <3>1. /\ step[r] = "mailing" /\ mailed' = mailed \cup ({token[r]} \cap tokens)
          /\ step' = [step EXCEPT ![r] = "idle"] /\ token' = [token EXCEPT ![r] = NoToken]
          /\ UNCHANGED <<tokens, index, renewed, dropped>>
      BY <2>18 DEF MailLink
    <3>2. /\ token[r] \in Tokens
          /\ \A q \in Requests : q # r => token[q] # token[r]
      BY <3>1 DEF OwnTokens, HaveToken
    <3>3. \A q \in Requests : q # r => step'[q] = step[q] /\ token'[q] = token[q]
      BY <3>1 DEF PasswordTypeOK
    <3>4. step'[r] = "idle" /\ token'[r] = NoToken
      BY <3>1 DEF PasswordTypeOK
    <3>5. OwnTokens'
      BY <3>1, <3>2, <3>3, <3>4 DEF OwnTokens, HaveToken, PasswordTypeOK
    <3>6. /\ token[r] \in tokens => token[r] \in index \cup dropped
          /\ token[r] \in index \cap tokens => token[r] \in renewed \cup dropped
      BY <3>1 DEF IndexHolds, Indexed
    <3>7. IndexHolds'
      BY <3>1, <3>3, <3>4, <3>6 DEF IndexHolds, Indexed
    <3> QED BY <3>1, <3>5, <3>6, <3>7 DEF LinksRevocable
  <2> QED BY <1>1, <2>3, <2>4, <2>5, <2>6, <2>7, <2>8, <2>9, <2>10, <2>11, <2>12, <2>13,
             <2>14, <2>15, <2>16, <2>17, <2>18 DEF RequestStep
<1>2. CASE GiveTemporary \/ TemporaryExpires \/ IssueKeysExpire \/ LegacyExpires
  BY <1>2 DEF GiveTemporary, TemporaryExpires, IssueKeysExpire, LegacyExpires, OwnTokens,
              IndexHolds, LinksRevocable
<1>3. ASSUME NEW k \in Counters, CounterExpires(k)
      PROVE  OwnTokens' /\ IndexHolds' /\ LinksRevocable'
  BY <1>3 DEF CounterExpires, OwnTokens, IndexHolds, LinksRevocable
<1>4. CASE IndexExpires
  <2>1. /\ index \cap renewed = {} /\ index' = {}
        /\ dropped' = dropped \cup {t \in tokens : \E r \in Requests :
                                      step[r] = "renewing" /\ token[r] = t}
        /\ UNCHANGED <<tokens, step, token, mailed, renewed>>
    BY <1>4 DEF IndexExpires
  <2>2. OwnTokens'
    BY <2>1 DEF OwnTokens
  <2>3. IndexHolds'
    BY <2>1 DEF IndexHolds, Indexed
  <2> QED BY <2>1, <2>2, <2>3 DEF LinksRevocable, IndexHolds
<1>5. ASSUME NEW t \in Tokens, ResetPassword(t)
      PROVE  OwnTokens' /\ IndexHolds' /\ LinksRevocable'
  <2>1. /\ index' = {} /\ tokens' = tokens \ (index \cup {t}) /\ mailed' = mailed \ (index \cup {t})
        /\ dropped' = dropped \ (index \cup {t}) /\ UNCHANGED <<step, token>>
    BY <1>5 DEF ResetPassword, End
  <2>2. OwnTokens'
    BY <2>1 DEF OwnTokens
  <2>3. IndexHolds'
    BY <2>1 DEF IndexHolds
  <2> QED BY <2>1, <2>2, <2>3 DEF LinksRevocable
<1>6. ASSUME NEW t \in Tokens, TokenExpires(t)
      PROVE  OwnTokens' /\ IndexHolds' /\ LinksRevocable'
  <2>1. /\ tokens' = tokens \ {t} /\ mailed' = mailed \ {t} /\ renewed' = renewed \ {t}
        /\ dropped' = dropped \ {t} /\ UNCHANGED <<index, step, token>>
    BY <1>6 DEF TokenExpires, End
  <2>2. OwnTokens'
    BY <2>1 DEF OwnTokens
  <2>3. IndexHolds'
    BY <2>1 DEF IndexHolds
  <2> QED BY <2>1, <2>2, <2>3 DEF LinksRevocable
<1> QED BY <1>1, <1>2, <1>3, <1>4, <1>5, <1>6 DEF PasswordNext

(* Only a request that may still compare a password is counted as waiting. *)
WaitingAreOpen ==
  \A r \in Requests : holds[r] # {} => step[r] \in {"finding", "matching", "comparing"}

(* A living counter has counted all that compared or wait.                 *)
CounterCounts == \A k \in Counters : compared[k] + Cardinality(Waiting(k)) <= tried[k]

AttemptInv == PasswordTypeOK /\ WaitingAreOpen /\ CounterCounts /\ AttemptsBounded

(* The requests that wait on a counter can be counted.                     *)
LEMMA WaitingFinite ==
  ASSUME NEW k \in Counters
  PROVE  IsFiniteSet(Waiting(k)) /\ Cardinality(Waiting(k)) \in Nat
<1>1. Waiting(k) \subseteq Requests
  BY DEF Waiting
<1> QED BY <1>1, LoginsAssumption, FS_Subset, FS_CardinalityType

(* A request that holds no counter any more.                               *)
LEMMA WaitingWithout ==
  ASSUME PasswordTypeOK, NEW r \in Requests, holds' = [holds EXCEPT ![r] = {}], NEW k \in Counters
  PROVE  /\ Cardinality(Waiting(k)') \in Nat
         /\ Cardinality(Waiting(k)') <= Cardinality(Waiting(k))
         /\ k \in holds[r] => Cardinality(Waiting(k)') = Cardinality(Waiting(k)) - 1
<1>1. Waiting(k)' = Waiting(k) \ {r}
  BY DEF Waiting, PasswordTypeOK
<1>2. IsFiniteSet(Waiting(k)) /\ Cardinality(Waiting(k)) \in Nat
  BY WaitingFinite
<1>3. CASE r \in Waiting(k)
  <2>1. Cardinality(Waiting(k) \ {r}) = Cardinality(Waiting(k)) - 1
    BY <1>2, <1>3, FS_RemoveElement
  <2>2. Cardinality(Waiting(k) \ {r}) \in Nat
    BY <1>2, FS_RemoveElement, FS_CardinalityType
  <2> QED BY <1>1, <1>2, <2>1, <2>2
<1>4. CASE r \notin Waiting(k)
  <2>1. Waiting(k)' = Waiting(k)
    BY <1>1, <1>4
  <2>2. k \notin holds[r]
    BY <1>4 DEF Waiting
  <2> QED BY <1>2, <2>1, <2>2
<1> QED BY <1>3, <1>4

(* A request that lets go of its counters, having compared or not.         *)
LEMMA LettingGo ==
  ASSUME AttemptInv, NEW r \in Requests, holds' = [holds EXCEPT ![r] = {}],
         UNCHANGED tried, compared' = compared \/ Compared(r)
  PROVE  CounterCounts' /\ AttemptsBounded'
<1>1. ASSUME NEW k \in Counters
      PROVE  /\ compared'[k] \in Nat /\ compared[k] \in Nat /\ tried[k] \in Nat /\ CapOf(k) \in Nat
             /\ Cardinality(Waiting(k)') \in Nat /\ Cardinality(Waiting(k)) \in Nat
             /\ compared'[k] + Cardinality(Waiting(k)') <= compared[k] + Cardinality(Waiting(k))
  <2>1. /\ Cardinality(Waiting(k)') \in Nat /\ Cardinality(Waiting(k)) \in Nat
        /\ Cardinality(Waiting(k)') <= Cardinality(Waiting(k))
        /\ k \in holds[r] => Cardinality(Waiting(k)') = Cardinality(Waiting(k)) - 1
    BY WaitingWithout, WaitingFinite DEF AttemptInv
  <2>2. compared[k] \in Nat /\ tried[k] \in Nat /\ CapOf(k) \in Nat
    BY CapsAssumption DEF AttemptInv, PasswordTypeOK, CapOf
  <2>3. CASE compared' = compared
    BY <2>1, <2>2, <2>3
  <2>4. CASE Compared(r)
    <3>1. compared'[k] = IF k \in holds[r] THEN compared[k] + 1 ELSE compared[k]
      BY <2>4 DEF Compared
    <3> QED BY <2>1, <2>2, <3>1
  <2> QED BY <2>3, <2>4
<1>2. \A k \in Counters : /\ compared[k] + Cardinality(Waiting(k)) <= tried[k]
                          /\ compared[k] + Cardinality(Waiting(k)) <= CapOf(k)
  BY DEF AttemptInv, CounterCounts, AttemptsBounded
<1>3. \A k \in Counters : /\ compared'[k] + Cardinality(Waiting(k)') <= tried[k]
                          /\ compared'[k] + Cardinality(Waiting(k)') <= CapOf(k)
  BY <1>1, <1>2
<1> QED BY <1>3 DEF CounterCounts, AttemptsBounded, CapOf

(* Counters that are gone, with what is said of them.                      *)
LEMMA CountersGone ==
  ASSUME AttemptInv, NEW gone \in SUBSET Counters,
         tried' = [k \in Counters |-> IF k \in gone THEN 0 ELSE tried[k]],
         compared' = [k \in Counters |-> IF k \in gone THEN 0 ELSE compared[k]],
         holds' = [r \in Requests |-> holds[r] \ gone]
  PROVE  CounterCounts' /\ AttemptsBounded'
<1>1. ASSUME NEW k \in Counters
      PROVE  /\ compared'[k] + Cardinality(Waiting(k)') <= tried'[k]
             /\ compared'[k] + Cardinality(Waiting(k)') <= CapOf(k)
  <2>1. CASE k \in gone
    <3>1. Waiting(k)' = {}
      BY <2>1 DEF Waiting
    <3> QED BY <2>1, <3>1, FS_EmptySet, CapsAssumption DEF CapOf
  <2>2. CASE k \notin gone
    <3>1. Waiting(k)' = Waiting(k)
      BY <2>2 DEF Waiting
    <3> QED BY <2>2, <3>1 DEF AttemptInv, CounterCounts, AttemptsBounded
  <2> QED BY <2>1, <2>2
<1> QED BY <1>1 DEF CounterCounts, AttemptsBounded, CapOf

(* An attempt that is counted, and admitted when no counter is over its cap. *)
LEMMA AttemptCounted ==
  ASSUME AttemptInv, NEW r \in Requests, NEW keys \in SUBSET Counters, step[r] = "idle",
         UNCHANGED compared,
         tried' = [k \in Counters |-> IF k \in keys THEN tried[k] + 1 ELSE tried[k]],
         \/ UNCHANGED holds
         \/ /\ holds' = [holds EXCEPT ![r] = keys]
            /\ \A k \in keys : tried'[k] <= CapOf(k)
  PROVE  CounterCounts' /\ AttemptsBounded'
<1>0. holds[r] = {}
  BY DEF AttemptInv, WaitingAreOpen
<1>1. ASSUME NEW k \in Counters
      PROVE  /\ compared'[k] + Cardinality(Waiting(k)') <= tried'[k]
             /\ compared'[k] + Cardinality(Waiting(k)') <= CapOf(k)
  <2>1. /\ compared[k] + Cardinality(Waiting(k)) <= tried[k]
        /\ compared[k] + Cardinality(Waiting(k)) <= CapOf(k)
        /\ compared[k] \in Nat /\ tried[k] \in Nat
    BY DEF AttemptInv, CounterCounts, AttemptsBounded, PasswordTypeOK
  <2>2. /\ IsFiniteSet(Waiting(k)) /\ Cardinality(Waiting(k)) \in Nat
    BY WaitingFinite
  <2>3. tried'[k] \in Nat /\ tried'[k] >= tried[k] /\ compared'[k] = compared[k]
    BY <2>1
  <2>4. CASE Waiting(k)' = Waiting(k)
    BY <2>1, <2>2, <2>3, <2>4
  <2>5. CASE k \in keys /\ holds' = [holds EXCEPT ![r] = keys] /\ tried'[k] <= CapOf(k)
    <3>1. Waiting(k)' = Waiting(k) \cup {r} /\ r \notin Waiting(k)
      BY <1>0, <2>5 DEF Waiting, AttemptInv, PasswordTypeOK
    <3>2. Cardinality(Waiting(k)') = Cardinality(Waiting(k)) + 1
      BY <2>2, <3>1, FS_AddElement
    <3>3. tried'[k] = tried[k] + 1
      BY <2>5
    <3>4. CapOf(k) \in Nat
      BY CapsAssumption DEF CapOf
    <3> QED BY <2>1, <2>2, <2>3, <2>5, <3>2, <3>3, <3>4
  <2>6. UNCHANGED holds => Waiting(k)' = Waiting(k)
    BY DEF Waiting
  <2>7. k \notin keys /\ holds' = [holds EXCEPT ![r] = keys] => Waiting(k)' = Waiting(k)
    BY <1>0 DEF Waiting, AttemptInv, PasswordTypeOK
  <2> QED BY <2>4, <2>5, <2>6, <2>7
<1> QED BY <1>1 DEF CounterCounts, AttemptsBounded, CapOf

(* Every step of a login keeps the counters' accounts.                     *)
LEMMA AttemptsStep == ASSUME AttemptInv, PasswordNext
                      PROVE  WaitingAreOpen' /\ CounterCounts' /\ AttemptsBounded'
<1> USE DEF AttemptInv, tokenVars, requestVars, Move, Uncounted, Close, Leave
<1>0. ASSUME UNCHANGED <<tried, compared, holds>>
      PROVE  CounterCounts' /\ AttemptsBounded'
  BY <1>0 DEF CounterCounts, AttemptsBounded, CapOf, Waiting
<1>1. ASSUME NEW r \in Requests, RequestStep(r)
      PROVE  WaitingAreOpen' /\ CounterCounts' /\ AttemptsBounded'
  <2>0. ASSUME NEW place \in Steps, step' = [step EXCEPT ![r] = place],
               \/ holds' = [holds EXCEPT ![r] = {}]
               \/ UNCHANGED holds /\ step[r] \notin {"finding", "matching", "comparing"}
               \/ UNCHANGED holds /\ place \in {"finding", "matching", "comparing"}
        PROVE  WaitingAreOpen'
    BY <2>0 DEF WaitingAreOpen, PasswordTypeOK
  <2>1. CASE \E t \in Typed, i \in Ips : Register(r, t, i)
    <3>1. PICK t \in Typed, i \in Ips : Register(r, t, i)
      BY <2>1
    <3>2. KeysOf(AccountOf[t], i) \in SUBSET Counters
      BY AccountsAssumption DEF KeysOf, Counters
    <3>3. CounterCounts' /\ AttemptsBounded'
      BY <3>1, <3>2, AttemptCounted DEF Register
    <3>4. WaitingAreOpen'
      BY <3>1 DEF Register, WaitingAreOpen, PasswordTypeOK
    <3> QED BY <3>3, <3>4
  <2>2. ASSUME NEW place \in Steps, step' = [step EXCEPT ![r] = place],
               UNCHANGED tried,
               \/ /\ UNCHANGED <<compared, holds>>
                  /\ \/ step[r] \notin {"finding", "matching", "comparing"}
                     \/ place \in {"finding", "matching", "comparing"}
               \/ /\ holds' = [holds EXCEPT ![r] = {}]
                  /\ compared' = compared \/ Compared(r)
        PROVE  WaitingAreOpen' /\ CounterCounts' /\ AttemptsBounded'
    <3>1. CASE UNCHANGED <<compared, holds>>
      BY <1>0, <2>0, <2>2, <3>1
    <3>2. CASE holds' = [holds EXCEPT ![r] = {}] /\ (compared' = compared \/ Compared(r))
      BY <2>0, <2>2, <3>2, LettingGo
    <3> QED BY <2>2, <3>1, <3>2
  <2>3. {"idle", "finding", "matching", "comparing", "clearing", "cooling", "counting",
         "setting", "adding", "renewing", "copying", "mailing"} \subseteq Steps
    BY DEF Steps
  <2>4. CASE FindMember(r)
    BY <2>2, <2>3, <2>4 DEF FindMember
  <2>5. CASE FindNobody(r)
    BY <2>2, <2>3, <2>5 DEF FindNobody
  <2>6. CASE MatchTemporary(r)
    BY <2>2, <2>3, <2>6 DEF MatchTemporary
  <2>7. CASE MatchNothing(r)
    BY <2>2, <2>3, <2>7 DEF MatchNothing
  <2>8. CASE RightPassword(r)
    BY <2>2, <2>3, <2>8 DEF RightPassword
  <2>9. CASE WrongPassword(r)
    BY <2>2, <2>3, <2>9 DEF WrongPassword
  <2>10. CASE ClearAttempts(r)
    <3>1. AccountOf[typed[r]] \in Accounts /\ ip[r] \in Ips
      BY <2>10, AccountsAssumption DEF ClearAttempts, PasswordTypeOK
    <3>2. LET keys == Cleared(AccountOf[typed[r]], ip[r])
          IN  keys \in SUBSET Counters /\ {k \in keys : k[1] # All} = keys
      BY <3>1, AccountsAssumption DEF Cleared, Counters
    <3>3. CounterCounts' /\ AttemptsBounded'
      BY <2>10, <3>2, CountersGone DEF ClearAttempts
    <3>4. holds[r] = {} /\ \A q \in Requests : q # r => step'[q] = step[q]
      BY <2>10 DEF ClearAttempts, WaitingAreOpen, PasswordTypeOK
    <3>5. \A q \in Requests : holds'[q] \subseteq holds[q]
      BY <2>10 DEF ClearAttempts
    <3>6. WaitingAreOpen'
      BY <3>4, <3>5 DEF WaitingAreOpen
    <3> QED BY <3>3, <3>6
  <2>11. CASE PasswordFails(r)
    BY <2>2, <2>3, <2>11 DEF PasswordFails
  <2>12. CASE Acquire(r)
    <3>1. CASE Leave(r)
      BY <2>2, <2>3, <2>12, <3>1 DEF Acquire
    <3>2. CASE Move(r, "counting") /\ UNCHANGED <<typed, ip, seen, token, holds>>
      BY <2>2, <2>3, <2>12, <3>2 DEF Acquire
    <3> QED BY ONLY <2>12, <3>1, <3>2 DEF Acquire
  <2>13. CASE CountIssue(r)
    BY <2>2, <2>3, <2>13 DEF CountIssue
  <2>14. CASE \E t \in Tokens : SetToken(r, t)
    BY <2>2, <2>3, <2>14 DEF SetToken
  <2>15. CASE AddToIndex(r)
    BY <2>2, <2>3, <2>15 DEF AddToIndex
  <2>16. CASE RenewIndex(r)
    BY <2>2, <2>3, <2>16 DEF RenewIndex
  <2>17. CASE CopyToken(r)
    BY <2>2, <2>3, <2>17 DEF CopyToken
  <2>18. CASE MailLink(r)
    BY <2>2, <2>3, <2>18 DEF MailLink
  <2> QED BY <1>1, <2>1, <2>4, <2>5, <2>6, <2>7, <2>8, <2>9, <2>10, <2>11, <2>12, <2>13,
             <2>14, <2>15, <2>16, <2>17, <2>18 DEF RequestStep
<1>2. CASE \/ GiveTemporary \/ TemporaryExpires \/ IssueKeysExpire \/ IndexExpires
           \/ LegacyExpires \/ \E t \in Tokens : ResetPassword(t) \/ TokenExpires(t)
  <2>1. UNCHANGED <<tried, compared, holds, step>>
    BY <1>2 DEF GiveTemporary, TemporaryExpires, IssueKeysExpire, IndexExpires, LegacyExpires,
                ResetPassword, TokenExpires
  <2> QED BY <1>0, <2>1 DEF WaitingAreOpen
<1>3. ASSUME NEW k \in Counters, CounterExpires(k)
      PROVE  WaitingAreOpen' /\ CounterCounts' /\ AttemptsBounded'
  <2>1. /\ tried' = [c \in Counters |-> IF c \in {k} THEN 0 ELSE tried[c]]
        /\ compared' = [c \in Counters |-> IF c \in {k} THEN 0 ELSE compared[c]]
        /\ holds' = [r \in Requests |-> holds[r] \ {k}] /\ UNCHANGED step
    BY <1>3 DEF CounterExpires, PasswordTypeOK
  <2>2. CounterCounts' /\ AttemptsBounded'
    BY <2>1, CountersGone
  <2> QED BY <2>1, <2>2 DEF WaitingAreOpen
<1> QED BY <1>1, <1>2, <1>3 DEF PasswordNext

-----------------------------------------------------------------------------

(* Both invariants hold before the first login.                            *)
LEMMA PasswordStart == ASSUME NEW first \in Scenes, PasswordInit(first)
                       PROVE  LinkInv /\ AttemptInv
<1> USE AccountsAssumption, CapsAssumption, LoginsAssumption, ScenesAssumption
<1>1. PasswordTypeOK
  <2>1. first.left \in Nat /\ first.origins \subseteq Typed \X Ips /\ first.passhash \in BOOLEAN
    OBVIOUS
  <2>2. Mailbox \in Typed
    OBVIOUS
  <2> QED BY <2>1, <2>2 DEF PasswordInit, PasswordTypeOK, Steps
<1>2. OwnTokens /\ IndexHolds /\ LinksRevocable
  BY DEF PasswordInit, OwnTokens, IndexHolds, LinksRevocable, HaveToken, Indexed
<1>3. WaitingAreOpen
  BY DEF PasswordInit, WaitingAreOpen
<1>5. ASSUME NEW k \in Counters
      PROVE  /\ compared[k] + Cardinality(Waiting(k)) <= tried[k]
             /\ compared[k] + Cardinality(Waiting(k)) <= CapOf(k)
  <2>1. compared[k] = 0 /\ tried[k] = 0
    BY DEF PasswordInit
  <2>2. Waiting(k) = {}
    BY DEF PasswordInit, Waiting
  <2>3. Cardinality(Waiting(k)) = 0
    BY <2>2, FS_EmptySet
  <2>4. CapOf(k) \in Nat
    BY DEF CapOf
  <2> QED BY <2>1, <2>3, <2>4
<1> QED BY <1>1, <1>2, <1>3, <1>5 DEF LinkInv, AttemptInv, CounterCounts, AttemptsBounded

(* Steps of the device-bind codes leave both invariants alone.             *)
LEMMA PasswordIdle == ASSUME LinkInv, AttemptInv, UNCHANGED passwordVars
                      PROVE  LinkInv' /\ AttemptInv'
<1> USE DEF passwordVars, tokenVars, tokenHistory, requestVars, bounds
<1>1. LinkInv'
  BY DEF LinkInv, PasswordTypeOK, OwnTokens, IndexHolds, LinksRevocable
<1>2. AttemptInv'
  BY DEF AttemptInv, PasswordTypeOK, WaitingAreOpen, CounterCounts, AttemptsBounded, Waiting, CapOf
<1> QED BY <1>1, <1>2

(* Both invariants hold of every behaviour of Auth.                        *)
LEMMA PasswordsHold == AuthSpec => [](LinkInv /\ AttemptInv)
<1>1. AuthInit => LinkInv /\ AttemptInv
  BY PasswordStart DEF AuthInit
<1>2. LinkInv /\ AttemptInv /\ [AuthNext]_authVars => (LinkInv /\ AttemptInv)'
  <2> SUFFICES ASSUME LinkInv, AttemptInv, [AuthNext]_authVars
               PROVE  (LinkInv /\ AttemptInv)'
    OBVIOUS
  <2>1. CASE PasswordNext
    <3>1. PasswordTypeOK'
      BY <2>1, TypesKept DEF LinkInv
    <3>2. OwnTokens' /\ IndexHolds' /\ LinksRevocable'
      BY <2>1, LinksStep
    <3>3. WaitingAreOpen' /\ CounterCounts' /\ AttemptsBounded'
      BY <2>1, AttemptsStep
    <3> QED BY <3>1, <3>2, <3>3 DEF LinkInv, AttemptInv
  <2>2. CASE UNCHANGED passwordVars
    BY <2>2, PasswordIdle
  <2> QED BY <2>1, <2>2 DEF AuthNext, CodesStep, PasswordsStep, authVars
<1> QED BY <1>1, <1>2, PTL DEF AuthSpec

(* Auth moves the device-bind codes by the steps of DeviceBindCode alone,  *)
(* so all that is proved of them there holds here.                         *)
THEOREM AuthMovesCodes == AuthSpec => Spec
<1>1. AuthInit => Init
  BY DEF AuthInit
<1>2. [AuthNext]_authVars => [Next]_vars
  BY DEF AuthNext, CodesStep, PasswordsStep, authVars
<1> QED BY <1>1, <1>2, PTL DEF AuthSpec, Spec

(* The types of Auth: each variable of the two parts keeps its range.      *)
THEOREM AuthTyped == ASSUME Codes # {} PROVE AuthSpec => []AuthTypeOK
<1>1. AuthSpec => [](focus \in {"codes", "passwords"})
  <2>1. AuthInit => focus \in {"codes", "passwords"}
    BY ScenesAssumption DEF AuthInit
  <2>2. focus \in {"codes", "passwords"} /\ [AuthNext]_authVars => (focus \in {"codes", "passwords"})'
    BY DEF AuthNext, CodesStep, PasswordsStep, authVars
  <2> QED BY <2>1, <2>2, PTL DEF AuthSpec
<1>2. LinkInv => PasswordTypeOK
  BY DEF LinkInv
<1>3. TypeOK /\ PasswordTypeOK /\ focus \in {"codes", "passwords"} => AuthTypeOK
  BY DEF AuthTypeOK
<1> QED BY <1>1, <1>2, <1>3, AuthMovesCodes, PasswordsHold, BindTypeCorrect, PTL

(* While a counter lives, concurrent logins compare no more passwords on   *)
(* it than its cap: the count is taken before the comparison and a success *)
(* deletes only counters of the account that logged in.                    *)
THEOREM PasswordsBounded == AuthSpec => []AttemptsBounded
<1>1. AttemptInv => AttemptsBounded
  BY DEF AttemptInv
<1> QED BY <1>1, PasswordsHold, PTL

(* Every mailed link that works is one the index names, which a reset      *)
(* revokes, or one whose index expired between SADD and EXPIRE.            *)
THEOREM LinksStayRevocable == AuthSpec => []LinksRevocable
<1>1. LinkInv => LinksRevocable
  BY DEF LinkInv
<1> QED BY <1>1, PasswordsHold, PTL

=============================================================================
