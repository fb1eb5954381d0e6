---------------------------- MODULE DeviceBindCode ----------------------------
(***************************************************************************)
(* The codes mailed to a member who signs in on a new device after reaching *)
(* the bind limit: sending one (sendDeviceBindCode) and verifying one      *)
(* (verifyDeviceBindCode) in                                               *)
(* src/src/mailVerificationCode/mailVerificationCode.service.ts, with the  *)
(* Redis counters of src/src/auth/auth-limits.ts and the queries of        *)
(* mailVerificationCode.infra.ts.                                          *)
(*                                                                         *)
(* One member of one app.  Requests run concurrently; each Redis command   *)
(* and each SQL statement is one step, and a request may die between any   *)
(* two of them.  The keys and the code rows expire on their own, at any    *)
(* time: a request may be slower than a key lives.                         *)
(***************************************************************************)
EXTENDS Integers, FiniteSets

CONSTANTS
    Verifiers,      \* requests to POST /mail-verification-code/verify
    Senders,        \* requests to POST /mail-verification-code/send
    Codes,          \* the codes digitalCodeGenerator(4) can produce
    Cap,            \* LIMITS.deviceBindFail.cap
    SendCap,        \* LIMITS.deviceBindSendCount.cap
    InitialDevices, \* devices of the member at first, 1 the oldest
    MaxRows,        \* bound: code rows inserted
    MaxAttempts,    \* bound: value of the fail counter
    MaxOpen,        \* bound: requests open at a time
    SlowSends,          \* may a send outlive its cooldown?
    SlowVerifications   \* may a verification outlive the counter it was counted on?

VARIABLES
    challenge,      \* does auth:device-bind:<app>:<email> exist?
    failExists,     \* does auth:device-bind-fail:<app>:<member> exist?
    fail,           \* its value, 0 when it does not exist
    cooldown,       \* does auth:device-bind-send-cooldown:... exist?
    sendCount,      \* value of auth:device-bind-send-count:..., 0 = no key
    rows,           \* number of mail_verification_code rows inserted so far
    codeOf,         \* the code of each row
    live,           \* rows with expired_at > NOW()
    devices,        \* the member's member_device rows, numbered by created_at
    login,          \* the login is between the lock check and the challenge
    vpc, guess, attempts, oldest, vids,   \* locals of a verification
    spc, sids,                            \* locals of a send
    \* history variables: no step depends on them
    holders,        \* verifications counted on the counter now in Redis, undecided
    wrong,          \* wrong codes counted on it
    kept,           \* other attempts that it still counts
    debt,           \* times it was given back an attempt counted on an earlier one
    matched,        \* the live rows whose code the verification found equal
    removed         \* devices removed since the challenge was last written

redisVars  == <<challenge, failExists, fail, cooldown, sendCount>>
codeVars   == <<rows, codeOf, live>>
verifyVars == <<vpc, guess, attempts, oldest, vids>>
sendVars   == <<spc, sids>>
ghostVars  == <<holders, wrong, kept, debt>>
removalVars == <<matched, removed>>
vars == <<redisVars, codeVars, devices, login, verifyVars, sendVars, ghostVars, removalVars>>

ASSUME CapAssumption == Cap \in Nat \ {0} /\ SendCap \in Nat \ {0}
ASSUME BoundsAssumption == /\ MaxRows \in Nat /\ InitialDevices \in Nat
                           /\ MaxAttempts \in Nat /\ MaxOpen \in Nat
ASSUME RequestsAssumption == /\ IsFiniteSet(Verifiers)
                             /\ SlowSends \in BOOLEAN /\ SlowVerifications \in BOOLEAN

Rows == 1..MaxRows
Devices == 1..InitialDevices
VPcs == {"idle", "challenge?", "counting", "comparing", "devices", "removing", "listing",
         "expiring", "givingBack", "refused", "clearing", "relisting", "reexpiring"}
SPcs == {"idle", "cooling", "counting", "listing", "expiring", "inserting"}

TypeOK ==
    /\ challenge \in BOOLEAN /\ failExists \in BOOLEAN /\ cooldown \in BOOLEAN
    /\ fail \in Int
    /\ sendCount \in 0..(SendCap + 1)
    /\ rows \in 0..MaxRows
    /\ codeOf \in [Rows -> Codes]
    /\ live \in SUBSET (1..rows)
    /\ devices \in SUBSET Devices
    /\ login \in BOOLEAN
    /\ vpc \in [Verifiers -> VPcs]
    /\ guess \in [Verifiers -> Codes]
    /\ attempts \in [Verifiers -> Int]
    /\ oldest \in [Verifiers -> Devices \cup {0}]
    /\ vids \in [Verifiers -> SUBSET Rows]
    /\ spc \in [Senders -> SPcs]
    /\ sids \in [Senders -> SUBSET Rows]
    /\ holders \in SUBSET Verifiers
    /\ wrong \in Nat /\ kept \in Nat /\ debt \in Nat
    /\ matched \in [Verifiers -> SUBSET Rows]
    /\ removed \in Nat

SomeCode == CHOOSE c \in Codes : TRUE

Init ==
    /\ challenge = FALSE /\ failExists = FALSE /\ fail = 0
    /\ cooldown = FALSE /\ sendCount = 0
    /\ rows = 0 /\ codeOf = [r \in Rows |-> SomeCode] /\ live = {}
    /\ devices = Devices
    /\ login = FALSE
    /\ vpc = [v \in Verifiers |-> "idle"] /\ guess = [v \in Verifiers |-> SomeCode]
    /\ attempts = [v \in Verifiers |-> 0] /\ oldest = [v \in Verifiers |-> 0]
    /\ vids = [v \in Verifiers |-> {}]
    /\ spc = [s \in Senders |-> "idle"] /\ sids = [s \in Senders |-> {}]
    /\ holders = {} /\ wrong = 0 /\ kept = 0 /\ debt = 0
    /\ matched = [v \in Verifiers |-> {}] /\ removed = 0

-----------------------------------------------------------------------------
(* Pieces shared by the requests.                                            *)

(* Variants with one plausible mistake; they belong to no specification.     *)
BugExpireOthers(ids) == live \cap ids   \* NOT IN instead of IN
BugAccept(n) == n <= Cap + 1            \* one attempt too many

(* updateMailVerificationCodesToNow: without ids it expires every row of the *)
(* email.                                                                    *)
AfterUpdateToNow(ids) == IF ids = {} THEN {} ELSE live \ ids

NewRow == rows + 1               \* the row of an INSERT
Accept(n) == n <= Cap            \* attempts > cap is refused
Allow(cooled) == ~cooled         \* SET NX succeeds when the key does not exist
Locked == fail >= Cap            \* isDeviceBindLocked

OpenRequests == {v \in Verifiers : vpc[v] # "idle"} \cup {s \in Senders : spc[s] # "idle"}

(* The effect of INCR_WITH_TTL_SCRIPT on the fail counter.                   *)
Increment == failExists' = TRUE /\ fail' = fail + 1

(* The effect of DECR_IF_EXISTS_SCRIPT.                                      *)
DecrementIfExists ==
    /\ fail' = IF failExists THEN fail - 1 ELSE fail
    /\ UNCHANGED failExists

(* The verification of v breaks off; its attempt, if counted, stays counted. *)
Forget(v) ==
    /\ kept' = IF v \in holders THEN kept + 1 ELSE kept
    /\ holders' = holders \ {v}
    /\ guess' = [guess EXCEPT ![v] = SomeCode]
    /\ oldest' = [oldest EXCEPT ![v] = 0]
    /\ vids' = [vids EXCEPT ![v] = {}]
    /\ matched' = [matched EXCEPT ![v] = {}]
    /\ UNCHANGED <<wrong, debt, removed>>

-----------------------------------------------------------------------------
(* The login that reached the bind limit (auth.controller.ts).               *)
LoginCheck ==
    /\ ~login /\ ~Locked
    /\ login' = TRUE
    /\ UNCHANGED <<redisVars, codeVars, devices, verifyVars, sendVars, ghostVars, removalVars>>

LoginWrite ==
    /\ login
    /\ login' = FALSE
    /\ challenge' = TRUE
    /\ removed' = 0
    /\ UNCHANGED <<failExists, fail, cooldown, sendCount, codeVars, devices, verifyVars,
                   sendVars, ghostVars, matched>>

-----------------------------------------------------------------------------
(* Sending a code.                                                           *)
Goto(s, pc) == spc' = [spc EXCEPT ![s] = pc]

(* readDeviceBindChallenge; a send without a challenge returns at once.      *)
Send(s) ==
    /\ spc[s] = "idle" /\ challenge
    /\ Cardinality(OpenRequests) < MaxOpen
    /\ Goto(s, "cooling")
    /\ UNCHANGED <<redisVars, codeVars, devices, login, verifyVars, sids, ghostVars, removalVars>>

Cool(s) ==
    /\ spc[s] = "cooling"
    /\ cooldown' = TRUE
    /\ Goto(s, IF Allow(cooldown) THEN "counting" ELSE "idle")
    /\ UNCHANGED <<challenge, failExists, fail, sendCount, codeVars, devices, login,
                   verifyVars, sids, ghostVars, removalVars>>

(* The hourly counter; every value over the cap behaves alike.               *)
CountSend(s) ==
    /\ spc[s] = "counting"
    /\ sendCount' = IF sendCount < SendCap THEN sendCount + 1 ELSE SendCap + 1
    /\ Goto(s, IF sendCount < SendCap THEN "listing" ELSE "idle")
    /\ UNCHANGED <<challenge, failExists, fail, cooldown, codeVars, devices, login,
                   verifyVars, sids, ghostVars, removalVars>>

ListOld(s) ==
    /\ spc[s] = "listing"
    /\ sids' = [sids EXCEPT ![s] = live]
    /\ Goto(s, "expiring")
    /\ UNCHANGED <<redisVars, codeVars, devices, login, verifyVars, ghostVars, removalVars>>

ExpireOld(s) ==
    /\ spc[s] = "expiring"
    /\ live' = AfterUpdateToNow(sids[s])
    /\ Goto(s, "inserting")
    /\ UNCHANGED <<redisVars, rows, codeOf, devices, login, verifyVars, sids, ghostVars, removalVars>>

(* The new code differs from every code the request has read.  (Queueing the *)
(* mail, which follows, touches nothing modelled here.)                      *)
InsertCode(s) ==
    /\ spc[s] = "inserting" /\ rows < MaxRows
    /\ \E c \in Codes \ {codeOf[r] : r \in sids[s]} :
           codeOf' = [codeOf EXCEPT ![NewRow] = c]
    /\ rows' = rows + 1
    /\ live' = live \cup {NewRow}
    /\ sids' = [sids EXCEPT ![s] = {}]
    /\ Goto(s, "idle")
    /\ UNCHANGED <<redisVars, devices, login, verifyVars, ghostVars, removalVars>>

(* The request fails: expireOldAndSend catches, the controller catches, or   *)
(* the process dies.                                                         *)
SendFails(s) ==
    /\ spc[s] # "idle"
    /\ Goto(s, "idle")
    /\ sids' = [sids EXCEPT ![s] = {}]
    /\ UNCHANGED <<redisVars, codeVars, devices, login, verifyVars, ghostVars, removalVars>>

-----------------------------------------------------------------------------
(* Verifying a code.  A local is reset once nothing reads it any more.       *)
Step(v, pc) == vpc' = [vpc EXCEPT ![v] = pc]

(* The call, up to isDeviceBindLocked; a locked member is refused at once.   *)
Verify(v, c) ==
    /\ vpc[v] = "idle" /\ ~Locked
    /\ Cardinality(OpenRequests) < MaxOpen
    /\ guess' = [guess EXCEPT ![v] = c]
    /\ Step(v, "challenge?")
    /\ UNCHANGED <<redisVars, codeVars, devices, login, attempts, oldest, vids, sendVars,
                   ghostVars, removalVars>>

ReadChallenge(v) ==
    /\ vpc[v] = "challenge?"
    /\ Step(v, IF challenge THEN "counting" ELSE "idle")
    /\ guess' = [guess EXCEPT ![v] = IF challenge THEN @ ELSE SomeCode]
    /\ UNCHANGED <<redisVars, codeVars, devices, login, attempts, oldest, vids,
                   sendVars, ghostVars, removalVars>>

CountAttempt(v) ==
    /\ vpc[v] = "counting" /\ fail < MaxAttempts
    /\ Increment
    /\ IF Accept(fail + 1)
       THEN /\ attempts' = [attempts EXCEPT ![v] = fail + 1]
            /\ holders' = holders \cup {v}
            /\ Step(v, "comparing")
            /\ UNCHANGED <<guess, kept>>
       ELSE /\ kept' = kept + 1
            /\ guess' = [guess EXCEPT ![v] = SomeCode]
            /\ Step(v, "idle")
            /\ UNCHANGED <<attempts, holders>>
    /\ UNCHANGED <<challenge, cooldown, sendCount, codeVars, devices, login, oldest,
                   vids, sendVars, wrong, debt, removalVars>>

(* checkMailVerificationCodeExpired: is the code that of an unexpired row?   *)
RightCode(v) ==
    /\ vpc[v] = "comparing"
    /\ matched' = [matched EXCEPT ![v] = {r \in live : codeOf[r] = guess[v]}]
    /\ matched'[v] # {}
    /\ guess' = [guess EXCEPT ![v] = SomeCode]
    /\ Step(v, "devices")
    /\ UNCHANGED <<redisVars, codeVars, devices, login, attempts, oldest, vids,
                   sendVars, ghostVars, removed>>

WrongCode(v) ==
    /\ vpc[v] = "comparing"
    /\ \A r \in live : codeOf[r] # guess[v]
    /\ wrong' = IF v \in holders THEN wrong + 1 ELSE wrong
    /\ holders' = holders \ {v}
    /\ guess' = [guess EXCEPT ![v] = SomeCode]
    /\ Step(v, "refused")
    /\ UNCHANGED <<redisVars, codeVars, devices, login, attempts, oldest, vids,
                   sendVars, kept, debt, removalVars>>

(* getMemberDevices and the oldest of them; without one, .id throws.         *)
ReadDevices(v) ==
    /\ vpc[v] = "devices" /\ devices # {}
    /\ \E d \in devices : /\ \A e \in devices : d <= e
                          /\ oldest' = [oldest EXCEPT ![v] = d]
    /\ Step(v, "removing")
    /\ UNCHANGED <<redisVars, codeVars, devices, login, guess, attempts, vids, sendVars,
                   ghostVars, removalVars>>

(* deleteMemberDeviceById; a row that is gone already is no error.           *)
RemoveDevice(v) ==
    /\ vpc[v] = "removing"
    /\ devices' = devices \ {oldest[v]}
    /\ removed' = IF oldest[v] \in devices THEN removed + 1 ELSE removed
    /\ oldest' = [oldest EXCEPT ![v] = 0]
    /\ Step(v, "listing")
    /\ UNCHANGED <<redisVars, codeVars, login, guess, attempts, vids, sendVars,
                   ghostVars, matched>>

(* getUnexpired..., by the verification or by expireOldVerificationCodesBy-  *)
(* Email afterwards.                                                         *)
ListCodes(v) ==
    /\ vpc[v] \in {"listing", "relisting"}
    /\ vids' = [vids EXCEPT ![v] = live]
    /\ Step(v, IF vpc[v] = "listing" THEN "expiring" ELSE "reexpiring")
    /\ UNCHANGED <<redisVars, codeVars, devices, login, guess, attempts, oldest, sendVars,
                   ghostVars, removalVars>>

ExpireCodes(v) ==
    /\ vpc[v] \in {"expiring", "reexpiring"}
    /\ live' = AfterUpdateToNow(vids[v])
    /\ vids' = [vids EXCEPT ![v] = {}]
    /\ Step(v, IF vpc[v] = "expiring" THEN "givingBack" ELSE "idle")
    /\ UNCHANGED <<redisVars, rows, codeOf, devices, login, guess, attempts, oldest,
                   sendVars, ghostVars, removalVars>>

(* decrementIfExists: the attempt is given back - to the counter in Redis    *)
(* now, which need not be the one it was counted on.                         *)
GiveBack(v) ==
    /\ vpc[v] = "givingBack"
    /\ DecrementIfExists
    /\ holders' = holders \ {v}
    /\ debt' = IF failExists /\ v \notin holders THEN debt + 1 ELSE debt
    /\ attempts' = [attempts EXCEPT ![v] = 0]
    /\ matched' = [matched EXCEPT ![v] = {}]
    /\ Step(v, "clearing")
    /\ UNCHANGED <<challenge, cooldown, sendCount, codeVars, devices, login, guess, oldest,
                   vids, sendVars, wrong, kept, removed>>

(* A refused code; at the cap the challenge and the codes are dropped.       *)
Refuse(v) ==
    /\ vpc[v] = "refused"
    /\ Step(v, IF attempts[v] >= Cap THEN "clearing" ELSE "idle")
    /\ attempts' = [attempts EXCEPT ![v] = 0]
    /\ UNCHANGED <<redisVars, codeVars, devices, login, guess, oldest, vids,
                   sendVars, ghostVars, removalVars>>

(* clearDeviceBindChallenge; expireOldVerificationCodesByEmail follows, here *)
(* after a refusal and in the controller after a success.                    *)
ClearChallenge(v) ==
    /\ vpc[v] = "clearing"
    /\ challenge' = FALSE
    /\ Step(v, "relisting")
    /\ UNCHANGED <<failExists, fail, cooldown, sendCount, codeVars, devices, login, guess,
                   attempts, oldest, vids, sendVars, ghostVars, removalVars>>

(* A query of verifyMailVerificationCode throws, or there is no device: it   *)
(* returns undefined, which verifyDeviceBindCode takes for a wrong code.     *)
VerifyThrows(v) ==
    /\ vpc[v] \in {"comparing", "devices", "removing", "listing", "expiring"}
    /\ Forget(v)
    /\ Step(v, "refused")
    /\ UNCHANGED <<redisVars, codeVars, devices, login, attempts, sendVars>>

(* Redis refuses a command or loses its answer, a query of                   *)
(* expireOldVerificationCodesByEmail throws, or the process dies.            *)
VerifyDies(v) ==
    /\ vpc[v] # "idle"
    /\ Forget(v)
    /\ attempts' = [attempts EXCEPT ![v] = 0]
    /\ Step(v, "idle")
    /\ UNCHANGED <<redisVars, codeVars, devices, login, sendVars>>

-----------------------------------------------------------------------------
(* Keys and codes expire.                                                    *)
ChallengeExpires ==
    /\ challenge
    /\ challenge' = FALSE
    /\ UNCHANGED <<failExists, fail, cooldown, sendCount, codeVars, devices, login,
                   verifyVars, sendVars, ghostVars, removalVars>>

FailExpires ==
    /\ failExists
    /\ SlowVerifications \/ holders = {}
    /\ failExists' = FALSE /\ fail' = 0
    /\ holders' = {} /\ wrong' = 0 /\ kept' = 0 /\ debt' = 0
    /\ UNCHANGED <<challenge, cooldown, sendCount, codeVars, devices, login, verifyVars,
                   sendVars, removalVars>>

CooldownExpires ==
    /\ cooldown
    /\ SlowSends \/ \A s \in Senders : spc[s] \in {"idle", "cooling"}
    /\ cooldown' = FALSE
    /\ UNCHANGED <<challenge, failExists, fail, sendCount, codeVars, devices, login,
                   verifyVars, sendVars, ghostVars, removalVars>>

SendCountExpires ==
    /\ sendCount > 0
    /\ sendCount' = 0
    /\ UNCHANGED <<challenge, failExists, fail, cooldown, codeVars, devices, login,
                   verifyVars, sendVars, ghostVars, removalVars>>

CodeExpires(r) ==
    /\ r \in live
    /\ live' = live \ {r}
    /\ UNCHANGED <<redisVars, rows, codeOf, devices, login, verifyVars, sendVars, ghostVars,
                   removalVars>>

SendStep(s) == Send(s) \/ Cool(s) \/ CountSend(s) \/ ListOld(s) \/ ExpireOld(s)
               \/ InsertCode(s) \/ SendFails(s)

VerifyStep(v) ==
    \/ \E c \in Codes : Verify(v, c)
    \/ ReadChallenge(v) \/ CountAttempt(v) \/ RightCode(v) \/ WrongCode(v)
    \/ ReadDevices(v) \/ RemoveDevice(v) \/ ListCodes(v) \/ ExpireCodes(v)
    \/ GiveBack(v) \/ Refuse(v) \/ ClearChallenge(v) \/ VerifyThrows(v) \/ VerifyDies(v)

Next ==
    \/ LoginCheck \/ LoginWrite
    \/ \E s \in Senders : SendStep(s)
    \/ \E v \in Verifiers : VerifyStep(v)
    \/ ChallengeExpires \/ FailExpires \/ CooldownExpires \/ SendCountExpires
    \/ \E r \in Rows : CodeExpires(r)

Spec == Init /\ [][Next]_vars

-----------------------------------------------------------------------------
(* Properties.                                                               *)

(* The fail counter accounts for every attempt since it was created: what it *)
(* holds is the wrong codes, the other attempts never given back, and the    *)
(* attempts still undecided - less what verifications counted on an earlier  *)
(* counter took from it.                                                     *)
CounterAccounts ==
    IF failExists THEN fail + debt = wrong + kept + Cardinality(holders)
                  ELSE fail = 0 /\ wrong = 0 /\ kept = 0 /\ debt = 0 /\ holders = {}

(* However requests overlap, one counter admits at most Cap wrong codes, and *)
(* one more for each attempt it gave back that it had never counted.  (The   *)
(* count is taken before the code is compared.)                              *)
WrongCodesBounded == wrong + Cardinality(holders) <= Cap + debt

(* Codes are sent one at a time: a new code replaces the old one, because    *)
(* the cooldown keeps two sends apart (and provided it outlives a send).     *)
OneLiveCode == Cardinality(live) <= 1

(* A code that was accepted is dead before the verification answers: no      *)
(* request that compares later accepts it again.                             *)
AcceptedCodeDies == \A v \in Verifiers : vpc[v] = "givingBack" => matched[v] \cap live = {}

(* So a code that was replaced or accepted is never accepted again.          *)
CodesDie == OneLiveCode /\ AcceptedCodeDies

(* "concurrent requests cannot exceed the cap" (the comment above the count  *)
(* in verifyDeviceBindCode): at most Cap wrong codes per counter.            *)
CapNotExceeded == wrong <= Cap

===============================================================================
