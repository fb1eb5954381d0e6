---------------------------- MODULE PasswordLogin ----------------------------
(***************************************************************************)
(* A member logs in with a password (AuthService.generalLogin in           *)
(* src/src/auth/auth.service.ts): three counters of attempts in Redis      *)
(* limit how many passwords are compared, and a member without a password  *)
(* is mailed a link whose token is kept in Redis (auth-limits.ts,          *)
(* auth-token.ts).  Requests run concurrently, every Redis command is one  *)
(* step, and every key expires on its own.                                 *)
(***************************************************************************)
EXTENDS Integers, FiniteSets

CONSTANTS
  Requests,        \* concurrent general-login requests
  Typed,           \* what is typed as the account
  Named,           \* the username and the email of the member, exactly
  Mailbox,         \* the email among them, which a temporary password is for
  Accounts,        \* accounts as the counters' keys name them
  AccountOf,       \* trimmed and in lower case: the account of what is typed
  Ips,             \* addresses of clients
  All,             \* no account or no address in a key
  PairCap, AccountCap, IpCap,  \* caps of loginFailAccountIp, ...Account, ...Ip
  IssueCap,        \* cap of issueCount
  Tokens, NoToken  \* random tokens

VARIABLES
  tried,      \* the counters, 0 when there is no key
  temporary,  \* does tmpPass:<app>:<email> exist?
  passhash,   \* has the member a password?
  cooling,    \* does auth:issue-cooldown:... exist?
  issued,     \* auth:issue-count:..., 0 when there is no key
  tokens,     \* tokens with a key of their own
  index,      \* auth:reset-password:app-tokens:<member>; no key when empty
  ticking,    \* has the index a time to live?
  legacy,     \* the token in auth:reset-password:app:<member>
  step, typed, ip, seen, token,  \* locals of the requests
  origins,    \* bound: what is typed in this behaviour, and from where
  left,       \* bound: logins and temporary passwords still to come
  holds,      \* history: counters alive since the request was counted
  compared,   \* history: passwords compared since the counter was created
  mailed,     \* history: tokens that are in a mail
  renewed,    \* history: tokens in the index when its time was last set
  dropped     \* history: tokens whose index expired before its time was set

tokenVars == <<cooling, issued, tokens, index, ticking, legacy>>
tokenHistory == <<mailed, renewed, dropped>>
bounds == <<origins, left>>
requestVars == <<step, typed, ip, seen, token, holds>>
passwordVars == <<tried, temporary, passhash, tokenVars, requestVars,
                  bounds, compared, tokenHistory>>

ASSUME CapsAssumption ==
  PairCap \in Nat /\ AccountCap \in Nat /\ IpCap \in Nat /\ IssueCap \in Nat
ASSUME AccountsAssumption ==
  /\ AccountOf \in [Typed -> Accounts] /\ Named \subseteq Typed
  /\ Mailbox \in Named /\ All \notin Accounts \cup Ips
ASSUME LoginsAssumption ==
  IsFiniteSet(Requests) /\ NoToken \notin Tokens

Steps == {"idle", "finding", "matching", "comparing", "clearing", "cooling",
          "counting", "setting", "adding", "renewing", "copying", "mailing"}
Counters == ((Accounts \cup {All}) \X (Ips \cup {All})) \ {<<All, All>>}

PasswordTypeOK ==
  /\ tried \in [Counters -> Nat] /\ compared \in [Counters -> Nat]
  /\ temporary \in BOOLEAN /\ passhash \in BOOLEAN /\ cooling \in BOOLEAN
  /\ ticking \in BOOLEAN /\ issued \in Nat /\ left \in Nat /\ origins \subseteq Typed \X Ips
  /\ index \subseteq Tokens /\ tokens \subseteq Tokens /\ legacy \in Tokens \cup {NoToken}
  /\ mailed \subseteq tokens /\ renewed \subseteq tokens /\ dropped \subseteq tokens
  /\ step \in [Requests -> Steps]
  /\ typed \in [Requests -> Typed] /\ ip \in [Requests -> Ips \cup {All}]
  /\ \A r \in Requests : step[r] # "idle" => ip[r] \in Ips
  /\ seen \in [Requests -> BOOLEAN]
  /\ token \in [Requests -> Tokens \cup {NoToken}]
  /\ holds \in [Requests -> SUBSET Counters]

PasswordInit(first) ==
  /\ origins = first.origins /\ left = first.left
  /\ tried = [k \in Counters |-> 0] /\ compared = [k \in Counters |-> 0]
  /\ temporary = FALSE /\ passhash = first.passhash
  /\ cooling = FALSE /\ issued = 0
  /\ tokens = {} /\ index = {} /\ ticking = FALSE /\ legacy = NoToken
  /\ step = [r \in Requests |-> "idle"] /\ typed = [r \in Requests |-> Mailbox]
  /\ ip = [r \in Requests |-> All] /\ seen = [r \in Requests |-> FALSE]
  /\ token = [r \in Requests |-> NoToken] /\ holds = [r \in Requests |-> {}]
  /\ mailed = {} /\ renewed = {} /\ dropped = {}

(* Variants with one plausible mistake; they belong to no specification.   *)
BugCleared(a, i) == {<<a, i>>, <<a, All>>, <<All, i>>}
BugRenew(r) ==  \* the time of an index that exists is left alone
  ticking' = (index # {}) /\ renewed' = IF ticking THEN renewed ELSE index \cap tokens

-----------------------------------------------------------------------------
(* registerLoginAttempt and clearLoginAttempts.                            *)

KeysOf(a, i) == {<<a, i>>, <<a, All>>, <<All, i>>}
CapOf(k) == IF k[1] = All THEN IpCap ELSE IF k[2] = All THEN AccountCap ELSE PairCap

(* After a success the counter of the address is kept.                     *)
Cleared(a, i) == {<<a, i>>, <<a, All>>}

Move(r, place) == step' = [step EXCEPT ![r] = place]

Uncounted(r) == holds' = [holds EXCEPT ![r] = {}]

(* The request answers, throws or dies.                                    *)
Close(r) ==
  /\ Move(r, "idle")
  /\ token' = [token EXCEPT ![r] = NoToken]
  /\ typed' = [typed EXCEPT ![r] = Mailbox] /\ ip' = [ip EXCEPT ![r] = All]
  /\ seen' = [seen EXCEPT ![r] = FALSE]

Leave(r) == Close(r) /\ Uncounted(r)

(* The attempt is counted by one script; over a cap it is refused (429).   *)
Register(r, t, i) ==
  LET keys == KeysOf(AccountOf[t], i) IN
  /\ step[r] = "idle" /\ left > 0 /\ <<t, i>> \in origins
  /\ left' = left - 1 /\ UNCHANGED origins
  /\ tried' = [k \in Counters |-> IF k \in keys THEN tried[k] + 1 ELSE tried[k]]
  /\ IF \A k \in keys : tried'[k] <= CapOf(k)
       THEN /\ Move(r, "finding")
            /\ typed' = [typed EXCEPT ![r] = t] /\ ip' = [ip EXCEPT ![r] = i]
            /\ holds' = [holds EXCEPT ![r] = keys]
            /\ UNCHANGED <<seen, token>>
       ELSE UNCHANGED requestVars
  /\ UNCHANGED <<temporary, passhash, tokenVars, compared, tokenHistory>>

(* getGeneralLoginMemberByUsernameOrEmail, which compares exactly.         *)
FindMember(r) ==
  /\ step[r] = "finding" /\ typed[r] \in Named
  /\ Move(r, "matching")
  /\ seen' = [seen EXCEPT ![r] = passhash]
  /\ UNCHANGED <<tried, temporary, passhash, tokenVars, typed, ip, token, holds,
                 bounds, compared, tokenHistory>>

FindNobody(r) ==
  /\ step[r] = "finding" /\ typed[r] \notin Named
  /\ Leave(r)
  /\ UNCHANGED <<tried, temporary, passhash, tokenVars, bounds, compared, tokenHistory>>

Compared(r) ==
  compared' = [k \in Counters |-> IF k \in holds[r] THEN compared[k] + 1 ELSE compared[k]]

(* The temporary password is read and matches, ...                         *)
MatchTemporary(r) ==
  /\ step[r] = "matching" /\ temporary /\ typed[r] = Mailbox
  /\ Move(r, "clearing") /\ Compared(r) /\ Uncounted(r)
  /\ UNCHANGED <<tried, temporary, passhash, tokenVars, typed, ip, seen, token,
                 bounds, tokenHistory>>

(* ... or not; then a member without a password is sent a link.            *)
MatchNothing(r) ==
  /\ step[r] = "matching"
  /\ IF seen[r] THEN Move(r, "comparing") /\ UNCHANGED <<compared, holds>>
                ELSE Move(r, "cooling") /\ Compared(r) /\ Uncounted(r)
  /\ UNCHANGED <<tried, temporary, passhash, tokenVars, typed, ip, seen, token,
                 bounds, tokenHistory>>

(* The job last-logged-in is left to Porter, which moves it.                *)
RightPassword(r) ==
  /\ step[r] = "comparing"
  /\ Move(r, "clearing") /\ Compared(r) /\ Uncounted(r)
  /\ UNCHANGED <<tried, temporary, passhash, tokenVars, typed, ip, seen, token,
                 bounds, tokenHistory>>

WrongPassword(r) ==
  /\ step[r] = "comparing"
  /\ Leave(r) /\ Compared(r)
  /\ UNCHANGED <<tried, temporary, passhash, tokenVars, bounds, tokenHistory>>

(* The login is accepted; its device is checked next (DeviceLimit).        *)
ClearAttempts(r) ==
  LET keys == Cleared(AccountOf[typed[r]], ip[r])
      renews == {k \in keys : k[1] # All}  \* a success is no news of an address
  IN
  /\ step[r] = "clearing"
  /\ tried' = [k \in Counters |-> IF k \in keys THEN 0 ELSE tried[k]]
  /\ compared' = [k \in Counters |-> IF k \in renews THEN 0 ELSE compared[k]]
  /\ holds' = [s \in Requests |-> holds[s] \ renews]
  /\ Close(r)
  /\ UNCHANGED <<temporary, passhash, tokenVars, bounds, tokenHistory>>

PasswordFails(r) ==
  /\ step[r] # "idle"
  /\ Leave(r)
  /\ UNCHANGED <<tried, temporary, passhash, tokenVars, bounds, compared, tokenHistory>>

-----------------------------------------------------------------------------
(* sendResetPasswordEmail.                                                 *)

Acquire(r) ==
  /\ step[r] = "cooling"
  /\ cooling' = TRUE
  /\ IF cooling THEN Leave(r)
                ELSE Move(r, "counting") /\ UNCHANGED <<typed, ip, seen, token, holds>>
  /\ UNCHANGED <<tried, temporary, passhash, issued, tokens, index, ticking, legacy,
                 bounds, compared, tokenHistory>>

CountIssue(r) ==
  /\ step[r] = "counting"
  /\ issued' = issued + 1
  /\ IF issued + 1 > IssueCap
       THEN Leave(r)
       ELSE Move(r, "setting") /\ UNCHANGED <<typed, ip, seen, token, holds>>
  /\ UNCHANGED <<tried, temporary, passhash, cooling, tokens, index, ticking, legacy,
                 bounds, compared, tokenHistory>>

(* A token is random: no key, set or request knows it.                     *)
Fresh(t) == t \notin tokens \cup index \cup {legacy} \cup {token[r] : r \in Requests}

(* issueResetPasswordAppToken: SET, ...                                    *)
SetToken(r, t) ==
  /\ step[r] = "setting" /\ Fresh(t)
  /\ tokens' = tokens \cup {t}
  /\ token' = [token EXCEPT ![r] = t]
  /\ Move(r, "adding")
  /\ UNCHANGED <<tried, temporary, passhash, cooling, issued, index, ticking, legacy,
                 typed, ip, seen, holds, bounds, compared, tokenHistory>>

(* ... SADD, ...                                                           *)
AddToIndex(r) ==
  /\ step[r] = "adding"
  /\ index' = index \cup {token[r]}
  /\ Move(r, "renewing")
  /\ UNCHANGED <<tried, temporary, passhash, cooling, issued, tokens, ticking, legacy,
                 typed, ip, seen, token, holds, bounds, compared, tokenHistory>>

(* ... EXPIRE, which does nothing when there is no key, ...                *)
Renew(r) == ticking' = (index # {}) /\ renewed' = index \cap tokens

RenewIndex(r) ==
  /\ step[r] = "renewing"
  /\ Renew(r)
  /\ Move(r, "copying")
  /\ UNCHANGED <<tried, temporary, passhash, cooling, issued, tokens, index, legacy,
                 typed, ip, seen, token, holds, bounds, compared, mailed, dropped>>

(* ... and the key of the older format; then the mail is queued.           *)
CopyToken(r) ==
  /\ step[r] = "copying"
  /\ legacy' = token[r]
  /\ Move(r, "mailing")
  /\ UNCHANGED <<tried, temporary, passhash, cooling, issued, tokens, index, ticking,
                 typed, ip, seen, token, holds, bounds, compared, tokenHistory>>

MailLink(r) ==
  /\ step[r] = "mailing"
  /\ mailed' = mailed \cup ({token[r]} \cap tokens)
  /\ Leave(r)
  /\ UNCHANGED <<tried, temporary, passhash, tokenVars, bounds, compared,
                 renewed, dropped>>

-----------------------------------------------------------------------------
(* generateTmpPassword; the backend that takes a link; time.               *)

GiveTemporary ==
  /\ left > 0 /\ left' = left - 1 /\ UNCHANGED origins
  /\ temporary' = TRUE
  /\ UNCHANGED <<tried, passhash, tokenVars, requestVars, compared, tokenHistory>>

End(keys) ==
  /\ tokens' = tokens \ keys /\ mailed' = mailed \ keys
  /\ renewed' = renewed \ keys /\ dropped' = dropped \ keys

(* lodestar-app-backend consumes the token, and revokes all in the index   *)
(* (a backend that reads the older format is left out).                    *)
ResetPassword(t) ==
  /\ t \in mailed
  /\ passhash' = TRUE
  /\ End(index \cup {t})
  /\ index' = {} /\ ticking' = FALSE /\ legacy' = NoToken
  /\ UNCHANGED <<tried, temporary, cooling, issued, requestVars, bounds, compared>>

TemporaryExpires ==
  /\ temporary /\ temporary' = FALSE
  /\ UNCHANGED <<tried, passhash, tokenVars, requestVars, bounds, compared, tokenHistory>>

CounterExpires(k) ==
  /\ tried[k] > 0
  /\ tried' = [tried EXCEPT ![k] = 0]
  /\ compared' = [compared EXCEPT ![k] = 0]
  /\ holds' = [r \in Requests |-> holds[r] \ {k}]
  /\ UNCHANGED <<temporary, passhash, tokenVars, step, typed, ip, seen, token, bounds,
                 tokenHistory>>

IssueKeysExpire ==
  /\ \/ cooling /\ cooling' = FALSE /\ UNCHANGED issued
     \/ issued > 0 /\ issued' = 0 /\ UNCHANGED cooling
  /\ UNCHANGED <<tried, temporary, passhash, tokens, index, ticking, legacy, requestVars,
                 bounds, compared, tokenHistory>>

TokenExpires(t) ==
  /\ t \in tokens
  /\ End({t})
  /\ UNCHANGED <<tried, temporary, passhash, cooling, issued, index, ticking, legacy,
                 requestVars, bounds, compared>>

(* Its hour starts with the last renewal, after those of the tokens it had. *)
IndexExpires ==
  /\ ticking /\ index \cap renewed = {}
  /\ index' = {} /\ ticking' = FALSE
  /\ dropped' = dropped \cup {t \in tokens : \E r \in Requests :
                                 step[r] = "renewing" /\ token[r] = t}
  /\ UNCHANGED <<tried, temporary, passhash, cooling, issued, tokens, legacy, requestVars,
                 bounds, compared, mailed, renewed>>

LegacyExpires ==
  /\ legacy # NoToken /\ legacy \notin tokens /\ legacy' = NoToken
  /\ UNCHANGED <<tried, temporary, passhash, cooling, issued, tokens, index, ticking,
                 requestVars, bounds, compared, tokenHistory>>

RequestStep(r) ==
  \/ \E t \in Typed, i \in Ips : Register(r, t, i)
  \/ FindMember(r) \/ FindNobody(r) \/ MatchTemporary(r) \/ MatchNothing(r)
  \/ RightPassword(r) \/ WrongPassword(r) \/ ClearAttempts(r) \/ PasswordFails(r)
  \/ Acquire(r) \/ CountIssue(r) \/ \E t \in Tokens : SetToken(r, t)
  \/ AddToIndex(r) \/ RenewIndex(r) \/ CopyToken(r) \/ MailLink(r)

PasswordNext ==
  \/ \E r \in Requests : RequestStep(r)
  \/ GiveTemporary \/ TemporaryExpires \/ IssueKeysExpire \/ IndexExpires \/ LegacyExpires
  \/ \E t \in Tokens : ResetPassword(t) \/ TokenExpires(t)
  \/ \E k \in Counters : CounterExpires(k)

-----------------------------------------------------------------------------
(* Requests that may still compare a password on the counter's account.    *)
Waiting(k) == {r \in Requests : k \in holds[r]}

(* "checks at most the cap of passwords in a burst of concurrent attempts" *)
(* (auth.login-limits.spec.ts): while a counter lives, requests compare no *)
(* more passwords than its cap, however they overlap; a success renews the *)
(* account but never the address.                                          *)
AttemptsBounded == \A k \in Counters : compared[k] + Cardinality(Waiting(k)) <= CapOf(k)

(* "the backend revokes all of them on a successful reset" (auth-token.ts):*)
(* every link that works is in the index, which is all a reset can revoke, *)
(* but for tokens whose index expired between SADD and EXPIRE.             *)
LinksRevocable == mailed \subseteq index \cup dropped

=============================================================================
