------------------------------ MODULE Accounts ------------------------------
(***************************************************************************)
(* The User and OauthAccount tables and the handlers that write them:      *)
(* registration, Google sign-in, password reset and change, two-factor     *)
(* set-up, deactivation (modules/auth/auth.service.ts,                     *)
(* modules/user/user.service.ts).  Sessions adds what lives in the cache.  *)
(*                                                                         *)
(* One action is the code between two awaits that touch shared state;      *)
(* hashing, signing and mail take time but touch none.  Users are never    *)
(* deleted and email is unique, so an account is known by its email.       *)
(***************************************************************************)
EXTENDS Integers, FiniteSets

CONSTANTS
  Emails, Passwords, GoogleIds, IPs,
  Requests,        \* handler invocations; each identifier is used once
  OldTokens,       \* token pairs issued earlier
  InitialAccounts, \* what the User table may hold at the start
  AskedRoles,      \* `role` in the body of a registration
  Menus,           \* bound: sets of operations and events that occur together
  Regimes          \* what `serial` may be

None == "none"

UserRoles == {"ADMIN", "MANAGER", "PLAYER", "VIEWER"}

\* A secret and a reset token are named by the request that made them.
Account == [password : Passwords \cup {None}, role : UserRoles,
            active : BOOLEAN, reset : Requests \cup {None},
            secret : Requests \cup {None}, twoFactor : BOOLEAN]
NewAccount(password, role) ==
  [password |-> password, role |-> role, active |-> TRUE, reset |-> None,
   secret |-> None, twoFactor |-> FALSE]
NoAccount == [NewAccount(None, "nobody") EXCEPT !.active = FALSE]

Operations == {"register", "google", "forgot", "reset", "change", "status",
               "generate", "turnOn", "login", "refresh", "logout"}

\* What may happen besides: entries expire, the process is restarted.
Events == {"resetExpires", "tokenExpires", "counterExpires", "restart"}

ASSUME AccountsAssumption ==
  /\ InitialAccounts \subseteq [Emails -> Account \cup {NoAccount}]
  /\ \A table \in InitialAccounts, e \in Emails :
       /\ table[e].reset = None   \* no request has made one yet
       /\ table[e].twoFactor => table[e].secret # None
  /\ Requests \cap OldTokens = {} /\ None \notin Emails \cup Requests \cup OldTokens
  /\ Emails \cap IPs = {}       \* their cache keys have different prefixes
  /\ IsFiniteSet(Requests)
  /\ Menus \subseteq SUBSET (Operations \cup Events)
  /\ Regimes \subseteq BOOLEAN

VARIABLES
  account,  \* the User table by email
  oauth,    \* the OauthAccount table: the user of each Google account
  menu,     \* the operations and events of this behavior
  serial,   \* the callers' discipline: requests do not overlap.  Nothing in the
            \* code enforces it.
  pc,       \* where each handler is
  job       \* its parameters and what it has read

tables == <<account, oauth>>
fixed  == <<menu, serial>>

Ended  == {"done", "rejected", "failed"}
Labels == Ended \cup
  {"idle", "issue", "breach", "createUser", "findEmail", "link", "writeToken",
   "writePassword", "checkPassword", "changePassword", "findTarget", "setActive",
   "writeSecret", "verifyCode", "enable", "validate", "revalidate", "checkIp",
   "findUser", "countEmail", "countIp", "setEmail", "setIp", "lockEmail",
   "lockIp", "forgetEmail", "forgetIp", "findActive", "redeem", "blacklist",
   "revoke"}

Tokens == Requests \cup OldTokens
Job == [op : Operations \cup {None}, email : Emails \cup {None},
        old : Passwords \cup {None}, password : Passwords \cup {None},
        google : GoogleIds \cup {None}, role : AskedRoles \cup {None},
        ip : IPs \cup {None}, access : Tokens \cup {None},
        token : Tokens \cup {None}, target : Emails \cup {None},
        active : BOOLEAN, attempts : Nat, ipAttempts : Nat]
NoJob == [op |-> None, email |-> None, old |-> None, password |-> None,
          google |-> None, role |-> None, ip |-> None, access |-> None,
          token |-> None, target |-> None, active |-> FALSE,
          attempts |-> 0, ipAttempts |-> 0]

Active(r) == pc[r] \notin Ended \cup {"idle"}

AccountsInit ==
  /\ account \in InitialAccounts
  /\ oauth = [g \in GoogleIds |-> None]
  /\ menu \in Menus
  /\ serial \in Regimes
  /\ pc = [r \in Requests |-> "idle"]
  /\ job = [r \in Requests |-> NoJob]

Goto(r, label) == pc' = [pc EXCEPT ![r] = label]

\* A request arrives and runs to its first await.
Begin(r, j, label) ==
  /\ pc[r] = "idle"
  /\ j.op \in menu
  /\ serial => \A q \in Requests : ~Active(q)
  /\ job' = [job EXCEPT ![r] = j]
  /\ Goto(r, label)
  /\ UNCHANGED <<tables, fixed>>

\* A step that only reads.
Proceed(r, label) == Goto(r, label) /\ UNCHANGED <<tables, fixed, job>>

\* A step that writes one row of User.
WriteAccount(r, e, row, label) ==
  /\ account' = [account EXCEPT ![e] = row]
  /\ Goto(r, label)
  /\ UNCHANGED <<oauth, fixed, job>>

-----------------------------------------------------------------------------
(* Registration and Google sign-in. *)

\* roleMap of register and of validateOAuthUser.
RoleMap == [player |-> "PLAYER", manager |-> "MANAGER"]
\* Mutant of AssignedRole: the role asked for is the role given.
AssignedRoleAsked(asked) == asked

AssignedRole(asked) ==
  IF asked \in DOMAIN RoleMap THEN RoleMap[asked] ELSE "PLAYER"

BeginRegister(r, e, p, asked) ==
  Begin(r, [NoJob EXCEPT !.op = "register", !.email = e, !.password = p,
                         !.role = asked],
        IF account[e] # NoAccount THEN "rejected" ELSE "breach")

\* isPasswordPwned may say so, say no, or fail and be taken for a no.
CheckBreach(r) ==
  /\ pc[r] = "breach"
  /\ \/ Proceed(r, "rejected")
     \/ Proceed(r, IF job[r].op = "register" THEN "createUser" ELSE "writePassword")

\* user.create; the unique key on email catches a second one.
CreateUser(r) ==
  LET j == job[r] IN
  /\ pc[r] = "createUser"
  /\ IF account[j.email] # NoAccount THEN Proceed(r, "rejected")
     ELSE WriteAccount(r, j.email, NewAccount(j.password, AssignedRole(j.role)),
                       IF j.op = "google" THEN "link" ELSE "issue")

\* Google has confirmed the token and the profile has this email, which need
\* not be the email of the account linked earlier.
BeginGoogle(r, g, e, asked) ==
  LET known == oauth[g] IN
  Begin(r, [NoJob EXCEPT !.op = "google", !.google = g, !.role = asked,
                         !.email = IF known = None THEN e ELSE known],
        IF known = None THEN "findEmail"
        ELSE IF account[known].active /\ asked = None THEN "issue"
        ELSE "rejected")

\* An account with that email is linked as it is; a new one needs a known role.
FindEmail(r) ==
  LET j == job[r] IN
  /\ pc[r] = "findEmail"
  /\ Proceed(r, IF account[j.email] # NoAccount
                  THEN IF j.role = None THEN "link" ELSE "rejected"
                  ELSE IF j.role \in DOMAIN RoleMap THEN "createUser" ELSE "rejected")

\* Mutant of Linkable: a second link does not stop the handler.
LinkableAgain(g) == TRUE

\* The unique key on provider and providerAccountId.
Linkable(g) == oauth[g] = None

\* oauthAccount.create.  If it fails, a user created before it stays.
Link(r) ==
  LET j == job[r] IN
  /\ pc[r] = "link"
  /\ IF Linkable(j.google)
       THEN /\ oauth' = [oauth EXCEPT ![j.google] = IF @ = None THEN j.email ELSE @]
            /\ Goto(r, "issue")
            /\ UNCHANGED <<account, fixed, job>>
       ELSE Proceed(r, "rejected")

-----------------------------------------------------------------------------
(* Passwords. *)

\* forgotPassword: no account or a deactivated one gets the same answer.
BeginForgot(r, e) ==
  Begin(r, [NoJob EXCEPT !.op = "forgot", !.email = e],
        IF account[e].active THEN "writeToken" ELSE "done")

\* The token is written, then mailed; a new one replaces the old one.
WriteResetToken(r) ==
  /\ pc[r] = "writeToken"
  /\ WriteAccount(r, job[r].email, [account[job[r].email] EXCEPT !.reset = r], "done")

\* resetPassword: findFirst by an unexpired token.
BeginReset(r, t, p) ==
  LET found == {e \in Emails : account[e].reset = t} IN
  Begin(r, [NoJob EXCEPT !.op = "reset", !.token = t, !.password = p,
              !.email = IF found = {} THEN None ELSE CHOOSE e \in found : TRUE],
        IF found = {} THEN "rejected" ELSE "breach")

\* Mutant of AfterReset: the token may be used again.
AfterResetKept(row, p) == [row EXCEPT !.password = p]

AfterReset(row, p) == [row EXCEPT !.password = p, !.reset = None]

WritePassword(r) ==
  LET j == job[r] IN
  /\ pc[r] = "writePassword"
  /\ WriteAccount(r, j.email, AfterReset(account[j.email], j.password), "done")

\* One hour later: the row keeps the token, but no query finds it any more.
ExpireReset(e) ==
  /\ account[e].reset # None
  /\ account' = [account EXCEPT ![e].reset = None]
  /\ UNCHANGED <<oauth, fixed, pc, job>>

\* changePassword: a user without a password has none to confirm.
CheckPassword(r) ==
  /\ pc[r] = "checkPassword"
  /\ Proceed(r, IF account[job[r].email].password = job[r].old
                  THEN "changePassword" ELSE "rejected")

ChangePassword(r) ==
  LET e == job[r].email IN
  /\ pc[r] = "changePassword"
  /\ WriteAccount(r, e, [account[e] EXCEPT !.password = job[r].password], "done")

-----------------------------------------------------------------------------
(* Two-factor set-up and deactivation. *)

\* generateTwoFactorSecret: any earlier secret is overwritten, enabled or not.
GenerateSecret(r) ==
  LET e == job[r].email IN
  /\ pc[r] = "writeSecret"
  /\ WriteAccount(r, e, [account[e] EXCEPT !.secret = r], "done")

\* Mutant of CodeValid: no secret, nothing to verify.
CodeValidUnset(e, code) == account[e].secret = None \/ account[e].secret = code

\* speakeasy.totp.verify: the code was computed from the stored secret.
CodeValid(e, code) == account[e].secret # None /\ account[e].secret = code

\* turnOnTwoFactorAuthentication with a code of the secret named by the token.
VerifyCode(r) ==
  /\ pc[r] = "verifyCode"
  /\ Proceed(r, IF CodeValid(job[r].email, job[r].token) THEN "enable" ELSE "rejected")

Enable(r) ==
  LET e == job[r].email IN
  /\ pc[r] = "enable"
  /\ WriteAccount(r, e, [account[e] EXCEPT !.twoFactor = TRUE], "done")

\* updateStatus of a user, by an administrator.
FindTarget(r) ==
  /\ pc[r] = "findTarget"
  /\ Proceed(r, IF account[job[r].target] = NoAccount THEN "rejected" ELSE "setActive")

SetActive(r) ==
  LET e == job[r].target IN
  /\ pc[r] = "setActive"
  /\ WriteAccount(r, e, [account[e] EXCEPT !.active = job[r].active], "done")

-----------------------------------------------------------------------------
\* What earlier requests of this operation left behind: links in mails, codes.
MadeBy(op) == {q \in Requests : job[q].op = op /\ pc[q] = "done"}

\* The public endpoints of auth.controller.ts that end here.
AccountsArrive(r) ==
  \/ \E e \in Emails, p \in Passwords, asked \in AskedRoles :
       BeginRegister(r, e, p, asked)
  \/ \E g \in GoogleIds, e \in Emails, asked \in AskedRoles \cup {None} :
       BeginGoogle(r, g, e, asked)
  \/ \E e \in Emails : BeginForgot(r, e)
  \/ \E t \in MadeBy("forgot"), p \in Passwords : BeginReset(r, t, p)

AccountsStep(r) ==
  \/ CheckBreach(r)
  \/ CreateUser(r)
  \/ FindEmail(r)
  \/ Link(r)
  \/ WriteResetToken(r)
  \/ WritePassword(r)
  \/ CheckPassword(r)
  \/ ChangePassword(r)
  \/ GenerateSecret(r)
  \/ VerifyCode(r)
  \/ Enable(r)
  \/ FindTarget(r)
  \/ SetActive(r)

AccountsTypeOK ==
  /\ account \in [Emails -> Account \cup {NoAccount}]
  /\ oauth \in [GoogleIds -> Emails \cup {None}]
  /\ menu \in Menus
  /\ serial \in BOOLEAN
  /\ pc \in [Requests -> Labels]
  /\ job \in [Requests -> Job]
=============================================================================
