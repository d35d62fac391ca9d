------------------------------ MODULE Sessions ------------------------------
(***************************************************************************)
(* Sign-in, refresh and logout over Accounts, with what they keep in the   *)
(* cache: refresh tokens, counters of failed logins, locks                 *)
(* (modules/auth/auth.service.ts), and the guard every other endpoint      *)
(* passes (strategies/jwt.strategy.ts, common/guards).  Entries of the     *)
(* cache expire; the process may be restarted.                             *)
(***************************************************************************)
EXTENDS Accounts

CONSTANTS
  OwnerOf,      \* whose the OldTokens are
  Max,          \* failed logins that lock: 5 for an email, 20 for an address
  MaxEvents     \* bound: expiries and restarts of the process, together

Keys == Emails \cup IPs

ASSUME SessionsAssumption ==
  /\ OwnerOf \in [OldTokens -> Emails]
  /\ Max \in [Keys -> Nat \ {0}]
  /\ MaxEvents \in Nat

VARIABLES
  holder,    \* whose each token pair is
  access,    \* access tokens that have not expired
  refresh,   \* cache refresh:<token>: the user, or None
  blacklist, \* cache blacklist:<token>; nothing in src reads it
  attempts,  \* cache login_attempts:<email>, login_attempts_ip:<ip>
  locked,    \* cache account_locked:<email>, ip_locked:<ip>
  wrong,     \* history: failed logins since a successful one or an expiry
  events     \* expiries and restarts so far

counters == <<attempts, locked, wrong>>
tokens   == <<holder, access, refresh, blacklist>>
vars     == <<tables, fixed, pc, job, tokens, counters, events>>

Init ==
  LET valid == {t \in OldTokens : account[OwnerOf[t]] # NoAccount} IN
  /\ AccountsInit
  /\ holder = [t \in Tokens |-> IF t \in valid THEN OwnerOf[t] ELSE None]
  /\ access = valid
  /\ refresh = holder
  /\ blacklist = {}
  /\ attempts = [k \in Keys |-> 0]
  /\ locked = {}
  /\ wrong = [k \in Keys |-> 0]
  /\ events = 0

\* generateTokenPair: a signed access token, and a refresh token in the cache.
IssueTokens(r) ==
  LET e == job[r].email IN
  /\ pc[r] = "issue"
  /\ holder' = [holder EXCEPT ![r] = e]
  /\ access' = access \cup {r}
  /\ refresh' = [refresh EXCEPT ![r] = e]
  /\ Goto(r, "done")
  /\ UNCHANGED <<tables, fixed, job, blacklist, counters, events>>

-----------------------------------------------------------------------------
(* Login and lockout. *)

BeginLogin(r, e, p, ip, code) ==
  /\ Begin(r, [NoJob EXCEPT !.op = "login", !.email = e, !.password = p,
                            !.ip = ip, !.token = code],
           IF e \in locked THEN "rejected" ELSE "checkIp")
  /\ UNCHANGED <<tokens, counters, events>>

CheckIp(r) ==
  /\ pc[r] = "checkIp"
  /\ Proceed(r, IF job[r].ip \in locked THEN "rejected" ELSE "findUser")
  /\ UNCHANGED <<tokens, counters, events>>

\* A wrong password is counted; a wrong or missing code is not.
FindUser(r) ==
  LET j == job[r]
      user == account[j.email]
      passed == user.active /\ user.password # None /\ user.password = j.password
      confirmed == user.twoFactor => CodeValid(j.email, j.token)
  IN
  /\ pc[r] = "findUser"
  /\ Proceed(r, IF ~passed THEN "countEmail"
                ELSE IF confirmed THEN "forgetEmail" ELSE "rejected")
  /\ UNCHANGED <<tokens, counters, events>>

\* A successful login forgets the failures, of the email and of the address.
Forget(r, label, k, next) ==
  /\ pc[r] = label
  /\ Goto(r, next)
  /\ attempts' = [attempts EXCEPT ![k] = 0]
  /\ wrong' = [wrong EXCEPT ![k] = 0]
  /\ UNCHANGED <<tables, fixed, job, tokens, locked, events>>

ForgetEmail(r) == Forget(r, "forgetEmail", job[r].email, "forgetIp")
ForgetIp(r)    == Forget(r, "forgetIp", job[r].ip, "issue")

\* Mutant of AfterFailure: a failure counts twice.
AfterFailureTwice(n) == n + 2

AfterFailure(n) == n + 1

\* recordFailedLogin reads both counters, then writes both.
Count(r, label, k, newJob, next) ==
  /\ pc[r] = label
  /\ job' = [job EXCEPT ![r] = newJob]
  /\ wrong' = [wrong EXCEPT ![k] = @ + 1]
  /\ Goto(r, next)
  /\ UNCHANGED <<tables, fixed, tokens, attempts, locked, events>>

CountEmail(r) ==
  LET j == job[r] IN
  Count(r, "countEmail", j.email,
        [j EXCEPT !.attempts = AfterFailure(attempts[j.email])], "countIp")
CountIp(r) ==
  LET j == job[r] IN
  Count(r, "countIp", j.ip,
        [j EXCEPT !.ipAttempts = AfterFailure(attempts[j.ip])], "setEmail")

SetCounter(r, label, k, n, next) ==
  /\ pc[r] = label
  /\ attempts' = [attempts EXCEPT ![k] = n]
  /\ Goto(r, next)
  /\ UNCHANGED <<tables, fixed, job, tokens, locked, wrong, events>>

\* Mutant of Reached: one failure more.
ReachedLate(k, n) == n > Max[k]

Reached(k, n) == n >= Max[k]

SetEmail(r) ==
  SetCounter(r, "setEmail", job[r].email, job[r].attempts, "setIp")
SetIp(r) ==
  LET j == job[r] IN
  SetCounter(r, "setIp", j.ip, j.ipAttempts,
             IF Reached(j.email, j.attempts) THEN "lockEmail"
             ELSE IF Reached(j.ip, j.ipAttempts) THEN "lockIp" ELSE "rejected")

Lock(r, label, k, next) ==
  /\ pc[r] = label
  /\ locked' = locked \cup {k}
  /\ Goto(r, next)
  /\ UNCHANGED <<tables, fixed, job, tokens, attempts, wrong, events>>

LockEmail(r) ==
  Lock(r, "lockEmail", job[r].email,
       IF Reached(job[r].ip, job[r].ipAttempts) THEN "lockIp" ELSE "rejected")
LockIp(r) == Lock(r, "lockIp", job[r].ip, "rejected")

-----------------------------------------------------------------------------
(* Refresh, and the endpoints that need an access token. *)

BeginRefresh(r, t) ==
  /\ Begin(r, [NoJob EXCEPT !.op = "refresh", !.token = t, !.email = refresh[t]],
           IF refresh[t] = None THEN "rejected" ELSE "findActive")
  /\ UNCHANGED <<tokens, counters, events>>

FindActive(r) ==
  /\ pc[r] = "findActive"
  /\ Proceed(r, IF account[job[r].email].active THEN "redeem" ELSE "rejected")
  /\ UNCHANGED <<tokens, counters, events>>

\* Mutant of Without: the token stays in the cache.
WithoutNothing(t) == refresh

Without(t) == [refresh EXCEPT ![t] = None]

\* cacheManager.del of a refresh token.
Drop(r, label, next) ==
  /\ pc[r] = label
  /\ refresh' = Without(job[r].token)
  /\ Goto(r, next)
  /\ UNCHANGED <<tables, fixed, job, holder, access, blacklist, counters, events>>

Redeem(r) == Drop(r, "redeem", "issue")

\* A request with an unexpired access token; without one JwtAuthGuard refuses.
BeginWithToken(r, t, j) ==
  /\ t \in access
  /\ Begin(r, [j EXCEPT !.access = t, !.email = holder[t]], "validate")
  /\ UNCHANGED <<tokens, counters, events>>

\* Where each handler starts once the guards have let the request in.
Entry == [change |-> "checkPassword", generate |-> "writeSecret",
          turnOn |-> "verifyCode", status |-> "findTarget", logout |-> "blacklist"]

\* JwtStrategy.validate, then RolesGuard with the role just read.
Admitted(j) ==
  /\ account[j.email].active
  /\ j.op = "status" => account[j.email].role = "ADMIN"

\* The two-factor endpoints name the guard again.
Validate(r) ==
  LET op == job[r].op IN
  /\ pc[r] \in {"validate", "revalidate"}
  /\ Proceed(r, IF ~Admitted(job[r]) THEN "rejected"
                ELSE IF pc[r] = "validate" /\ op \in {"generate", "turnOn"}
                  THEN "revalidate" ELSE Entry[op])
  /\ UNCHANGED <<tokens, counters, events>>

\* logout: the access token is noted until it expires, ...
Blacklist(r) ==
  LET j == job[r] IN
  /\ pc[r] = "blacklist"
  /\ blacklist' = blacklist \cup ({j.access} \cap access)
  /\ Goto(r, IF j.token = None THEN "done" ELSE "revoke")
  /\ UNCHANGED <<tables, fixed, job, holder, access, refresh, counters, events>>

\* ... and the refresh token of the cookie is deleted.
Revoke(r) == Drop(r, "revoke", "done")

-----------------------------------------------------------------------------
(* Time and restarts. *)

Event(kind) ==
  /\ kind \in menu
  /\ events < MaxEvents
  /\ events' = events + 1

ExpireAccess(t) ==
  /\ t \in access /\ Event("tokenExpires")
  /\ access' = access \ {t}
  /\ blacklist' = blacklist \ {t}
  /\ UNCHANGED <<tables, fixed, pc, job, holder, refresh, counters>>

ExpireRefresh(t) ==
  /\ refresh[t] # None /\ Event("tokenExpires")
  /\ refresh' = [refresh EXCEPT ![t] = None]
  /\ UNCHANGED <<tables, fixed, pc, job, holder, access, blacklist, counters>>

ExpireAttempts(k) ==
  /\ attempts[k] > 0 /\ Event("counterExpires")
  /\ attempts' = [attempts EXCEPT ![k] = 0]
  /\ wrong' = [wrong EXCEPT ![k] = 0]
  /\ UNCHANGED <<tables, fixed, pc, job, tokens, locked>>

\* A lock is set after its counter and for as long, so it expires later;
\* unless another failure was being counted meanwhile.
ExpireLock(k) ==
  /\ k \in locked /\ Event("counterExpires")
  /\ serial => attempts[k] = 0
  /\ locked' = locked \ {k}
  /\ UNCHANGED <<tables, fixed, pc, job, tokens, attempts, wrong>>

\* The process stops: its requests fail, and the cache is lost or kept.
Restart ==
  /\ Event("restart")
  /\ \E r \in Requests : pc[r] # "idle"
  /\ pc' = [r \in Requests |-> IF Active(r) THEN "failed" ELSE pc[r]]
  /\ \/ UNCHANGED <<refresh, blacklist, counters>>
     \/ /\ refresh' = [t \in Tokens |-> None]
        /\ blacklist' = {} /\ locked' = {}
        /\ attempts' = [k \in Keys |-> 0] /\ wrong' = [k \in Keys |-> 0]
  /\ UNCHANGED <<tables, fixed, job, holder, access>>

-----------------------------------------------------------------------------
\* The endpoints of auth.controller.ts; cookies are what the caller presents, and
\* logout does not ask whose its refresh cookie is.
AuthArrive(r) ==
  \/ AccountsArrive(r) /\ UNCHANGED <<tokens, counters, events>>
  \/ \E e \in Emails, p \in Passwords, ip \in IPs, code \in MadeBy("generate") \cup {None} :
       BeginLogin(r, e, p, ip, code)
  \/ \E t \in Tokens : holder[t] # None /\ BeginRefresh(r, t)
  \/ \E t \in Tokens : BeginWithToken(r, t, [NoJob EXCEPT !.op = "generate"])
  \/ \E t \in Tokens, code \in MadeBy("generate") \cup {None} :
       BeginWithToken(r, t, [NoJob EXCEPT !.op = "turnOn", !.token = code])
  \/ \E t \in Tokens, cookie \in Tokens \cup {None} :
       /\ cookie # None => holder[cookie] # None
       /\ BeginWithToken(r, t, [NoJob EXCEPT !.op = "logout", !.token = cookie])

\* The endpoints of user.controller.ts that write what the model holds.
UserArrive(r) ==
  \/ \E t \in Tokens, old \in Passwords, p \in Passwords :
       BeginWithToken(r, t, [NoJob EXCEPT !.op = "change", !.old = old, !.password = p])
  \/ \E t \in Tokens, e \in Emails, active \in BOOLEAN :
       BeginWithToken(r, t, [NoJob EXCEPT !.op = "status", !.target = e, !.active = active])

SessionsStep(r) ==
  \/ IssueTokens(r)
  \/ CheckIp(r)
  \/ FindUser(r)
  \/ ForgetEmail(r)
  \/ ForgetIp(r)
  \/ CountEmail(r)
  \/ CountIp(r)
  \/ SetEmail(r)
  \/ SetIp(r)
  \/ LockEmail(r)
  \/ LockIp(r)
  \/ FindActive(r)
  \/ Redeem(r)
  \/ Validate(r)
  \/ Blacklist(r)
  \/ Revoke(r)

Expire ==
  \/ \E e \in Emails : ExpireReset(e) /\ Event("resetExpires") /\ UNCHANGED <<tokens, counters>>
  \/ \E t \in Tokens : ExpireAccess(t) \/ ExpireRefresh(t)
  \/ \E k \in Keys : ExpireAttempts(k) \/ ExpireLock(k)

\* Every request has been answered.
Terminated == (\A r \in Requests : pc[r] \in Ended) /\ UNCHANGED vars

Next ==
  \/ \E r \in Requests : AuthArrive(r) \/ UserArrive(r) \/ SessionsStep(r)
  \/ \E r \in Requests : AccountsStep(r) /\ UNCHANGED <<tokens, counters, events>>
  \/ Expire
  \/ Restart
  \/ Terminated

Spec == Init /\ [][Next]_vars

-----------------------------------------------------------------------------
(* Properties *)

\* Every variable stays within its type: accounts have a role the schema
\* knows, tokens belong to users.
TypeOK ==
  /\ AccountsTypeOK
  /\ holder \in [Tokens -> Emails \cup {None}]
  /\ access \subseteq Tokens
  /\ refresh \in [Tokens -> Emails \cup {None}]
  /\ blacklist \subseteq access
  /\ attempts \in [Keys -> Nat] /\ wrong \in [Keys -> Nat]
  /\ locked \subseteq Keys
  /\ events \in 0..MaxEvents

\* Logins for an email or from an address that were counted as failed.
Failures(k) == {r \in Requests : k \in {job[r].email, job[r].ip} /\ job[r].attempts > 0}

\* With one request at a time, all carried through, no failure goes uncounted:
\* the counter of an email or an address is at least the failures since the
\* last success or expiry, and at the maximum it is locked.
FailuresCounted ==
  (serial /\ \A r \in Requests : ~Active(r) /\ pc[r] # "failed") =>
    \A k \in Keys : /\ wrong[k] <= attempts[k]
                    /\ wrong[k] >= Max[k] => k \in locked

\* However logins overlap, whatever expires or is lost in a restart: an email
\* or an address is locked only after Max failed logins of its own.
LockEarned == \A k \in locked : Cardinality(Failures(k)) >= Max[k]

\* A refresh token that a request has redeemed, or a logout has revoked, is
\* refused from then on, however requests overlap and even after a restart.
TokenSpentOnce ==
  [][\A r, q \in Requests :
       (/\ pc[r] = "idle" /\ job'[r].op = "refresh" /\ pc'[r] = "findActive"
        /\ job[q].token = job'[r].token /\ job[q].op \in {"refresh", "logout"}
        /\ q # r)
       => pc[q] # "done" /\ ~(job[q].op = "refresh" /\ pc[q] = "issue")]_vars

\* With one request at a time, a reset token sets one password: the token the
\* handler writes with is the latest of the account (or has expired since) and
\* no earlier request has used it.
ResetCurrent ==
  [][\A r \in Requests :
       (serial /\ job[r].op = "reset" /\ pc[r] = "writePassword" /\ pc'[r] = "done") =>
         /\ account[job[r].email].reset \in {job[r].token, None}
         /\ \A q \in Requests : job[q].op = "reset" /\ job[q].token = job[r].token
                                => pc[q] # "done"]_vars

\* A user whose second factor is on has a secret to verify it with: login
\* decrypts it unasked.
TwoFactorUsable == \A e \in Emails : account[e].twoFactor => account[e].secret # None

\* However sign-ins of one Google account overlap, they end in one user: a
\* token pair is issued for the user the Google account is linked to.
GoogleLinked ==
  \A r \in Requests :
    (job[r].op = "google" /\ pc[r] \in {"issue", "done"}) => oauth[job[r].google] = job[r].email
=============================================================================
