--------------------------- MODULE Sessions_proofs ---------------------------
(***************************************************************************)
(* Theorems about accounts, tokens, the lockout and two-factor sign-in,    *)
(* for any users, addresses, passwords, requests and limits, whatever      *)
(* expires and wherever the process is restarted.                          *)
(***************************************************************************)
EXTENDS Sessions, FiniteSetTheorems, TLAPS

-----------------------------------------------------------------------------
(* Type correctness. *)

\* There is such a user.
Known(e) == e \in Emails /\ account[e] \in Account

Guarded == {"change", "generate", "turnOn", "status", "logout"}

LoginLabels == {"checkIp", "findUser", "countEmail", "countIp", "setEmail", "setIp",
                "lockEmail", "lockIp", "forgetEmail", "forgetIp"}

\* The labels at which a user need not exist.
Unknown(label, op) ==
  \/ label \in {"createUser", "findEmail"}
  \/ label = "breach" /\ op = "register"
  \/ label \in LoginLabels \ {"forgetEmail", "forgetIp"}

\* Which handler a label belongs to.
OpAt(label, op) ==
  /\ label \in {"findEmail", "link"} => op = "google"
  /\ label = "createUser" => op \in {"register", "google"}
  /\ label = "issue" => op \in {"register", "google", "login", "refresh"}
  /\ label = "breach" => op \in {"register", "reset"}
  /\ label = "writeToken" => op = "forgot"
  /\ label = "writePassword" => op = "reset"
  /\ label \in {"checkPassword", "changePassword"} => op = "change"
  /\ label \in {"findTarget", "setActive"} => op = "status"
  /\ label = "writeSecret" => op = "generate"
  /\ label \in {"verifyCode", "enable"} => op = "turnOn"
  /\ label \in {"validate", "revalidate"} => op \in Guarded
  /\ label \in LoginLabels => op = "login"
  /\ label \in {"findActive", "redeem"} => op = "refresh"
  /\ label \in {"blacklist", "revoke"} => op = "logout"

\* What the locals of a handler are, by its label.
Fits(label, j) ==
  label \notin Ended \cup {"idle"} =>
    /\ OpAt(label, j.op)
    /\ j.email \in Emails
    /\ Unknown(label, j.op) \/ Known(j.email)
    /\ j.op = "google" => j.google \in GoogleIds
    /\ j.op = "login" => j.ip \in IPs
    /\ j.op = "status" => j.target \in Emails
    /\ label = "setActive" => Known(j.target)
    /\ j.op = "refresh" \/ label = "revoke" => j.token \in Tokens
    /\ j.op \in {"change", "reset"} => j.password \in Passwords

\* Whatever names a user names one that exists.
Owned ==
  /\ \A g \in GoogleIds : oauth[g] # None => Known(oauth[g])
  /\ \A t \in Tokens : holder[t] # None => Known(holder[t])
  /\ \A t \in Tokens : refresh[t] # None => Known(refresh[t])
  /\ \A t \in access : holder[t] # None

TypeInv == TypeOK /\ Owned /\ \A r \in Requests : Fits(pc[r], job[r])

LEMMA AccountTypes ==
  /\ NoAccount \notin Account /\ NoAccount.active = FALSE /\ NoAccount.reset = None
  /\ NoAccount.twoFactor = FALSE
  /\ \A p \in Passwords \cup {None}, role \in UserRoles :
       /\ NewAccount(p, role) \in Account
       /\ NewAccount(p, role).reset = None /\ NewAccount(p, role).twoFactor = FALSE
  /\ \A asked : AssignedRole(asked) \in UserRoles
<1>1. DOMAIN RoleMap = {"player", "manager"} /\ RoleMap["player"] = "PLAYER"
      /\ RoleMap["manager"] = "MANAGER"
  BY DEF RoleMap
<1>2. \A asked : AssignedRole(asked) \in UserRoles
  BY <1>1 DEF AssignedRole, UserRoles
<1>3. /\ NoAccount.role = "nobody" /\ NoAccount.active = FALSE
      /\ NoAccount.reset = None /\ NoAccount.twoFactor = FALSE
  <2> DEFINE row == NewAccount(None, "nobody")
  <2>1. /\ row.role = "nobody" /\ row.reset = None /\ row.twoFactor = FALSE
        /\ DOMAIN row = {"password", "role", "active", "reset", "secret", "twoFactor"}
    BY DEF NewAccount
  <2> HIDE DEF row
  <2>2. NoAccount = [row EXCEPT !.active = FALSE]
    BY DEF NoAccount, row
  <2>3. QED
    BY <2>1, <2>2
<1>4. NoAccount \notin Account /\ NoAccount.active = FALSE /\ NoAccount.reset = None
      /\ NoAccount.twoFactor = FALSE
  <2>1. "nobody" \notin UserRoles
    BY DEF UserRoles
  <2>2. \A row \in Account : row.role \in UserRoles
    BY DEF Account
  <2>3. QED
    BY <1>3, <2>1, <2>2
<1>5. ASSUME NEW p \in Passwords \cup {None}, NEW role \in UserRoles
      PROVE  /\ NewAccount(p, role) \in Account
             /\ NewAccount(p, role).reset = None /\ NewAccount(p, role).twoFactor = FALSE
  BY DEF NewAccount, Account
<1>6. QED
  BY <1>2, <1>4, <1>5

\* What is kept of users, tokens and counters.
StoreOK ==
  /\ account \in [Emails -> Account \cup {NoAccount}]
  /\ oauth \in [GoogleIds -> Emails \cup {None}]
  /\ menu \in Menus
  /\ serial \in BOOLEAN
  /\ holder \in [Tokens -> Emails \cup {None}]
  /\ access \subseteq Tokens
  /\ refresh \in [Tokens -> Emails \cup {None}]
  /\ blacklist \subseteq access
  /\ attempts \in [Keys -> Nat] /\ wrong \in [Keys -> Nat]
  /\ locked \subseteq Keys
  /\ events \in 0..MaxEvents
  /\ Owned

\* Where the handlers are, and with what.
HandlersOK ==
  /\ pc \in [Requests -> Labels]
  /\ job \in [Requests -> Job]
  /\ \A r \in Requests : Fits(pc[r], job[r])

LEMMA TwoParts == TypeInv <=> StoreOK /\ HandlersOK
BY DEF TypeInv, TypeOK, AccountsTypeOK, StoreOK, HandlersOK

\* No user disappears.
Growing == \A e \in Emails : account[e] \in Account => account'[e] \in Account

LEMMA StaysFit ==
  ASSUME Growing, NEW label, NEW j, Fits(label, j)
  PROVE  Fits(label, j)'
BY DEF Growing, Fits, Known

\* One handler moves on.
LEMMA MoveOn ==
  ASSUME HandlersOK, Growing, NEW r \in Requests, NEW label \in Labels, NEW j \in Job,
         Goto(r, label), job' = [job EXCEPT ![r] = j], Fits(label, j)'
  PROVE  HandlersOK'
<1>1. pc' \in [Requests -> Labels] /\ job' \in [Requests -> Job]
  BY DEF HandlersOK, Goto
<1>2. pc'[r] = label /\ job'[r] = j
  BY DEF HandlersOK, Goto
<1>3. ASSUME NEW q \in Requests PROVE Fits(pc[q], job[q])'
  <2>1. CASE q = r
    BY <1>2, <2>1 DEF Fits, Known
  <2>2. CASE q # r
    <3>1. pc'[q] = pc[q] /\ job'[q] = job[q]
      BY <2>2 DEF HandlersOK, Goto
    <3>2. Fits(pc[q], job[q])
      BY DEF HandlersOK
    <3>3. QED
      BY <3>1, <3>2 DEF Growing, Fits, Known
  <2>3. QED
    BY <2>1, <2>2
<1>4. QED
  BY <1>1, <1>3 DEF HandlersOK

\* A step that changes no job.
LEMMA MoveOnly ==
  ASSUME HandlersOK, Growing, NEW r \in Requests, NEW label \in Labels,
         Goto(r, label), UNCHANGED job, Fits(label, job[r])
  PROVE  HandlersOK'
<1>1. PICK j \in Job : j = job[r]
  BY DEF HandlersOK
<1>2. job' = [job EXCEPT ![r] = j]
  BY <1>1 DEF HandlersOK
<1>3. Fits(label, j)'
  BY <1>1, StaysFit
<1>4. QED
  BY <1>2, <1>3, MoveOn

LEMMA SameStore == ASSUME StoreOK, UNCHANGED <<tables, fixed, tokens, counters, events>>
                   PROVE  StoreOK' /\ Growing
BY DEF StoreOK, Owned, Known, tables, fixed, tokens, counters, Growing

\* What a handler does to the User table.
LEMMA WriteRow ==
  ASSUME StoreOK, NEW e \in Emails, NEW row \in Account,
         account' = [account EXCEPT ![e] = row],
         UNCHANGED <<oauth, fixed, tokens, counters, events>>
  PROVE  StoreOK' /\ Growing
BY DEF StoreOK, Owned, Known, fixed, tokens, counters, Growing
-----------------------------------------------------------------------------
\* What the first step of a handler establishes, by where it goes.
Arrived(label, j) ==
  /\ j.attempts = 0 /\ j.ipAttempts = 0
  /\ label \in {"rejected", "breach", "issue", "findEmail", "writeToken", "done",
                "checkIp", "findActive", "validate"}
  /\ label = "issue" => j.op = "google" /\ oauth[j.google] = j.email
  /\ label = "done" => j.op = "forgot"
  /\ label = "findActive" => j.op = "refresh" /\ refresh[j.token] # None
  /\ (j.op \in {"refresh", "logout"} /\ j.token # None)
       => j.token \in Tokens /\ holder[j.token] # None
  /\ j.op = "reset" => /\ j.token \in MadeBy("forgot")
                       /\ label \in {"breach", "rejected"}
                       /\ label = "breach" => account[j.email].reset = j.token

\* One request begins and nothing else happens.
Arrival(r) ==
  /\ pc[r] = "idle"
  /\ serial => \A q \in Requests : ~Active(q)
  /\ UNCHANGED <<tables, fixed, tokens, counters, events>>
  /\ \E label \in Labels :
       /\ Goto(r, label)
       /\ \E j \in Job : job' = [job EXCEPT ![r] = j] /\ Fits(label, j) /\ Arrived(label, j)

LEMMA BlankJob ==
  /\ NoJob \in Job /\ NoJob.op = None /\ NoJob.email = None /\ NoJob.token = None
  /\ NoJob.google = None /\ NoJob.ip = None /\ NoJob.target = None
  /\ NoJob.password = None /\ NoJob.attempts = 0 /\ NoJob.ipAttempts = 0
BY DEF NoJob, Job

LEMMA Starts ==
  ASSUME NEW r \in Requests, NEW j \in Job, NEW label \in Labels, Begin(r, j, label),
         UNCHANGED <<tokens, counters, events>>, Fits(label, j), Arrived(label, j)
  PROVE  Arrival(r)
BY DEF Begin, Arrival

LEMMA RegisterArrives ==
  ASSUME StoreOK, NEW r \in Requests, NEW e \in Emails, NEW p \in Passwords,
         NEW asked \in AskedRoles, BeginRegister(r, e, p, asked),
         UNCHANGED <<tokens, counters, events>>
  PROVE  Arrival(r)
<1> DEFINE j == [NoJob EXCEPT !.op = "register", !.email = e, !.password = p, !.role = asked]
<1>1. j \in Job /\ j.op = "register" /\ j.email = e /\ j.attempts = 0 /\ j.ipAttempts = 0
  BY DEF NoJob, Job, Operations
<1>2. Begin(r, j, IF account[e] # NoAccount THEN "rejected" ELSE "breach")
  BY DEF BeginRegister
<1> HIDE DEF j
<1>3. ASSUME NEW label \in {"rejected", "breach"} PROVE Fits(label, j) /\ Arrived(label, j)
  BY <1>1, <1>3 DEF Fits, Arrived, OpAt, Unknown, LoginLabels, Ended
<1>4. "rejected" \in Labels /\ "breach" \in Labels
  BY DEF Labels, Ended
<1>5. QED
  BY <1>1, <1>2, <1>3, <1>4, Starts

LEMMA GoogleArrives ==
  ASSUME StoreOK, NEW r \in Requests, NEW g \in GoogleIds, NEW e \in Emails,
         NEW asked \in AskedRoles \cup {None}, BeginGoogle(r, g, e, asked),
         UNCHANGED <<tokens, counters, events>>
  PROVE  Arrival(r)
<1> DEFINE known == oauth[g]
           mail == IF known = None THEN e ELSE known
           label == IF known = None THEN "findEmail"
                    ELSE IF account[known].active /\ asked = None THEN "issue" ELSE "rejected"
           j == [NoJob EXCEPT !.op = "google", !.google = g, !.role = asked, !.email = mail]
<1>1. mail \in Emails /\ (known # None => Known(known) /\ mail = known)
  BY DEF StoreOK, Owned, Known
<1>2. j \in Job /\ j.op = "google" /\ j.google = g /\ j.email = mail
      /\ j.attempts = 0 /\ j.ipAttempts = 0
  BY <1>1 DEF NoJob, Job, Operations
<1>3. Begin(r, j, label)
  BY DEF BeginGoogle
<1>4. label \in {"findEmail", "issue", "rejected"} /\ (label = "issue" => known # None)
      /\ label \in Labels
  BY DEF Labels, Ended
<1> HIDE DEF j, label, mail
<1>5. Fits(label, j)
  BY <1>1, <1>2, <1>4 DEF Fits, OpAt, Unknown, LoginLabels, Ended, Guarded
<1>6. Arrived(label, j)
  BY <1>1, <1>2, <1>4 DEF Arrived
<1>7. QED
  BY <1>2, <1>3, <1>4, <1>5, <1>6, Starts

LEMMA ForgotArrives ==
  ASSUME StoreOK, NEW r \in Requests, NEW e \in Emails, BeginForgot(r, e),
         UNCHANGED <<tokens, counters, events>>
  PROVE  Arrival(r)
<1> DEFINE j == [NoJob EXCEPT !.op = "forgot", !.email = e]
           label == IF account[e].active THEN "writeToken" ELSE "done"
<1>1. j \in Job /\ j.op = "forgot" /\ j.email = e /\ j.attempts = 0 /\ j.ipAttempts = 0
  BY DEF NoJob, Job, Operations
<1>2. Begin(r, j, label)
  BY DEF BeginForgot
<1>3. label \in {"writeToken", "done"} /\ label \in Labels
  BY DEF Labels, Ended
<1>4. label = "writeToken" => Known(e)
  BY AccountTypes DEF StoreOK, Known
<1> HIDE DEF j, label
<1>5. Fits(label, j)
  BY <1>1, <1>3, <1>4 DEF Fits, OpAt, Unknown, LoginLabels, Ended, Guarded
<1>6. Arrived(label, j)
  BY <1>1, <1>3 DEF Arrived
<1>7. QED
  BY <1>1, <1>2, <1>3, <1>5, <1>6, Starts

LEMMA ResetArrives ==
  ASSUME StoreOK, NEW r \in Requests, NEW t \in MadeBy("forgot"), NEW p \in Passwords,
         BeginReset(r, t, p), UNCHANGED <<tokens, counters, events>>
  PROVE  Arrival(r)
<1> DEFINE found == {e \in Emails : account[e].reset = t}
           mail == IF found = {} THEN None ELSE CHOOSE e \in found : TRUE
           label == IF found = {} THEN "rejected" ELSE "breach"
           j == [NoJob EXCEPT !.op = "reset", !.token = t, !.password = p, !.email = mail]
<1>1. found # {} => mail \in Emails /\ account[mail].reset = t
  OBVIOUS
<1>2. t \in Requests /\ t # None
  BY AccountsAssumption DEF MadeBy
<1>3. mail \in Emails \cup {None}
  OBVIOUS
<1>4. j \in Job /\ j.op = "reset" /\ j.email = mail /\ j.token = t /\ j.password = p
      /\ j.attempts = 0 /\ j.ipAttempts = 0
  <2> HIDE DEF mail
  <2> QED
    BY <1>2, <1>3 DEF NoJob, Job, Operations, Tokens
<1>5. Begin(r, j, label)
  BY DEF BeginReset
<1>6. label \in {"rejected", "breach"} /\ (label = "breach" => found # {}) /\ label \in Labels
  BY DEF Labels, Ended
<1>7. found # {} => Known(mail)
  <2> HIDE DEF mail
  <2> QED
    BY <1>1, <1>2, AccountTypes DEF StoreOK, Known
<1> HIDE DEF j, label, mail, found
<1>8. Fits(label, j)
  BY <1>2, <1>4, <1>6, <1>7, <1>1 DEF Fits, OpAt, Unknown, LoginLabels, Ended, Guarded, Tokens
<1>9. Arrived(label, j)
  BY <1>1, <1>4, <1>6 DEF Arrived
<1>10. QED
  BY <1>4, <1>5, <1>6, <1>8, <1>9, Starts

LEMMA LoginArrives ==
  ASSUME StoreOK, NEW r \in Requests, NEW e \in Emails, NEW p \in Passwords, NEW ip \in IPs,
         NEW code \in MadeBy("generate") \cup {None}, BeginLogin(r, e, p, ip, code)
  PROVE  Arrival(r)
<1> DEFINE j == [NoJob EXCEPT !.op = "login", !.email = e, !.password = p, !.ip = ip,
                              !.token = code]
           label == IF e \in locked THEN "rejected" ELSE "checkIp"
<1>1. code \in Tokens \cup {None}
  BY DEF MadeBy, Tokens
<1>2. j \in Job /\ j.op = "login" /\ j.email = e /\ j.ip = ip /\ j.attempts = 0
      /\ j.ipAttempts = 0
  BY <1>1 DEF NoJob, Job, Operations
<1>3. Begin(r, j, label) /\ UNCHANGED <<tokens, counters, events>>
  BY DEF BeginLogin
<1>4. label \in {"rejected", "checkIp"} /\ label \in Labels
  BY DEF Labels, Ended
<1> HIDE DEF j, label
<1>5. Fits(label, j)
  BY <1>2, <1>4 DEF Fits, OpAt, Unknown, LoginLabels, Ended, Guarded
<1>6. Arrived(label, j)
  BY <1>2, <1>4 DEF Arrived
<1>7. QED
  BY <1>2, <1>3, <1>4, <1>5, <1>6, Starts

LEMMA RefreshArrives ==
  ASSUME StoreOK, NEW r \in Requests, NEW t \in Tokens, holder[t] # None, BeginRefresh(r, t)
  PROVE  Arrival(r)
<1> DEFINE mail == refresh[t]
           j == [NoJob EXCEPT !.op = "refresh", !.token = t, !.email = mail]
           label == IF mail = None THEN "rejected" ELSE "findActive"
<1>1. mail \in Emails \cup {None} /\ (mail # None => Known(mail))
  BY DEF StoreOK, Owned
<1>2. Begin(r, j, label) /\ UNCHANGED <<tokens, counters, events>>
  BY DEF BeginRefresh
<1>3. label \in {"rejected", "findActive"} /\ label \in Labels
      /\ (label = "findActive" => mail # None)
  BY DEF Labels, Ended
<1>4. mail = refresh[t]
  OBVIOUS
<1> HIDE DEF mail
<1>5. j \in Job /\ j.op = "refresh" /\ j.email = mail /\ j.token = t /\ j.attempts = 0
      /\ j.ipAttempts = 0
  BY <1>1 DEF NoJob, Job, Operations
<1> HIDE DEF j, label
<1>6. Fits(label, j)
  BY <1>1, <1>3, <1>5 DEF Fits, OpAt, Unknown, LoginLabels, Ended, Guarded, Known
<1>7. Arrived(label, j)
  BY <1>3, <1>4, <1>5 DEF Arrived
<1>8. QED
  BY <1>2, <1>3, <1>5, <1>6, <1>7, Starts

\* A request with an access token, whatever the handler.
LEMMA TokenArrives ==
  ASSUME StoreOK, NEW r \in Requests, NEW t \in Tokens, NEW j \in Job, j.op \in Guarded,
         j.attempts = 0, j.ipAttempts = 0, BeginWithToken(r, t, j),
         j.op = "status" => j.target \in Emails,
         j.op = "change" => j.password \in Passwords,
         (j.op = "logout" /\ j.token # None) => j.token \in Tokens /\ holder[j.token] # None
  PROVE  Arrival(r)
<1> DEFINE mail == holder[t]
           full == [j EXCEPT !.access = t, !.email = mail]
<1>1. mail \in Emails /\ Known(mail)
  BY DEF StoreOK, Owned, BeginWithToken, Known
<1>2. Begin(r, full, "validate") /\ UNCHANGED <<tokens, counters, events>>
  BY DEF BeginWithToken
<1>3. "validate" \in Labels
  BY DEF Labels
<1> HIDE DEF mail
<1>4. full \in Job /\ full.op = j.op /\ full.email = mail /\ full.token = j.token
      /\ full.attempts = 0 /\ full.ipAttempts = 0 /\ full.target = j.target
      /\ full.password = j.password
  <2> DEFINE half == [j EXCEPT !.access = t]
  <2>1. half \in Job /\ half.op = j.op /\ half.token = j.token /\ half.attempts = 0
        /\ half.ipAttempts = 0 /\ half.target = j.target /\ half.password = j.password
    BY DEF Job
  <2>2. full = [half EXCEPT !.email = mail]
    OBVIOUS
  <2> HIDE DEF full, half
  <2>3. QED
    BY <1>1, <2>1, <2>2 DEF Job
<1> HIDE DEF full
<1>5. Fits("validate", full)
  BY <1>1, <1>4 DEF Fits, OpAt, Unknown, LoginLabels, Ended, Guarded
<1>6. Arrived("validate", full)
  BY <1>4 DEF Arrived, Guarded
<1>7. QED
  BY <1>2, <1>3, <1>4, <1>5, <1>6, Starts

LEMMA GuardedArrive ==
  ASSUME StoreOK, NEW r \in Requests, NEW t \in Tokens,
         \/ BeginWithToken(r, t, [NoJob EXCEPT !.op = "generate"])
         \/ \E code \in MadeBy("generate") \cup {None} :
              BeginWithToken(r, t, [NoJob EXCEPT !.op = "turnOn", !.token = code])
         \/ \E cookie \in Tokens \cup {None} :
              /\ cookie # None => holder[cookie] # None
              /\ BeginWithToken(r, t, [NoJob EXCEPT !.op = "logout", !.token = cookie])
         \/ \E old \in Passwords, p \in Passwords :
              BeginWithToken(r, t, [NoJob EXCEPT !.op = "change", !.old = old, !.password = p])
         \/ \E e \in Emails, active \in BOOLEAN :
              BeginWithToken(r, t, [NoJob EXCEPT !.op = "status", !.target = e,
                                                 !.active = active])
  PROVE  Arrival(r)
<1>1. CASE BeginWithToken(r, t, [NoJob EXCEPT !.op = "generate"])
  <2> DEFINE j == [NoJob EXCEPT !.op = "generate"]
  <2>1. j \in Job /\ j.op = "generate" /\ j.attempts = 0 /\ j.ipAttempts = 0
    BY DEF NoJob, Job, Operations
  <2>2. BeginWithToken(r, t, j)
    BY <1>1
  <2> HIDE DEF j
  <2>3. QED
    BY <2>1, <2>2, TokenArrives DEF Guarded
<1>2. CASE \E code \in MadeBy("generate") \cup {None} :
             BeginWithToken(r, t, [NoJob EXCEPT !.op = "turnOn", !.token = code])
  <2>1. PICK code \in MadeBy("generate") \cup {None} :
               BeginWithToken(r, t, [NoJob EXCEPT !.op = "turnOn", !.token = code])
    BY <1>2
  <2> DEFINE j == [NoJob EXCEPT !.op = "turnOn", !.token = code]
  <2>2. code \in Tokens \cup {None}
    BY DEF MadeBy, Tokens
  <2>3. j \in Job /\ j.op = "turnOn" /\ j.attempts = 0 /\ j.ipAttempts = 0
    BY <2>2 DEF NoJob, Job, Operations
  <2>4. BeginWithToken(r, t, j)
    BY <2>1
  <2> HIDE DEF j
  <2>5. QED
    BY <2>3, <2>4, TokenArrives DEF Guarded
<1>3. CASE \E cookie \in Tokens \cup {None} :
             /\ cookie # None => holder[cookie] # None
             /\ BeginWithToken(r, t, [NoJob EXCEPT !.op = "logout", !.token = cookie])
  <2>1. PICK cookie \in Tokens \cup {None} :
               /\ cookie # None => holder[cookie] # None
               /\ BeginWithToken(r, t, [NoJob EXCEPT !.op = "logout", !.token = cookie])
    BY <1>3
  <2> DEFINE j == [NoJob EXCEPT !.op = "logout", !.token = cookie]
  <2>2. j \in Job /\ j.op = "logout" /\ j.token = cookie /\ j.attempts = 0 /\ j.ipAttempts = 0
    BY DEF NoJob, Job, Operations
  <2>3. BeginWithToken(r, t, j)
    BY <2>1
  <2>4. holder[t] # None
    BY <2>3 DEF BeginWithToken, StoreOK, Owned
  <2> HIDE DEF j
  <2>5. QED
    BY <2>1, <2>2, <2>3, <2>4, TokenArrives DEF Guarded
<1>4. CASE \E old \in Passwords, p \in Passwords :
             BeginWithToken(r, t, [NoJob EXCEPT !.op = "change", !.old = old, !.password = p])
  <2>1. PICK old \in Passwords, p \in Passwords :
               BeginWithToken(r, t, [NoJob EXCEPT !.op = "change", !.old = old, !.password = p])
    BY <1>4
  <2> DEFINE j == [NoJob EXCEPT !.op = "change", !.old = old, !.password = p]
  <2>2. j \in Job /\ j.op = "change" /\ j.password = p /\ j.attempts = 0 /\ j.ipAttempts = 0
    BY DEF NoJob, Job, Operations
  <2>3. BeginWithToken(r, t, j)
    BY <2>1
  <2> HIDE DEF j
  <2>4. QED
    BY <2>2, <2>3, TokenArrives DEF Guarded
<1>5. CASE \E e \in Emails, active \in BOOLEAN :
             BeginWithToken(r, t, [NoJob EXCEPT !.op = "status", !.target = e,
                                                !.active = active])
  <2>1. PICK e \in Emails, active \in BOOLEAN :
               BeginWithToken(r, t, [NoJob EXCEPT !.op = "status", !.target = e,
                                                  !.active = active])
    BY <1>5
  <2> DEFINE j == [NoJob EXCEPT !.op = "status", !.target = e, !.active = active]
  <2>2. j \in Job /\ j.op = "status" /\ j.target = e /\ j.attempts = 0 /\ j.ipAttempts = 0
    BY DEF NoJob, Job, Operations
  <2>3. BeginWithToken(r, t, j)
    BY <2>1
  <2> HIDE DEF j
  <2>4. QED
    BY <2>2, <2>3, TokenArrives DEF Guarded
<1>6. QED
  BY <1>1, <1>2, <1>3, <1>4, <1>5

\* Every endpoint begins as Arrival says.
LEMMA Arrives ==
  ASSUME StoreOK, NEW r \in Requests, AuthArrive(r) \/ UserArrive(r)
  PROVE  Arrival(r)
<1>1. ASSUME AccountsArrive(r), UNCHANGED <<tokens, counters, events>> PROVE Arrival(r)
  BY <1>1, RegisterArrives, GoogleArrives, ForgotArrives, ResetArrives DEF AccountsArrive
<1>2. CASE AuthArrive(r)
  BY <1>1, <1>2, LoginArrives, RefreshArrives, GuardedArrive DEF AuthArrive
<1>3. CASE UserArrive(r)
  BY <1>3, GuardedArrive DEF UserArrive
<1>4. QED
  BY <1>2, <1>3

LEMMA ReadStep ==
  ASSUME StoreOK, HandlersOK, NEW r \in Requests, NEW label \in Labels, Proceed(r, label),
         UNCHANGED <<tokens, counters, events>>, Fits(label, job[r])
  PROVE  StoreOK' /\ HandlersOK'
<1>1. StoreOK' /\ Growing /\ Goto(r, label) /\ UNCHANGED job
  BY SameStore DEF Proceed
<1>2. QED
  BY <1>1, MoveOnly

LEMMA WriteStep ==
  ASSUME StoreOK, HandlersOK, NEW r \in Requests, NEW label \in Labels,
         NEW e \in Emails, NEW row \in Account, WriteAccount(r, e, row, label),
         UNCHANGED <<tokens, counters, events>>, Fits(label, job[r]) \/ Fits(label, job[r])'
  PROVE  StoreOK' /\ HandlersOK'
<1>1. StoreOK' /\ Growing /\ Goto(r, label) /\ UNCHANGED job
  BY WriteRow DEF WriteAccount
<1>2. PICK j \in Job : j = job[r]
  BY DEF HandlersOK
<1>3. job' = [job EXCEPT ![r] = j] /\ job'[r] = j
  BY <1>1, <1>2 DEF HandlersOK
<1>4. CASE Fits(label, job[r])
  BY <1>1, <1>4, MoveOnly
<1>5. CASE Fits(label, job[r])'
  <2>1. Fits(label, j)'
    BY <1>3, <1>5 DEF Fits
  <2>2. QED
    BY <1>1, <1>3, <2>1, MoveOn
<1>6. QED
  BY <1>4, <1>5

\* A label at which the handler has ended asks for nothing.
LEMMA EndFits == ASSUME NEW label \in Ended, NEW j PROVE Fits(label, j) /\ label \in Labels
BY DEF Fits, Labels

LEMMA BreachTyped ==
  ASSUME StoreOK, HandlersOK, NEW r \in Requests, CheckBreach(r),
         UNCHANGED <<tokens, counters, events>>
  PROVE  StoreOK' /\ HandlersOK'
<1>1. Fits("breach", job[r]) /\ pc[r] = "breach"
  BY DEF HandlersOK, CheckBreach
<1>2. CASE Proceed(r, "rejected")
  BY <1>2, EndFits, ReadStep DEF Ended
<1>3. CASE Proceed(r, IF job[r].op = "register" THEN "createUser" ELSE "writePassword")
  <2> DEFINE label == IF job[r].op = "register" THEN "createUser" ELSE "writePassword"
  <2>1. label \in Labels
    BY DEF Labels
  <2>2. Fits(label, job[r])
    BY <1>1 DEF Fits, OpAt, Unknown, LoginLabels, Ended, Guarded
  <2>3. QED
    BY <1>3, <2>1, <2>2, ReadStep
<1>4. QED
  BY <1>2, <1>3 DEF CheckBreach

LEMMA CreateTyped ==
  ASSUME StoreOK, HandlersOK, NEW r \in Requests, CreateUser(r),
         UNCHANGED <<tokens, counters, events>>
  PROVE  StoreOK' /\ HandlersOK'
<1> DEFINE j == job[r]
           row == NewAccount(j.password, AssignedRole(j.role))
           label == IF j.op = "google" THEN "link" ELSE "issue"
<1>1. Fits("createUser", j) /\ j \in Job /\ pc[r] = "createUser"
  BY DEF HandlersOK, CreateUser
<1>2. j.op \in {"register", "google"} /\ j.email \in Emails
      /\ (j.op = "google" => j.google \in GoogleIds)
  BY <1>1 DEF Fits, OpAt, Ended
<1>3. CASE Proceed(r, "rejected")
  BY <1>3, EndFits, ReadStep DEF Ended
<1>4. CASE WriteAccount(r, j.email, row, label)
  <2>1. row \in Account
    BY <1>1, AccountTypes DEF Job
  <2>2. account'[j.email] = row /\ job' = job
    BY <1>2, <1>4 DEF WriteAccount, StoreOK
  <2> HIDE DEF row
  <2>3. PICK to \in {"link", "issue"} :
          WriteAccount(r, j.email, row, to) /\ (to = "link" => j.op = "google")
    BY <1>4
  <2>4. PICK k \in Job : k = job[r] /\ k.op \in {"register", "google"} /\ k.email \in Emails
                         /\ (k.op = "google" => k.google \in GoogleIds)
    BY <1>1, <1>2
  <2>5. job'[r] = k /\ Known(k.email)'
    BY <2>1, <2>2, <2>4 DEF Known
  <2>6. Fits(to, job[r])'
    BY <2>3, <2>4, <2>5 DEF Fits, OpAt, Unknown, LoginLabels, Ended, Guarded
  <2>7. to \in Labels
    BY DEF Labels
  <2>8. QED
    BY <1>2, <2>1, <2>3, <2>6, <2>7, WriteStep
<1>5. QED
  BY <1>3, <1>4 DEF CreateUser

LEMMA FindEmailTyped ==
  ASSUME StoreOK, HandlersOK, NEW r \in Requests, FindEmail(r),
         UNCHANGED <<tokens, counters, events>>
  PROVE  StoreOK' /\ HandlersOK'
<1>1. Fits("findEmail", job[r]) /\ pc[r] = "findEmail"
  BY DEF HandlersOK, FindEmail
<1>2. PICK label \in {"link", "createUser", "rejected"} :
        Proceed(r, label) /\ (label = "link" => account[job[r].email] # NoAccount)
  BY DEF FindEmail
<1>3. label \in Labels
  BY DEF Labels, Ended
<1>4. Fits(label, job[r])
  BY <1>1, <1>2 DEF Fits, OpAt, Unknown, LoginLabels, Ended, Guarded, Known, StoreOK
<1>5. QED
  BY <1>2, <1>3, <1>4, ReadStep

LEMMA LinkTyped ==
  ASSUME StoreOK, HandlersOK, NEW r \in Requests, Link(r),
         UNCHANGED <<tokens, counters, events>>
  PROVE  StoreOK' /\ HandlersOK'
<1>1. Fits("link", job[r]) /\ pc[r] = "link"
  BY DEF HandlersOK, Link
<1>2. job[r].op = "google" /\ Known(job[r].email) /\ job[r].google \in GoogleIds
  BY <1>1 DEF Fits, OpAt, Unknown, LoginLabels, Ended
<1>3. CASE Proceed(r, "rejected")
  BY <1>3, EndFits, ReadStep DEF Ended
<1>4. CASE /\ oauth' = [oauth EXCEPT ![job[r].google] = IF @ = None THEN job[r].email ELSE @]
           /\ Goto(r, "issue")
           /\ UNCHANGED <<account, fixed, job>>
  <2>1. StoreOK' /\ Growing
    BY <1>2, <1>4 DEF StoreOK, Owned, Known, fixed, tokens, counters, Growing
  <2>2. "issue" \in Labels
    BY DEF Labels
  <2>3. Fits("issue", job[r])
    BY <1>2 DEF Fits, OpAt, Unknown, LoginLabels, Ended, Guarded, Known
  <2>4. UNCHANGED job
    BY <1>4
  <2>5. QED
    BY <1>4, <2>1, <2>2, <2>3, <2>4, MoveOnly
<1>5. QED
  BY <1>3, <1>4 DEF Link

\* The handlers that write a row of an existing user and end.
LEMMA EndWriteTyped ==
  ASSUME StoreOK, HandlersOK, NEW r \in Requests, NEW e \in Emails, NEW row \in Account,
         WriteAccount(r, e, row, "done"), UNCHANGED <<tokens, counters, events>>
  PROVE  StoreOK' /\ HandlersOK'
<1>1. Fits("done", job[r]) /\ "done" \in Labels
  BY EndFits DEF Ended
<1>2. QED
  BY <1>1, WriteStep

LEMMA RowChanges ==
  ASSUME NEW row \in Account
  PROVE  /\ \A t \in Requests \cup {None} : [row EXCEPT !.reset = t] \in Account
         /\ \A t \in Requests \cup {None} : [row EXCEPT !.secret = t] \in Account
         /\ \A p \in Passwords : AfterReset(row, p) \in Account
         /\ \A p \in Passwords : [row EXCEPT !.password = p] \in Account
         /\ \A on \in BOOLEAN : [row EXCEPT !.active = on] \in Account
         /\ [row EXCEPT !.twoFactor = TRUE] \in Account
BY DEF Account, AfterReset

LEMMA RowWritesTyped ==
  ASSUME StoreOK, HandlersOK, NEW r \in Requests, UNCHANGED <<tokens, counters, events>>,
         \/ WriteResetToken(r) \/ WritePassword(r) \/ ChangePassword(r)
         \/ GenerateSecret(r) \/ Enable(r) \/ SetActive(r)
  PROVE  StoreOK' /\ HandlersOK'
<1> DEFINE j == job[r]
<1>1. Fits(pc[r], j) /\ j \in Job
  BY DEF HandlersOK
<1>2. pc[r] \in {"writeToken", "writePassword", "changePassword", "writeSecret", "enable",
                 "setActive"} => Known(j.email) /\ j.email \in Emails
  BY <1>1 DEF Fits, Unknown, LoginLabels, Ended, Known
<1>3. CASE WriteResetToken(r)
  <2>1. Known(j.email)
    BY <1>2, <1>3 DEF WriteResetToken
  <2>2. [account[j.email] EXCEPT !.reset = r] \in Account
    BY <2>1, RowChanges DEF Known
  <2>3. QED
    BY <1>3, <2>1, <2>2, EndWriteTyped DEF WriteResetToken, Known
<1>4. CASE WritePassword(r)
  <2>1. Known(j.email) /\ j.password \in Passwords
    BY <1>1, <1>2, <1>4 DEF WritePassword, Fits, OpAt, Ended
  <2>2. AfterReset(account[j.email], j.password) \in Account
    BY <2>1, RowChanges DEF Known
  <2>3. QED
    BY <1>4, <2>1, <2>2, EndWriteTyped DEF WritePassword, Known
<1>5. CASE ChangePassword(r)
  <2>1. Known(j.email) /\ j.password \in Passwords
    BY <1>1, <1>2, <1>5 DEF ChangePassword, Fits, OpAt, Ended
  <2>2. [account[j.email] EXCEPT !.password = j.password] \in Account
    BY <2>1, RowChanges DEF Known
  <2>3. QED
    BY <1>5, <2>1, <2>2, EndWriteTyped DEF ChangePassword, Known
<1>6. CASE GenerateSecret(r)
  <2>1. Known(j.email)
    BY <1>2, <1>6 DEF GenerateSecret
  <2>2. [account[j.email] EXCEPT !.secret = r] \in Account
    BY <2>1, RowChanges DEF Known
  <2>3. QED
    BY <1>6, <2>1, <2>2, EndWriteTyped DEF GenerateSecret, Known
<1>7. CASE Enable(r)
  <2>1. Known(j.email)
    BY <1>2, <1>7 DEF Enable
  <2>2. [account[j.email] EXCEPT !.twoFactor = TRUE] \in Account
    BY <2>1, RowChanges DEF Known
  <2>3. QED
    BY <1>7, <2>1, <2>2, EndWriteTyped DEF Enable, Known
<1>8. CASE SetActive(r)
  <2>1. Known(j.target) /\ j.active \in BOOLEAN
    BY <1>1, <1>8 DEF SetActive, Fits, Ended, Job
  <2>2. [account[j.target] EXCEPT !.active = j.active] \in Account
    BY <2>1, RowChanges DEF Known
  <2>3. QED
    BY <1>8, <2>1, <2>2, EndWriteTyped DEF SetActive, Known
<1>9. QED
  BY <1>3, <1>4, <1>5, <1>6, <1>7, <1>8

LEMMA AccountReadsTyped ==
  ASSUME StoreOK, HandlersOK, NEW r \in Requests, UNCHANGED <<tokens, counters, events>>,
         CheckPassword(r) \/ VerifyCode(r) \/ FindTarget(r)
  PROVE  StoreOK' /\ HandlersOK'
<1>1. Fits(pc[r], job[r])
  BY DEF HandlersOK
<1>2. CASE CheckPassword(r)
  <2>1. PICK label \in {"changePassword", "rejected"} : Proceed(r, label)
    BY <1>2 DEF CheckPassword
  <2>2. Fits(label, job[r]) /\ label \in Labels
    BY <1>1, <1>2 DEF CheckPassword, Fits, OpAt, Unknown, LoginLabels, Ended, Guarded, Labels
  <2>3. QED
    BY <2>1, <2>2, ReadStep
<1>3. CASE VerifyCode(r)
  <2>1. PICK label \in {"enable", "rejected"} : Proceed(r, label)
    BY <1>3 DEF VerifyCode
  <2>2. Fits(label, job[r]) /\ label \in Labels
    BY <1>1, <1>3 DEF VerifyCode, Fits, OpAt, Unknown, LoginLabels, Ended, Guarded, Labels
  <2>3. QED
    BY <2>1, <2>2, ReadStep
<1>4. CASE FindTarget(r)
  <2>1. PICK label \in {"setActive", "rejected"} :
          Proceed(r, label) /\ (label = "setActive" => account[job[r].target] # NoAccount)
    BY <1>4 DEF FindTarget
  <2>2. label = "setActive" => Known(job[r].target)
    BY <1>1, <1>4, <2>1 DEF FindTarget, Fits, OpAt, Ended, Known, StoreOK
  <2>3. Fits(label, job[r]) /\ label \in Labels
    BY <1>1, <1>4, <2>2 DEF FindTarget, Fits, OpAt, Unknown, LoginLabels, Ended, Guarded,
                            Labels
  <2>4. QED
    BY <2>1, <2>3, ReadStep
<1>5. QED
  BY <1>2, <1>3, <1>4

LEMMA AccountsTyped ==
  ASSUME StoreOK, HandlersOK, NEW r \in Requests, AccountsStep(r),
         UNCHANGED <<tokens, counters, events>>
  PROVE  StoreOK' /\ HandlersOK'
BY BreachTyped, CreateTyped, FindEmailTyped, LinkTyped, RowWritesTyped, AccountReadsTyped
   DEF AccountsStep

\* A step of the cache: no row of User changes.
LEMMA CacheStep ==
  ASSUME HandlersOK, NEW r \in Requests, NEW label \in Labels, Goto(r, label),
         UNCHANGED <<account, job>>, Fits(label, job[r])
  PROVE  HandlersOK'
BY MoveOnly DEF Growing

LEMMA IssueTyped ==
  ASSUME StoreOK, HandlersOK, NEW r \in Requests, IssueTokens(r)
  PROVE  StoreOK' /\ HandlersOK'
<1>1. Known(job[r].email) /\ job[r].email \in Emails
  BY DEF HandlersOK, IssueTokens, Fits, Unknown, LoginLabels, Ended, Known
<1>2. r \in Tokens
  BY DEF Tokens
<1> DEFINE e == job[r].email
<1>3. /\ holder' = [holder EXCEPT ![r] = e]
      /\ access' = access \cup {r}
      /\ refresh' = [refresh EXCEPT ![r] = e]
      /\ Goto(r, "done")
      /\ UNCHANGED <<tables, fixed, job, blacklist, counters, events>>
  BY DEF IssueTokens
<1>4. e \in Emails /\ account[e] \in Account /\ e # None
  BY <1>1, AccountsAssumption DEF Known
<1> HIDE DEF e
<1>5. /\ holder' \in [Tokens -> Emails \cup {None}] /\ refresh' \in [Tokens -> Emails \cup {None}]
      /\ access' \subseteq Tokens /\ blacklist' \subseteq access'
  BY <1>2, <1>3, <1>4 DEF StoreOK
<1>6. Owned'
  <2>1. account' = account /\ oauth' = oauth
    BY <1>3 DEF tables
  <2>2. \A g \in GoogleIds : oauth'[g] # None => oauth'[g] \in Emails /\ account[oauth'[g]] \in Account
    BY <2>1 DEF StoreOK, Owned, Known
  <2>3. \A t \in Tokens : holder'[t] # None => holder'[t] \in Emails /\ account[holder'[t]] \in Account
    BY <1>2, <1>3, <1>4, <2>1 DEF StoreOK, Owned, Known
  <2>4. \A t \in Tokens : refresh'[t] # None => refresh'[t] \in Emails /\ account[refresh'[t]] \in Account
    BY <1>2, <1>3, <1>4, <2>1 DEF StoreOK, Owned, Known
  <2>5. \A t \in access' : holder'[t] # None
    BY <1>2, <1>3, <1>4 DEF StoreOK, Owned
  <2>6. QED
    BY <2>1, <2>2, <2>3, <2>4, <2>5 DEF Owned, Known
<1>7. StoreOK'
  BY <1>3, <1>5, <1>6 DEF StoreOK, tables, fixed, counters
<1>8. HandlersOK'
  BY <1>3, EndFits, CacheStep DEF Ended, tables
<1>9. QED
  BY <1>7, <1>8

\* A step of the lockout changes the counters of one key and moves the handler.
LEMMA CounterStep ==
  ASSUME StoreOK, NEW k \in Keys, NEW n \in Nat, UNCHANGED <<tables, fixed, tokens, events>>,
         attempts' = attempts \/ attempts' = [attempts EXCEPT ![k] = n],
         \/ wrong' = wrong \/ wrong' = [wrong EXCEPT ![k] = @ + 1]
         \/ wrong' = [wrong EXCEPT ![k] = 0],
         locked' = locked \/ locked' = locked \cup {k} \/ locked' = locked \ {k}
  PROVE  StoreOK' /\ Growing
<1>1. attempts' \in [Keys -> Nat] /\ locked' \subseteq Keys
  BY DEF StoreOK
<1>2. wrong' \in [Keys -> Nat]
  BY DEF StoreOK
<1>3. QED
  BY <1>1, <1>2 DEF StoreOK, Owned, Known, tables, fixed, tokens, Growing

\* At a label of the lockout, the handler is a login.
LEMMA LoginAt ==
  ASSUME HandlersOK, NEW r \in Requests, pc[r] \in LoginLabels
  PROVE  /\ job[r] \in Job /\ job[r].op = "login"
         /\ job[r].email \in Keys /\ job[r].ip \in Keys
         /\ job[r].email \in Emails /\ job[r].ip \in IPs
         /\ pc[r] \in {"forgetEmail", "forgetIp"} => Known(job[r].email)
BY DEF HandlersOK, Fits, OpAt, Ended, LoginLabels, Keys, Unknown

\* Where a login may go next.
LEMMA LoginFits ==
  ASSUME NEW j \in Job, j.op = "login", j.email \in Emails, j.ip \in IPs,
         NEW label \in LoginLabels \cup {"issue", "rejected"},
         label \in {"forgetEmail", "forgetIp", "issue"} => Known(j.email)
  PROVE  Fits(label, j) /\ label \in Labels
BY DEF Fits, OpAt, Ended, LoginLabels, Unknown, Guarded, Labels

LEMMA LoginReadsTyped ==
  ASSUME StoreOK, HandlersOK, NEW r \in Requests, CheckIp(r) \/ FindUser(r)
  PROVE  StoreOK' /\ HandlersOK'
<1>1. pc[r] \in {"checkIp", "findUser"} /\ UNCHANGED <<tokens, counters, events>>
  BY DEF CheckIp, FindUser
<1>2. job[r] \in Job /\ job[r].op = "login" /\ job[r].email \in Emails /\ job[r].ip \in IPs
  BY <1>1, LoginAt DEF LoginLabels
<1>3. CASE CheckIp(r)
  <2>1. PICK label \in {"rejected", "findUser"} : Proceed(r, label)
    BY <1>3 DEF CheckIp
  <2>2. QED
    BY <1>1, <1>2, <2>1, LoginFits, ReadStep DEF LoginLabels
<1>4. CASE FindUser(r)
  <2>1. PICK label \in {"rejected", "forgetEmail", "countEmail"} :
          Proceed(r, label) /\ (label = "forgetEmail" => account[job[r].email].active)
    BY <1>4 DEF FindUser
  <2>2. label = "forgetEmail" => Known(job[r].email)
    BY <1>2, <2>1, AccountTypes DEF Known, StoreOK
  <2>3. QED
    BY <1>1, <1>2, <2>1, <2>2, LoginFits, ReadStep DEF LoginLabels
<1>5. QED
  BY <1>3, <1>4

LEMMA ForgetTyped ==
  ASSUME StoreOK, HandlersOK, NEW r \in Requests, ForgetEmail(r) \/ ForgetIp(r)
  PROVE  StoreOK' /\ HandlersOK'
<1>1. PICK label \in {"forgetEmail", "forgetIp"}, k \in {job[r].email, job[r].ip},
           next \in {"forgetIp", "issue"} : Forget(r, label, k, next)
  BY DEF ForgetEmail, ForgetIp
<1>2. pc[r] \in {"forgetEmail", "forgetIp"}
  BY <1>1 DEF Forget
<1>3. /\ job[r] \in Job /\ job[r].op = "login" /\ job[r].email \in Emails
      /\ job[r].ip \in IPs /\ k \in Keys /\ Known(job[r].email)
  BY <1>1, <1>2, LoginAt DEF LoginLabels
<1>4. StoreOK' /\ Growing
  <2>1. 0 \in Nat
    OBVIOUS
  <2>2. QED
    BY <1>1, <1>3, <2>1, CounterStep DEF Forget
<1>5. Fits(next, job[r]) /\ next \in Labels
  BY <1>3, LoginFits DEF LoginLabels
<1>6. QED
  BY <1>1, <1>4, <1>5, MoveOnly DEF Forget

LEMMA CountTyped ==
  ASSUME StoreOK, HandlersOK, NEW r \in Requests, CountEmail(r) \/ CountIp(r)
  PROVE  StoreOK' /\ HandlersOK'
<1>1. pc[r] \in {"countEmail", "countIp"}
  BY DEF CountEmail, CountIp, Count
<1>2. /\ job[r] \in Job /\ job[r].op = "login" /\ job[r].email \in Keys /\ job[r].ip \in Keys
      /\ job[r].email \in Emails /\ job[r].ip \in IPs
  BY <1>1, LoginAt DEF LoginLabels
<1>3. \A k \in Keys : AfterFailure(attempts[k]) \in Nat
  BY DEF AfterFailure, StoreOK
<1>4. PICK k \in Keys, n \in Nat, j \in Job, next \in {"countIp", "setEmail"} :
         /\ Count(r, pc[r], k, j, next)
         /\ j.op = "login" /\ j.email = job[r].email /\ j.ip = job[r].ip
  <2>1. CASE CountEmail(r)
    <3> DEFINE j == [job[r] EXCEPT !.attempts = AfterFailure(attempts[job[r].email])]
    <3>1. j \in Job /\ j.op = job[r].op /\ j.email = job[r].email /\ j.ip = job[r].ip
      BY <1>2, <1>3 DEF Job
    <3>2. QED
      BY <1>2, <2>1, <3>1 DEF CountEmail, Count
  <2>2. CASE CountIp(r)
    <3> DEFINE j == [job[r] EXCEPT !.ipAttempts = AfterFailure(attempts[job[r].ip])]
    <3>1. j \in Job /\ j.op = job[r].op /\ j.email = job[r].email /\ j.ip = job[r].ip
      BY <1>2, <1>3 DEF Job
    <3>2. QED
      BY <1>2, <2>2, <3>1 DEF CountIp, Count
  <2>3. QED
    BY <2>1, <2>2
<1>5. StoreOK' /\ Growing
  BY <1>4, CounterStep DEF Count
<1>6. Fits(next, j) /\ next \in Labels
  BY <1>2, <1>4, LoginFits DEF LoginLabels
<1>7. Fits(next, j)'
  BY <1>5, <1>6, StaysFit
<1>8. QED
  BY <1>4, <1>5, <1>6, <1>7, MoveOn DEF Count

LEMMA SetTyped ==
  ASSUME StoreOK, HandlersOK, NEW r \in Requests, SetEmail(r) \/ SetIp(r)
  PROVE  StoreOK' /\ HandlersOK'
<1>1. pc[r] \in {"setEmail", "setIp"}
  BY DEF SetEmail, SetIp, SetCounter
<1>2. /\ job[r] \in Job /\ job[r].op = "login" /\ job[r].email \in Keys /\ job[r].ip \in Keys
      /\ job[r].email \in Emails /\ job[r].ip \in IPs
  BY <1>1, LoginAt DEF LoginLabels
<1>3. PICK k \in Keys, n \in Nat, next \in {"setIp", "lockEmail", "lockIp", "rejected"} :
        SetCounter(r, pc[r], k, n, next)
  <2>1. job[r].attempts \in Nat /\ job[r].ipAttempts \in Nat
    BY <1>2 DEF Job
  <2>2. QED
    BY <1>2, <2>1 DEF SetEmail, SetIp, SetCounter
<1>4. StoreOK' /\ Growing
  BY <1>3, CounterStep DEF SetCounter
<1>5. Fits(next, job[r]) /\ next \in Labels
  BY <1>2, <1>3, LoginFits DEF LoginLabels
<1>6. QED
  BY <1>3, <1>4, <1>5, MoveOnly DEF SetCounter

LEMMA LockTyped ==
  ASSUME StoreOK, HandlersOK, NEW r \in Requests, LockEmail(r) \/ LockIp(r)
  PROVE  StoreOK' /\ HandlersOK'
<1>1. pc[r] \in {"lockEmail", "lockIp"}
  BY DEF LockEmail, LockIp, Lock
<1>2. /\ job[r] \in Job /\ job[r].op = "login" /\ job[r].email \in Keys /\ job[r].ip \in Keys
      /\ job[r].email \in Emails /\ job[r].ip \in IPs
  BY <1>1, LoginAt DEF LoginLabels
<1>3. PICK k \in Keys, next \in {"lockIp", "rejected"} : Lock(r, pc[r], k, next)
  BY <1>2 DEF LockEmail, LockIp, Lock
<1>4. StoreOK' /\ Growing
  <2>1. 0 \in Nat
    OBVIOUS
  <2>2. QED
    BY <1>3, <2>1, CounterStep DEF Lock
<1>5. Fits(next, job[r]) /\ next \in Labels
  BY <1>2, <1>3, LoginFits DEF LoginLabels
<1>6. QED
  BY <1>3, <1>4, <1>5, MoveOnly DEF Lock

LEMMA GuardsTyped ==
  ASSUME StoreOK, HandlersOK, NEW r \in Requests, FindActive(r) \/ Validate(r)
  PROVE  StoreOK' /\ HandlersOK'
<1>1. Fits(pc[r], job[r]) /\ job[r] \in Job /\ UNCHANGED <<tokens, counters, events>>
  BY DEF HandlersOK, FindActive, Validate
<1>2. CASE FindActive(r)
  <2>1. PICK label \in {"redeem", "rejected"} : Proceed(r, label)
    BY <1>2 DEF FindActive
  <2>2. Fits(label, job[r]) /\ label \in Labels
    BY <1>1, <1>2, <2>1 DEF FindActive, Fits, OpAt, Unknown, LoginLabels, Ended, Guarded, Labels
  <2>3. QED
    BY <1>1, <2>1, <2>2, ReadStep
<1>3. CASE Validate(r)
  <2>1. job[r].op \in Guarded /\ job[r].email \in Emails /\ Known(job[r].email)
    BY <1>1, <1>3 DEF Validate, Fits, OpAt, Unknown, LoginLabels, Ended
  <2>2. /\ Entry["change"] = "checkPassword" /\ Entry["generate"] = "writeSecret"
        /\ Entry["turnOn"] = "verifyCode" /\ Entry["status"] = "findTarget"
        /\ Entry["logout"] = "blacklist"
    BY DEF Entry
  <2>3. PICK label : /\ Proceed(r, label)
                     /\ label \in {"rejected", "revalidate", Entry[job[r].op]}
    BY <1>3 DEF Validate
  <2>4. Fits(label, job[r]) /\ label \in Labels
    BY <1>1, <1>3, <2>1, <2>2, <2>3
       DEF Validate, Fits, OpAt, Unknown, LoginLabels, Ended, Guarded, Labels
  <2>5. QED
    BY <1>1, <2>3, <2>4, ReadStep
<1>4. QED
  BY <1>2, <1>3

\* Fewer entries in the cache and fewer valid tokens.
LEMMA FewerEntries ==
  ASSUME StoreOK, UNCHANGED <<tables, fixed, holder, counters>>, events' \in 0..MaxEvents,
         access' \subseteq access, blacklist' \subseteq access',
         refresh' \in [Tokens -> Emails \cup {None}],
         \A t \in Tokens : refresh'[t] \in {refresh[t], None}
  PROVE  StoreOK' /\ Growing
<1>1. account' = account /\ oauth' = oauth
  BY DEF tables
<1>2. \A t \in Tokens : refresh'[t] # None => refresh'[t] \in Emails
                                              /\ account[refresh'[t]] \in Account
  BY DEF StoreOK, Owned, Known
<1>3. Owned'
  BY <1>1, <1>2 DEF StoreOK, Owned, Known
<1>4. QED
  BY <1>1, <1>3 DEF StoreOK, fixed, counters, Growing

LEMMA DropTyped ==
  ASSUME StoreOK, HandlersOK, NEW r \in Requests, Redeem(r) \/ Revoke(r)
  PROVE  StoreOK' /\ HandlersOK'
<1>1. Fits(pc[r], job[r]) /\ pc[r] \in {"redeem", "revoke"}
  BY DEF HandlersOK, Redeem, Revoke, Drop
<1>2. job[r].token \in Tokens
  BY <1>1 DEF Fits, OpAt, Ended, LoginLabels
<1>3. refresh' = [refresh EXCEPT ![job[r].token] = None]
      /\ UNCHANGED <<tables, fixed, job, holder, access, blacklist, counters, events>>
  BY DEF Redeem, Revoke, Drop, Without
<1>4. refresh' \in [Tokens -> Emails \cup {None}]
      /\ \A t \in Tokens : refresh'[t] \in {refresh[t], None}
  BY <1>2, <1>3 DEF StoreOK
<1>5. StoreOK' /\ Growing
  <2>1. access' = access /\ blacklist' = blacklist /\ blacklist \subseteq access
        /\ events' \in 0..MaxEvents
    BY <1>3 DEF StoreOK
  <2>2. QED
    BY <1>3, <1>4, <2>1, FewerEntries
<1>6. PICK label \in {"issue", "done"} : Goto(r, label) /\ (label = "issue" => pc[r] = "redeem")
  BY DEF Redeem, Revoke, Drop
<1>7. Fits(label, job[r]) /\ label \in Labels
  BY <1>1, <1>6 DEF Fits, OpAt, Unknown, LoginLabels, Ended, Guarded, Labels
<1>8. QED
  BY <1>3, <1>5, <1>6, <1>7, MoveOnly

LEMMA BlacklistTyped ==
  ASSUME StoreOK, HandlersOK, NEW r \in Requests, Blacklist(r)
  PROVE  StoreOK' /\ HandlersOK'
<1>1. Fits(pc[r], job[r]) /\ pc[r] = "blacklist" /\ job[r] \in Job
  BY DEF HandlersOK, Blacklist
<1>2. StoreOK' /\ Growing
  BY DEF Blacklist, StoreOK, Owned, Known, tables, fixed, counters, Growing
<1>3. PICK label \in {"done", "revoke"} :
        Goto(r, label) /\ (label = "revoke" => job[r].token # None)
  BY DEF Blacklist
<1>4. Fits(label, job[r]) /\ label \in Labels
  BY <1>1, <1>3 DEF Fits, OpAt, Unknown, LoginLabels, Ended, Guarded, Labels, Job
<1>5. UNCHANGED job
  BY DEF Blacklist
<1>6. QED
  BY <1>2, <1>3, <1>4, <1>5, MoveOnly

LEMMA SessionsTyped ==
  ASSUME StoreOK, HandlersOK, NEW r \in Requests, SessionsStep(r)
  PROVE  StoreOK' /\ HandlersOK'
BY IssueTyped, LoginReadsTyped, ForgetTyped, CountTyped, SetTyped, LockTyped, GuardsTyped,
   DropTyped, BlacklistTyped DEF SessionsStep

LEMMA ArrivalTyped ==
  ASSUME StoreOK, HandlersOK, NEW r \in Requests, Arrival(r)
  PROVE  StoreOK' /\ HandlersOK'
<1>1. StoreOK' /\ Growing
  BY SameStore DEF Arrival
<1>2. PICK label \in Labels :
        /\ Goto(r, label)
        /\ \E j \in Job : job' = [job EXCEPT ![r] = j] /\ Fits(label, j) /\ Arrived(label, j)
  BY DEF Arrival
<1>3. PICK j \in Job : job' = [job EXCEPT ![r] = j] /\ Fits(label, j) /\ Arrived(label, j)
  BY <1>2
<1>4. Fits(label, j)'
  BY <1>1, <1>3, StaysFit
<1>5. QED
  BY <1>1, <1>2, <1>3, <1>4, MoveOn

\* Nothing a handler holds depends on what the cache has.
LEMMA HandlersStay ==
  ASSUME HandlersOK, Growing, UNCHANGED <<pc, job>>
  PROVE  HandlersOK'
<1>1. ASSUME NEW r \in Requests PROVE Fits(pc[r], job[r])'
  BY DEF HandlersOK, Fits, Known, Growing
<1>2. QED
  BY <1>1 DEF HandlersOK

LEMMA ResetExpiryTyped ==
  ASSUME StoreOK, HandlersOK, NEW e \in Emails, ExpireReset(e), Event("resetExpires"),
         UNCHANGED <<tokens, counters>>
  PROVE  StoreOK' /\ HandlersOK'
<1>1. account[e] \in Account
  BY AccountTypes DEF StoreOK, ExpireReset
<1>2. [account[e] EXCEPT !.reset = None] \in Account
  BY <1>1, RowChanges
<1>3. account' = [account EXCEPT ![e] = [account[e] EXCEPT !.reset = None]]
  BY DEF ExpireReset
<1>4. events' \in 0..MaxEvents
  BY SessionsAssumption DEF Event, StoreOK
<1>5. StoreOK' /\ Growing
  BY <1>2, <1>3, <1>4 DEF StoreOK, Owned, Known, fixed, tokens, counters, Growing, ExpireReset
<1>6. QED
  BY <1>5, HandlersStay DEF ExpireReset

LEMMA ExpiryTyped ==
  ASSUME StoreOK, HandlersOK, Expire
  PROVE  StoreOK' /\ HandlersOK'
<1>1. ASSUME NEW kind, Event(kind) PROVE events' \in 0..MaxEvents
  BY <1>1, SessionsAssumption DEF Event, StoreOK
<1>2. ASSUME NEW t \in Tokens, ExpireAccess(t) PROVE StoreOK' /\ HandlersOK'
  <2>1. /\ events' \in 0..MaxEvents /\ access' = access \ {t} /\ blacklist' = blacklist \ {t}
        /\ UNCHANGED <<tables, fixed, pc, job, holder, refresh, counters>>
    BY <1>1, <1>2 DEF ExpireAccess
  <2>2. blacklist' \subseteq access' /\ access' \subseteq access
    BY <2>1 DEF StoreOK
  <2>3. refresh' \in [Tokens -> Emails \cup {None}]
        /\ \A s \in Tokens : refresh'[s] \in {refresh[s], None}
    BY <2>1 DEF StoreOK
  <2>4. StoreOK' /\ Growing
    BY <2>1, <2>2, <2>3, FewerEntries
  <2>5. QED
    BY <2>1, <2>4, HandlersStay
<1>3. ASSUME NEW t \in Tokens, ExpireRefresh(t) PROVE StoreOK' /\ HandlersOK'
  <2>1. /\ events' \in 0..MaxEvents /\ refresh' = [refresh EXCEPT ![t] = None]
        /\ UNCHANGED <<tables, fixed, pc, job, holder, access, blacklist, counters>>
    BY <1>1, <1>3 DEF ExpireRefresh
  <2>2. refresh' \in [Tokens -> Emails \cup {None}]
        /\ \A s \in Tokens : refresh'[s] \in {refresh[s], None}
    BY <2>1 DEF StoreOK
  <2>3. blacklist' \subseteq access' /\ access' \subseteq access
    BY <2>1 DEF StoreOK
  <2>4. StoreOK' /\ Growing
    BY <2>1, <2>2, <2>3, FewerEntries
  <2>5. QED
    BY <2>1, <2>4, HandlersStay
<1>4. ASSUME NEW k \in Keys, ExpireAttempts(k) \/ ExpireLock(k) PROVE StoreOK' /\ HandlersOK'
  <2>1. /\ events' \in 0..MaxEvents /\ UNCHANGED <<tables, fixed, pc, job, tokens>>
    BY <1>1, <1>4 DEF ExpireAttempts, ExpireLock
  <2>2. /\ attempts' \in [Keys -> Nat] /\ wrong' \in [Keys -> Nat] /\ locked' \subseteq Keys
    BY <1>4 DEF StoreOK, ExpireAttempts, ExpireLock
  <2>3. StoreOK' /\ Growing
    BY <2>1, <2>2 DEF StoreOK, Owned, Known, tables, fixed, tokens, Growing
  <2>4. QED
    BY <2>1, <2>3, HandlersStay
<1>5. QED
  BY <1>2, <1>3, <1>4, ResetExpiryTyped DEF Expire

LEMMA RestartTyped ==
  ASSUME StoreOK, HandlersOK, Restart
  PROVE  StoreOK' /\ HandlersOK'
<1>1. events' \in 0..MaxEvents /\ UNCHANGED <<tables, fixed, job, holder, access>>
  BY SessionsAssumption DEF Event, StoreOK, Restart
<1>2. account' = account /\ oauth' = oauth
  BY <1>1 DEF tables
<1>3. /\ refresh' \in [Tokens -> Emails \cup {None}] /\ blacklist' \subseteq access'
      /\ attempts' \in [Keys -> Nat] /\ wrong' \in [Keys -> Nat] /\ locked' \subseteq Keys
      /\ \A t \in Tokens : refresh'[t] \in {refresh[t], None}
  <2>1. CASE UNCHANGED <<refresh, blacklist, counters>>
    BY <1>1, <2>1 DEF StoreOK, counters
  <2>2. CASE /\ refresh' = [t \in Tokens |-> None]
             /\ blacklist' = {} /\ locked' = {}
             /\ attempts' = [k \in Keys |-> 0] /\ wrong' = [k \in Keys |-> 0]
    BY <1>1, <2>2 DEF StoreOK
  <2>3. QED
    BY <2>1, <2>2 DEF Restart
<1>4. \A t \in Tokens : refresh'[t] # None => refresh'[t] \in Emails
                                              /\ account[refresh'[t]] \in Account
  BY <1>3 DEF StoreOK, Owned, Known
<1>5. Owned'
  BY <1>1, <1>2, <1>4 DEF StoreOK, Owned, Known
<1>6. StoreOK'
  BY <1>1, <1>3, <1>5 DEF StoreOK, tables, fixed
<1>7. pc' = [r \in Requests |-> IF Active(r) THEN "failed" ELSE pc[r]]
  BY DEF Restart
<1>8. pc' \in [Requests -> Labels]
  BY <1>7 DEF HandlersOK, Labels, Ended
<1>9. ASSUME NEW r \in Requests PROVE Fits(pc[r], job[r])'
  BY <1>1, <1>2, <1>7 DEF HandlersOK, Fits, Ended, Known
<1>10. QED
  BY <1>1, <1>6, <1>8, <1>9 DEF HandlersOK

LEMMA StepTyped ==
  ASSUME StoreOK, HandlersOK, [Next]_vars
  PROVE  StoreOK' /\ HandlersOK'
<1>1. CASE UNCHANGED vars
  <2>1. StoreOK' /\ Growing
    BY <1>1, SameStore DEF vars
  <2>2. QED
    BY <1>1, <2>1, HandlersStay DEF vars
<1>2. ASSUME NEW r \in Requests, AuthArrive(r) \/ UserArrive(r) PROVE StoreOK' /\ HandlersOK'
  BY <1>2, Arrives, ArrivalTyped
<1>3. QED
  BY <1>1, <1>2, SessionsTyped, AccountsTyped, ExpiryTyped, RestartTyped DEF Next, Terminated

LEMMA InitTyped == Init => StoreOK /\ HandlersOK
<1> SUFFICES ASSUME Init PROVE StoreOK /\ HandlersOK
  OBVIOUS
<1> DEFINE valid == {t \in OldTokens : account[OwnerOf[t]] # NoAccount}
<1>1. /\ account \in [Emails -> Account \cup {NoAccount}]
      /\ menu \in Menus /\ serial \in BOOLEAN
  BY AccountsAssumption DEF Init, AccountsInit
<1>2. \A t \in valid : t \in Tokens /\ OwnerOf[t] \in Emails /\ account[OwnerOf[t]] \in Account
                       /\ OwnerOf[t] # None
  BY <1>1, AccountsAssumption, SessionsAssumption DEF Tokens
<1>3. /\ holder = [t \in Tokens |-> IF t \in valid THEN OwnerOf[t] ELSE None]
      /\ access = valid /\ refresh = holder /\ blacklist = {}
  BY DEF Init
<1>4. oauth = [g \in GoogleIds |-> None]
  BY DEF Init, AccountsInit
<1>5. attempts \in [Keys -> Nat] /\ wrong \in [Keys -> Nat] /\ locked \subseteq Keys
      /\ events \in 0..MaxEvents
  BY SessionsAssumption DEF Init
<1> HIDE DEF valid
<1>6. holder \in [Tokens -> Emails \cup {None}] /\ access \subseteq Tokens
      /\ oauth \in [GoogleIds -> Emails \cup {None}]
  BY <1>2, <1>3, <1>4
<1>7. Owned
  BY <1>2, <1>3, <1>4, <1>6 DEF Owned, Known
<1>8. StoreOK
  BY <1>1, <1>3, <1>5, <1>6, <1>7 DEF StoreOK
<1>9. HandlersOK
  BY BlankJob DEF Init, AccountsInit, HandlersOK, Fits, Labels
<1>10. QED
  BY <1>8, <1>9

\* Every variable stays within its type, and whatever names a user (a linked
\* Google account, a token, a handler past its look-up) names one that exists.
THEOREM SessionsTypeCorrect == Spec => []TypeOK
<1>1. Init => TypeInv
  BY InitTyped, TwoParts
<1>2. TypeInv /\ [Next]_vars => TypeInv'
  <2>1. (StoreOK' /\ HandlersOK') => TypeInv'
    BY DEF TypeInv, TypeOK, AccountsTypeOK, StoreOK, HandlersOK
  <2>2. QED
    BY <2>1, TwoParts, StepTyped
<1>3. TypeInv => TypeOK
  BY DEF TypeInv
<1>4. QED
  BY <1>1, <1>2, <1>3, PTL DEF Spec
-----------------------------------------------------------------------------
(* The inductive invariants of the properties. *)

\* A handler about to enable the second factor has seen a secret, and secrets
\* are replaced but never removed.
Secured ==
  /\ \A e \in Emails : account[e].twoFactor => account[e].secret # None
  /\ \A r \in Requests : pc[r] = "enable" => account[job[r].email].secret # None

\* A Google handler that issues tokens does so for the user linked.
Linked ==
  \A r \in Requests : (job[r].op = "google" /\ pc[r] \in {"issue", "done"}) =>
    /\ job[r].google \in GoogleIds
    /\ job[r].email \in Emails
    /\ oauth[job[r].google] = job[r].email

\* The refresh token a handler presents, once the handler has spent it.
Spends(r, t) ==
  /\ job[r].token = t
  /\ \/ job[r].op = "refresh" /\ pc[r] \in {"issue", "done"}
     \/ job[r].op = "logout" /\ pc[r] = "done"

\* A spent token is not in the cache, and cannot come back: it was issued
\* before, and each request issues one pair, at its end.
Spent ==
  /\ \A t \in Requests : holder[t] # None => pc[t] = "done"
  /\ \A r \in Requests : (job[r].op \in {"refresh", "logout"} /\ job[r].token # None)
                           => job[r].token \in Tokens /\ holder[job[r].token] # None
  /\ \A r \in Requests, t \in Tokens : Spends(r, t) => refresh[t] = None

\* Where a login still has to count its failure for the email, for the address.
Uncounted   == {"idle", "checkIp", "findUser", "countEmail"}
IpUncounted == Uncounted \cup {"countIp"}

\* The logins whose failure was counted for a key.
Counted(k) == {r \in Requests : \/ job[r].email = k /\ job[r].attempts > 0
                                \/ job[r].ip = k /\ job[r].ipAttempts > 0}

\* What a handler has counted, by its label.
CountsFit(label, j) ==
  /\ label \in Uncounted => j.attempts = 0
  /\ label \in IpUncounted => j.ipAttempts = 0
  /\ label = "countIp" => j.attempts > 0
  /\ j.ipAttempts > 0 => j.attempts > 0
  /\ j.attempts > 0 => j.attempts <= Cardinality(Counted(j.email))
  /\ j.ipAttempts > 0 => j.ipAttempts <= Cardinality(Counted(j.ip))
  /\ label = "lockEmail" => Reached(j.email, j.attempts)
  /\ label = "lockIp" => Reached(j.ip, j.ipAttempts)

\* Every count, stored or about to be stored, is backed by that many logins;
\* a key is locked by a count at its maximum.
Backed ==
  /\ \A r \in Requests : CountsFit(pc[r], job[r])
  /\ \A k \in Keys : attempts[k] <= Cardinality(Counted(k))
  /\ \A k \in locked : Max[k] <= Cardinality(Counted(k))

\* Requests that do not overlap.
OneActive == serial => \A r, q \in Requests : Active(r) /\ Active(q) => r = q

\* The handler has noted a failure of the key in the history and not yet in the
\* counter.
CountGap(label, j, k) == \/ label \in {"countIp", "setEmail"} /\ k = j.email
                         \/ label \in {"setEmail", "setIp"} /\ k = j.ip

\* The handler may have brought the key to its maximum and has not yet locked it.
LockGap(label, j, k) ==
  \/ label \in {"countIp", "setEmail", "setIp", "lockEmail"} /\ k = j.email
  \/ label \in {"setEmail", "setIp", "lockEmail", "lockIp"} /\ k = j.ip

\* What the handler will write covers the failures so far.
Covers(label, j) ==
  /\ label \in {"countIp", "setEmail", "setIp", "lockEmail"} => wrong[j.email] <= j.attempts
  /\ label \in {"setEmail", "setIp", "lockEmail", "lockIp"} => wrong[j.ip] <= j.ipAttempts

\* While requests neither overlap nor fail, the counters are behind the history
\* only where a handler is about to write them.
NoneLost ==
  (serial /\ \A r \in Requests : pc[r] # "failed") =>
    /\ \A k \in Keys : \/ wrong[k] <= attempts[k]
                       \/ \E r \in Requests : CountGap(pc[r], job[r], k)
    /\ \A k \in Keys : wrong[k] >= Max[k] =>
                         k \in locked \/ \E r \in Requests : LockGap(pc[r], job[r], k)
    /\ \A r \in Requests : Covers(pc[r], job[r])

\* A stored reset token was written by the request it names, for that user; a
\* handler that presents one presents it for the same user; none is stored
\* after a handler has used it.
ResetKept ==
  /\ \A e \in Emails, t \in Requests : account[e].reset = t =>
       job[t].op = "forgot" /\ job[t].email = e /\ pc[t] = "done"
  /\ \A r \in Requests : job[r].op = "reset" =>
       LET t == job[r].token IN
       /\ t \in Requests /\ job[t].op = "forgot" /\ pc[t] = "done"
       /\ pc[r] \in {"breach", "writePassword", "done"} => job[t].email = job[r].email
       /\ pc[r] = "done" => \A e \in Emails : account[e].reset # t

\* Without overlap, the token presented is still the user's, or none is.
ResetHeld ==
  serial => \A r \in Requests :
    (job[r].op = "reset" /\ pc[r] \in {"breach", "writePassword"}) =>
      /\ account[job[r].email].reset \in {job[r].token, None}
      /\ \A q \in Requests : job[q].op = "reset" /\ job[q].token = job[r].token
                              => pc[q] # "done"

-----------------------------------------------------------------------------
(* What one step of one handler may do. *)

HandlerStep(r) ==
  SessionsStep(r) \/ (AccountsStep(r) /\ UNCHANGED <<tokens, counters, events>>)

\* The same parameters, whatever has been counted.
SameRequest(j, k) ==
  j.op = k.op /\ j.email = k.email /\ j.token = k.token /\ j.google = k.google /\ j.ip = k.ip

\* How a handler comes to the labels the properties are about.
Comes(from, label) ==
  /\ label \notin {"idle", "failed", "breach"}
  /\ label = "issue" => from \in {"createUser", "link", "forgetIp", "redeem"}
  /\ label = "enable" => from = "verifyCode"
  /\ label = "writePassword" => from = "breach"
  /\ label = "done" => from \in {"issue", "writeToken", "writePassword", "changePassword",
                                 "writeSecret", "enable", "setActive", "blacklist", "revoke"}
  /\ label \in LoginLabels => from \in LoginLabels

\* One handler takes a step.
Moved(r) ==
  /\ Active(r)
  /\ \E label : Goto(r, label) /\ Comes(pc[r], label)
  /\ \E j : job' = [job EXCEPT ![r] = j] /\ SameRequest(j, job[r])

LEMMA SameJob ==
  ASSUME HandlersOK, NEW r \in Requests, UNCHANGED job
  PROVE  \E j : job' = [job EXCEPT ![r] = j] /\ SameRequest(j, job[r])
<1>1. job' = [job EXCEPT ![r] = job[r]]
  BY DEF HandlersOK
<1>2. SameRequest(job[r], job[r])
  BY DEF SameRequest
<1>3. QED
  BY <1>1, <1>2

\* A step that changes no job, from one label to another.
LEMMA MovedOnly ==
  ASSUME HandlersOK, NEW r \in Requests, UNCHANGED job, Active(r), NEW label, Goto(r, label),
         Comes(pc[r], label)
  PROVE  Moved(r)
BY SameJob DEF Moved

LEMMA AccountMoves ==
  ASSUME HandlersOK, NEW r \in Requests, AccountsStep(r)
  PROVE  Moved(r)
<1>1. CASE CheckBreach(r)
  <2>1. PICK label \in {"rejected", "createUser", "writePassword"} : Goto(r, label)
    BY <1>1 DEF CheckBreach, Proceed
  <2>2. Active(r) /\ Comes(pc[r], label) /\ UNCHANGED job
    BY <1>1 DEF CheckBreach, Proceed, Active, Ended, Comes, LoginLabels
  <2>3. QED
    BY <2>1, <2>2, MovedOnly
<1>2. CASE CreateUser(r)
  <2>1. PICK label \in {"rejected", "link", "issue"} : Goto(r, label)
    BY <1>2 DEF CreateUser, Proceed, WriteAccount
  <2>2. Active(r) /\ Comes(pc[r], label) /\ UNCHANGED job
    BY <1>2 DEF CreateUser, Proceed, WriteAccount, Active, Ended, Comes, LoginLabels
  <2>3. QED
    BY <2>1, <2>2, MovedOnly
<1>3. CASE FindEmail(r)
  <2>1. PICK label \in {"rejected", "link", "createUser"} : Goto(r, label)
    BY <1>3 DEF FindEmail, Proceed
  <2>2. Active(r) /\ Comes(pc[r], label) /\ UNCHANGED job
    BY <1>3 DEF FindEmail, Proceed, Active, Ended, Comes, LoginLabels
  <2>3. QED
    BY <2>1, <2>2, MovedOnly
<1>4. CASE Link(r)
  <2>1. PICK label \in {"rejected", "issue"} : Goto(r, label)
    BY <1>4 DEF Link, Proceed
  <2>2. Active(r) /\ Comes(pc[r], label) /\ UNCHANGED job
    BY <1>4 DEF Link, Proceed, Active, Ended, Comes, LoginLabels
  <2>3. QED
    BY <2>1, <2>2, MovedOnly
<1>5. CASE WriteResetToken(r) \/ WritePassword(r) \/ ChangePassword(r)
  <2>1. Goto(r, "done") /\ UNCHANGED job
    BY <1>5 DEF WriteResetToken, WritePassword, ChangePassword, WriteAccount
  <2>2. Active(r) /\ Comes(pc[r], "done")
    BY <1>5 DEF WriteResetToken, WritePassword, ChangePassword, Active, Ended, Comes,
                LoginLabels
  <2>3. QED
    BY <2>1, <2>2, MovedOnly
<1>6. CASE GenerateSecret(r) \/ Enable(r) \/ SetActive(r)
  <2>1. Goto(r, "done") /\ UNCHANGED job
    BY <1>6 DEF GenerateSecret, Enable, SetActive, WriteAccount
  <2>2. Active(r) /\ Comes(pc[r], "done")
    BY <1>6 DEF GenerateSecret, Enable, SetActive, Active, Ended, Comes, LoginLabels
  <2>3. QED
    BY <2>1, <2>2, MovedOnly
<1>7. CASE CheckPassword(r) \/ VerifyCode(r) \/ FindTarget(r)
  <2>1. PICK label \in {"rejected", "changePassword", "enable", "setActive"} :
          Goto(r, label) /\ (label = "enable" => pc[r] = "verifyCode")
    BY <1>7 DEF CheckPassword, VerifyCode, FindTarget, Proceed
  <2>2. Active(r) /\ UNCHANGED job
    BY <1>7 DEF CheckPassword, VerifyCode, FindTarget, Proceed, Active, Ended
  <2>3. Comes(pc[r], label)
    BY <2>1 DEF Comes, LoginLabels
  <2>4. QED
    BY <2>1, <2>2, <2>3, MovedOnly
<1>8. QED
  BY <1>1, <1>2, <1>3, <1>4, <1>5, <1>6, <1>7 DEF AccountsStep

LEMMA SessionMoves ==
  ASSUME HandlersOK, NEW r \in Requests, SessionsStep(r)
  PROVE  Moved(r)
<1>1. CASE IssueTokens(r)
  <2>1. Goto(r, "done") /\ UNCHANGED job /\ Active(r) /\ Comes(pc[r], "done")
    BY <1>1 DEF IssueTokens, Active, Ended, Comes, LoginLabels
  <2>2. QED
    BY <2>1, MovedOnly
<1>2. CASE CheckIp(r) \/ FindUser(r)
  <2>1. PICK label \in {"rejected", "findUser", "countEmail", "forgetEmail"} : Goto(r, label)
    BY <1>2 DEF CheckIp, FindUser, Proceed
  <2>2. Active(r) /\ Comes(pc[r], label) /\ UNCHANGED job
    BY <1>2 DEF CheckIp, FindUser, Proceed, Active, Ended, Comes, LoginLabels
  <2>3. QED
    BY <2>1, <2>2, MovedOnly
<1>3. CASE ForgetEmail(r) \/ ForgetIp(r)
  <2>1. PICK label \in {"forgetIp", "issue"} :
          Goto(r, label) /\ (label = "issue" => pc[r] = "forgetIp")
    BY <1>3 DEF ForgetEmail, ForgetIp, Forget
  <2>2. Active(r) /\ Comes(pc[r], label) /\ UNCHANGED job
    BY <1>3, <2>1 DEF ForgetEmail, ForgetIp, Forget, Active, Ended, Comes, LoginLabels
  <2>3. QED
    BY <2>1, <2>2, MovedOnly
<1>4. CASE CountEmail(r) \/ CountIp(r)
  <2>1. PICK label \in {"countIp", "setEmail"} : Goto(r, label)
    BY <1>4 DEF CountEmail, CountIp, Count
  <2>2. Active(r) /\ Comes(pc[r], label)
    BY <1>4 DEF CountEmail, CountIp, Count, Active, Ended, Comes, LoginLabels
  <2>3. \E j : job' = [job EXCEPT ![r] = j] /\ SameRequest(j, job[r])
    <3>1. job[r] \in Job
      BY DEF HandlersOK
    <3>2. \A n : SameRequest([job[r] EXCEPT !.attempts = n], job[r])
      BY <3>1 DEF SameRequest, Job
    <3>3. \A n : SameRequest([job[r] EXCEPT !.ipAttempts = n], job[r])
      BY <3>1 DEF SameRequest, Job
    <3>4. QED
      BY <1>4, <3>2, <3>3 DEF CountEmail, CountIp, Count
  <2>4. QED
    BY <2>1, <2>2, <2>3 DEF Moved
<1>5. CASE SetEmail(r) \/ SetIp(r)
  <2>1. PICK label \in {"setIp", "lockEmail", "lockIp", "rejected"} : Goto(r, label)
    BY <1>5 DEF SetEmail, SetIp, SetCounter
  <2>2. Active(r) /\ Comes(pc[r], label) /\ UNCHANGED job
    BY <1>5 DEF SetEmail, SetIp, SetCounter, Active, Ended, Comes, LoginLabels
  <2>3. QED
    BY <2>1, <2>2, MovedOnly
<1>6. CASE LockEmail(r) \/ LockIp(r)
  <2>1. PICK label \in {"lockIp", "rejected"} : Goto(r, label)
    BY <1>6 DEF LockEmail, LockIp, Lock
  <2>2. Active(r) /\ Comes(pc[r], label) /\ UNCHANGED job
    BY <1>6 DEF LockEmail, LockIp, Lock, Active, Ended, Comes, LoginLabels
  <2>3. QED
    BY <2>1, <2>2, MovedOnly
<1>7. CASE FindActive(r)
  <2>1. PICK label \in {"redeem", "rejected"} : Goto(r, label)
    BY <1>7 DEF FindActive, Proceed
  <2>2. Active(r) /\ Comes(pc[r], label) /\ UNCHANGED job
    BY <1>7 DEF FindActive, Proceed, Active, Ended, Comes, LoginLabels
  <2>3. QED
    BY <2>1, <2>2, MovedOnly
<1>8. CASE Redeem(r) \/ Revoke(r)
  <2>1. PICK label \in {"issue", "done"} : /\ Goto(r, label)
                                           /\ label = "issue" => pc[r] = "redeem"
                                           /\ label = "done" => pc[r] = "revoke"
    BY <1>8 DEF Redeem, Revoke, Drop
  <2>2. Active(r) /\ Comes(pc[r], label) /\ UNCHANGED job
    BY <1>8, <2>1 DEF Redeem, Revoke, Drop, Active, Ended, Comes, LoginLabels
  <2>3. QED
    BY <2>1, <2>2, MovedOnly
<1>9. CASE Validate(r)
  <2>1. pc[r] \in {"validate", "revalidate"} /\ job[r].op \in Guarded
    BY <1>9 DEF Validate, HandlersOK, Fits, OpAt, Ended
  <2>2. Entry[job[r].op] \in {"checkPassword", "writeSecret", "verifyCode", "findTarget",
                              "blacklist"}
    BY <2>1 DEF Entry, Guarded
  <2>3. PICK label \in {"rejected", "revalidate", "checkPassword", "writeSecret", "verifyCode",
                        "findTarget", "blacklist"} : Goto(r, label)
    BY <1>9, <2>2 DEF Validate, Proceed
  <2>4. Active(r) /\ Comes(pc[r], label) /\ UNCHANGED job
    BY <1>9, <2>1 DEF Validate, Proceed, Active, Ended, Comes, LoginLabels
  <2>5. QED
    BY <2>3, <2>4, MovedOnly
<1>10. CASE Blacklist(r)
  <2>1. PICK label \in {"done", "revoke"} : Goto(r, label)
    BY <1>10 DEF Blacklist
  <2>2. Active(r) /\ Comes(pc[r], label) /\ UNCHANGED job
    BY <1>10 DEF Blacklist, Active, Ended, Comes, LoginLabels
  <2>3. QED
    BY <2>1, <2>2, MovedOnly
<1>11. QED
  BY <1>1, <1>2, <1>3, <1>4, <1>5, <1>6, <1>7, <1>8, <1>9, <1>10 DEF SessionsStep

\* Every step is an arrival, a step of one handler, an expiry or a restart.
LEMMA StepKinds ==
  ASSUME StoreOK, HandlersOK, [Next]_vars
  PROVE  \/ \E r \in Requests : Arrival(r)
         \/ \E r \in Requests : HandlerStep(r) /\ Moved(r)
         \/ Expire
         \/ Restart
         \/ UNCHANGED vars
<1>1. ASSUME NEW r \in Requests, AuthArrive(r) \/ UserArrive(r) PROVE Arrival(r)
  BY <1>1, Arrives
<1>2. QED
  BY <1>1, AccountMoves, SessionMoves DEF Next, Terminated, HandlerStep

LEMMA MovedFacts ==
  ASSUME HandlersOK, NEW r \in Requests, Moved(r)
  PROVE  /\ Active(r) /\ Comes(pc[r], pc'[r]) /\ SameRequest(job'[r], job[r])
         /\ \A q \in Requests : q # r => pc'[q] = pc[q] /\ job'[q] = job[q]
<1>1. PICK label : Goto(r, label) /\ Comes(pc[r], label)
  BY DEF Moved
<1>2. PICK j : job' = [job EXCEPT ![r] = j] /\ SameRequest(j, job[r])
  BY DEF Moved
<1>3. pc'[r] = label /\ job'[r] = j
  BY <1>1, <1>2 DEF HandlersOK, Goto
<1>4. \A q \in Requests : q # r => pc'[q] = pc[q] /\ job'[q] = job[q]
  BY <1>1, <1>2 DEF HandlersOK, Goto
<1>5. QED
  BY <1>1, <1>2, <1>3, <1>4 DEF Moved

LEMMA ArrivalFacts ==
  ASSUME HandlersOK, NEW r \in Requests, Arrival(r)
  PROVE  /\ pc[r] = "idle" /\ (serial => \A q \in Requests : ~Active(q))
         /\ UNCHANGED <<tables, fixed, tokens, counters, events>>
         /\ Fits(pc'[r], job'[r]) /\ Arrived(pc'[r], job'[r])
         /\ \A q \in Requests : q # r => pc'[q] = pc[q] /\ job'[q] = job[q]
<1>1. PICK label \in Labels :
        /\ Goto(r, label)
        /\ \E j \in Job : job' = [job EXCEPT ![r] = j] /\ Fits(label, j) /\ Arrived(label, j)
  BY DEF Arrival
<1>2. PICK j \in Job : job' = [job EXCEPT ![r] = j] /\ Fits(label, j) /\ Arrived(label, j)
  BY <1>1
<1>3. pc'[r] = label /\ job'[r] = j
  BY <1>1, <1>2 DEF HandlersOK, Goto
<1>4. \A q \in Requests : q # r => pc'[q] = pc[q] /\ job'[q] = job[q]
  BY <1>1, <1>2 DEF HandlersOK, Goto
<1>5. QED
  BY <1>2, <1>3, <1>4 DEF Arrival

LEMMA RestartFacts ==
  ASSUME HandlersOK, Restart
  PROVE  /\ UNCHANGED <<tables, fixed, job, holder, access>>
         /\ \A q \in Requests : pc'[q] = IF Active(q) THEN "failed" ELSE pc[q]
BY DEF Restart

LEMMA ExpireFacts ==
  ASSUME Expire
  PROVE  UNCHANGED <<oauth, fixed, pc, job, holder>>
BY DEF Expire, ExpireReset, ExpireAccess, ExpireRefresh, ExpireAttempts, ExpireLock, tables,
       tokens

-----------------------------------------------------------------------------
(* Two-factor sign-in. *)

\* What a step of a handler may do to the second factor of a user.
RowSecured(old, new) ==
  /\ new.twoFactor => new.secret # None
  /\ old \in Account /\ old.secret # None => new.secret # None

LEMMA SecretRows ==
  ASSUME NEW row \in Account
  PROVE  /\ \A t : [row EXCEPT !.reset = t].twoFactor = row.twoFactor
                   /\ [row EXCEPT !.reset = t].secret = row.secret
         /\ \A t : [row EXCEPT !.secret = t].twoFactor = row.twoFactor
                   /\ [row EXCEPT !.secret = t].secret = t
         /\ \A p : AfterReset(row, p).twoFactor = row.twoFactor
                   /\ AfterReset(row, p).secret = row.secret
         /\ \A p : [row EXCEPT !.password = p].twoFactor = row.twoFactor
                   /\ [row EXCEPT !.password = p].secret = row.secret
         /\ \A on : [row EXCEPT !.active = on].twoFactor = row.twoFactor
                    /\ [row EXCEPT !.active = on].secret = row.secret
         /\ [row EXCEPT !.twoFactor = TRUE].secret = row.secret
BY DEF Account, AfterReset

LEMMA SecretWrites ==
  ASSUME StoreOK, HandlersOK, Secured, NEW r \in Requests, AccountsStep(r), NEW e \in Emails
  PROVE  RowSecured(account[e], account'[e])
<1> DEFINE j == job[r]
<1>1. account[e].twoFactor => account[e].secret # None
  BY DEF Secured
<1>2. Fits(pc[r], j) /\ j \in Job
  BY DEF HandlersOK
<1>3. account' = account => RowSecured(account[e], account'[e])
  BY <1>1 DEF RowSecured
<1>4. pc[r] \in {"writeToken", "writePassword", "changePassword", "writeSecret", "enable"}
        => account[j.email] \in Account /\ j.email \in Emails
  BY <1>2 DEF Fits, Unknown, LoginLabels, Ended, Known
<1>5. CASE CreateUser(r)
  <2>1. CASE account' = account
    BY <1>3, <2>1
  <2>2. CASE account[j.email] = NoAccount /\
             account' = [account EXCEPT ![j.email] =
                           NewAccount(j.password, AssignedRole(j.role))]
    <3>1. NewAccount(j.password, AssignedRole(j.role)).twoFactor = FALSE
      BY <1>2, AccountTypes DEF Job
    <3>2. NoAccount \notin Account
      BY AccountTypes
    <3>3. QED
      BY <1>1, <2>2, <3>1, <3>2 DEF RowSecured, StoreOK
  <2>3. QED
    BY <1>5, <2>1, <2>2 DEF CreateUser, Proceed, WriteAccount, tables
<1>6. CASE WriteResetToken(r)
  <2>1. account[j.email] \in Account /\ account' =
          [account EXCEPT ![j.email] = [account[j.email] EXCEPT !.reset = r]]
    BY <1>4, <1>6 DEF WriteResetToken, WriteAccount
  <2>2. QED
    BY <1>1, <2>1, SecretRows DEF RowSecured, StoreOK
<1>7. CASE WritePassword(r)
  <2>1. account[j.email] \in Account /\ account' =
          [account EXCEPT ![j.email] = AfterReset(account[j.email], j.password)]
    BY <1>4, <1>7 DEF WritePassword, WriteAccount
  <2>2. QED
    BY <1>1, <2>1, SecretRows DEF RowSecured, StoreOK
<1>8. CASE ChangePassword(r)
  <2>1. account[j.email] \in Account /\ account' =
          [account EXCEPT ![j.email] = [account[j.email] EXCEPT !.password = j.password]]
    BY <1>4, <1>8 DEF ChangePassword, WriteAccount
  <2>2. QED
    BY <1>1, <2>1, SecretRows DEF RowSecured, StoreOK
<1>9. CASE GenerateSecret(r)
  <2>1. account[j.email] \in Account /\ account' =
          [account EXCEPT ![j.email] = [account[j.email] EXCEPT !.secret = r]]
    BY <1>4, <1>9 DEF GenerateSecret, WriteAccount
  <2>2. r # None
    BY AccountsAssumption
  <2>3. QED
    BY <1>1, <2>1, <2>2, SecretRows DEF RowSecured, StoreOK
<1>10. CASE Enable(r)
  <2>1. account[j.email] \in Account /\ account' =
          [account EXCEPT ![j.email] = [account[j.email] EXCEPT !.twoFactor = TRUE]]
    BY <1>4, <1>10 DEF Enable, WriteAccount
  <2>2. account[j.email].secret # None
    BY <1>10 DEF Enable, Secured
  <2>3. QED
    BY <1>1, <2>1, <2>2, SecretRows DEF RowSecured, StoreOK
<1>11. CASE SetActive(r)
  <2>1. account[j.target] \in Account /\ account' =
          [account EXCEPT ![j.target] = [account[j.target] EXCEPT !.active = j.active]]
    BY <1>2, <1>11 DEF SetActive, WriteAccount, Fits, Ended, Known
  <2>2. QED
    BY <1>1, <2>1, SecretRows DEF RowSecured, StoreOK
<1>12. CASE \/ CheckBreach(r) \/ FindEmail(r) \/ Link(r) \/ CheckPassword(r)
            \/ VerifyCode(r) \/ FindTarget(r)
  <2>1. account' = account
    BY <1>12 DEF CheckBreach, FindEmail, Link, CheckPassword, VerifyCode, FindTarget, Proceed,
                 tables
  <2>2. QED
    BY <1>3, <2>1
<1>13. QED
  BY <1>5, <1>6, <1>7, <1>8, <1>9, <1>10, <1>11, <1>12 DEF AccountsStep

\* What a step of Sessions leaves alone.
LEMMA SessionsLeave ==
  ASSUME NEW r \in Requests, SessionsStep(r)
  PROVE  UNCHANGED <<account, oauth, menu, serial>>
BY DEF SessionsStep, IssueTokens, CheckIp, FindUser, ForgetEmail, ForgetIp, Forget, CountEmail,
       CountIp, Count, SetEmail, SetIp, SetCounter, LockEmail, LockIp, Lock, FindActive, Redeem,
       Revoke, Drop, Validate, Blacklist, Proceed, tables, fixed

LEMMA EnableEntered ==
  ASSUME HandlersOK, NEW r \in Requests, HandlerStep(r), Moved(r), pc'[r] = "enable"
  PROVE  account[job[r].email].secret # None
<1>1. pc[r] = "verifyCode"
  BY MovedFacts DEF Comes
<1>2. VerifyCode(r)
  BY <1>1 DEF HandlerStep, SessionsStep, IssueTokens, CheckIp, FindUser, ForgetEmail, ForgetIp,
       Forget, CountEmail, CountIp, Count, SetEmail, SetIp, SetCounter, LockEmail, LockIp, Lock,
       FindActive, Redeem, Revoke, Drop, Validate, Blacklist, AccountsStep, CheckBreach,
       CreateUser, FindEmail, Link, WriteResetToken, WritePassword, CheckPassword,
       ChangePassword, GenerateSecret, Enable, FindTarget, SetActive
<1>3. CASE CodeValid(job[r].email, job[r].token)
  BY <1>3 DEF CodeValid
<1>4. CASE ~CodeValid(job[r].email, job[r].token)
  BY <1>2, <1>4 DEF VerifyCode, Proceed, Goto, HandlersOK
<1>5. QED
  BY <1>3, <1>4

LEMMA SecuredStep ==
  ASSUME StoreOK, HandlersOK, Secured, [Next]_vars
  PROVE  Secured'
<1>1. ASSUME NEW r \in Requests, Arrival(r) PROVE Secured'
  <2>1. account' = account
    BY <1>1, ArrivalFacts DEF tables
  <2>2. pc'[r] # "enable" /\ \A q \in Requests : q # r => pc'[q] = pc[q] /\ job'[q] = job[q]
    BY <1>1, ArrivalFacts DEF Arrived
  <2>3. QED
    BY <2>1, <2>2 DEF Secured
<1>2. ASSUME NEW r \in Requests, HandlerStep(r), Moved(r) PROVE Secured'
  <2>1. \A e \in Emails : RowSecured(account[e], account'[e])
    <3>1. CASE SessionsStep(r)
      BY <3>1, SessionsLeave DEF RowSecured, Secured
    <3>2. CASE AccountsStep(r)
      BY <3>2, SecretWrites
    <3>3. QED
      BY <1>2, <3>1, <3>2 DEF HandlerStep
  <2>2. ASSUME NEW q \in Requests, pc'[q] = "enable"
        PROVE  account'[job'[q].email].secret # None
    <3>1. job'[q].email = job[q].email
      BY <1>2, MovedFacts DEF SameRequest
    <3>2. pc[q] = "enable" \/ (q = r /\ pc[r] = "verifyCode")
      BY <1>2, <2>2, MovedFacts DEF Comes
    <3>3. account[job[q].email].secret # None
      BY <1>2, <2>2, <3>2, EnableEntered, MovedFacts DEF Secured
    <3>4. job[q].email \in Emails /\ account[job[q].email] \in Account
      BY <3>2 DEF HandlersOK, Fits, Unknown, LoginLabels, Ended, Known
    <3>5. QED
      BY <2>1, <3>1, <3>3, <3>4 DEF RowSecured
  <2>3. QED
    BY <2>1, <2>2 DEF Secured, RowSecured
<1>3. CASE Expire
  <2>1. pc' = pc /\ job' = job
    BY <1>3, ExpireFacts
  <2>2. CASE \E e \in Emails : ExpireReset(e)
    <3>1. PICK e \in Emails : ExpireReset(e)
      BY <2>2
    <3>2. account[e] \in Account /\ account' = [account EXCEPT ![e] = [account[e] EXCEPT !.reset = None]]
      BY <3>1, AccountTypes DEF ExpireReset, StoreOK
    <3>3. \A d \in Emails : account'[d].twoFactor = account[d].twoFactor
                            /\ account'[d].secret = account[d].secret
      BY <3>2, SecretRows DEF StoreOK
    <3>4. \A q \in Requests : pc[q] = "enable" => job[q].email \in Emails
      BY DEF HandlersOK, Fits, Ended
    <3>5. QED
      BY <2>1, <3>3, <3>4 DEF Secured
  <2>3. CASE account' = account
    BY <2>1, <2>3 DEF Secured
  <2>4. QED
    BY <1>3, <2>2, <2>3 DEF Expire, ExpireAccess, ExpireRefresh, ExpireAttempts, ExpireLock,
                            tables
<1>4. CASE Restart
  <2>1. account' = account /\ job' = job /\ \A q \in Requests : pc'[q] # "enable"
    BY <1>4, RestartFacts DEF tables, Active, Ended
  <2>2. QED
    BY <2>1 DEF Secured
<1>5. CASE UNCHANGED vars
  BY <1>5 DEF vars, tables, Secured
<1>6. QED
  BY <1>1, <1>2, <1>3, <1>4, <1>5, StepKinds

LEMMA InitHandlers ==
  ASSUME Init
  PROVE  \A r \in Requests : pc[r] = "idle" /\ job[r] = NoJob
BY DEF Init, AccountsInit

\* A user whose second factor is on has a secret, however requests interleave:
\* the handler that turns it on does not look again after it verified the code,
\* but no handler takes a secret away.
THEOREM SecondFactorUsable == Spec => []TwoFactorUsable
<1>1. Init => TypeInv /\ Secured
  <2>1. Init => Secured
    BY InitHandlers, AccountsAssumption DEF Init, AccountsInit, Secured
  <2>2. QED
    BY <2>1, InitTyped, TwoParts
<1>2. TypeInv /\ Secured /\ [Next]_vars => TypeInv' /\ Secured'
  <2>1. (StoreOK' /\ HandlersOK') => TypeInv'
    BY DEF TypeInv, TypeOK, AccountsTypeOK, StoreOK, HandlersOK
  <2>2. QED
    BY <2>1, TwoParts, StepTyped, SecuredStep
<1>3. TypeInv /\ Secured => TwoFactorUsable
  BY DEF Secured, TwoFactorUsable
<1>4. QED
  BY <1>1, <1>2, <1>3, PTL DEF Spec

-----------------------------------------------------------------------------
(* Google sign-in. *)

LEMMA LinkStays ==
  ASSUME StoreOK, HandlersOK, NEW r \in Requests, HandlerStep(r), NEW g \in GoogleIds,
         oauth[g] # None
  PROVE  oauth'[g] = oauth[g]
<1>1. CASE SessionsStep(r)
  BY <1>1, SessionsLeave
<1>2. CASE AccountsStep(r) /\ ~Link(r)
  BY <1>2 DEF AccountsStep, CheckBreach, CreateUser, FindEmail, WriteResetToken, WritePassword,
       CheckPassword, ChangePassword, GenerateSecret, VerifyCode, Enable, FindTarget, SetActive,
       Proceed, WriteAccount, tables
<1>3. CASE Link(r)
  <2>1. oauth' = oauth \/ oauth' = [oauth EXCEPT ![job[r].google] =
                                      IF @ = None THEN job[r].email ELSE @]
    BY <1>3 DEF Link, Proceed, tables
  <2>2. QED
    BY <2>1 DEF StoreOK
<1>4. QED
  BY <1>1, <1>2, <1>3 DEF HandlerStep

\* Which action a handler takes at a label.
LEMMA ActionAt ==
  ASSUME NEW r \in Requests, HandlerStep(r)
  PROVE  /\ pc[r] = "link" => Link(r)
         /\ pc[r] = "createUser" => CreateUser(r)
         /\ pc[r] = "writeToken" => WriteResetToken(r)
         /\ pc[r] = "writePassword" => WritePassword(r)
         /\ pc[r] = "breach" => CheckBreach(r)
         /\ pc[r] = "issue" => IssueTokens(r)
         /\ pc[r] = "redeem" => Redeem(r)
         /\ pc[r] = "blacklist" => Blacklist(r)
         /\ pc[r] = "revoke" => Revoke(r)
BY DEF HandlerStep, SessionsStep, IssueTokens, CheckIp, FindUser, ForgetEmail, ForgetIp,
       Forget, CountEmail, CountIp, Count, SetEmail, SetIp, SetCounter, LockEmail, LockIp, Lock,
       FindActive, Redeem, Revoke, Drop, Validate, Blacklist, AccountsStep, CheckBreach,
       CreateUser, FindEmail, Link, WriteResetToken, WritePassword, CheckPassword,
       ChangePassword, GenerateSecret, VerifyCode, Enable, FindTarget, SetActive

LEMMA LinkEntered ==
  ASSUME StoreOK, HandlersOK, NEW r \in Requests, HandlerStep(r), Moved(r),
         job[r].op = "google", pc'[r] = "issue"
  PROVE  /\ job[r].google \in GoogleIds /\ job[r].email \in Emails
         /\ oauth'[job[r].google] = job[r].email
<1>1. Fits(pc[r], job[r]) /\ pc \in [Requests -> Labels]
  BY DEF HandlersOK
<1>2. pc[r] \in {"createUser", "link", "forgetIp", "redeem"}
  BY MovedFacts DEF Comes
<1>3. pc[r] \in {"createUser", "link"}
  BY <1>1, <1>2 DEF Fits, OpAt, LoginLabels, Ended
<1>4. pc[r] # "createUser"
  <2>1. SUFFICES ASSUME CreateUser(r) PROVE FALSE
    BY ActionAt
  <2>2. pc'[r] \in {"rejected", "link"}
    BY <1>1, <2>1 DEF CreateUser, Proceed, WriteAccount, Goto
  <2>3. QED
    BY <2>2
<1>5. Link(r) /\ job[r].google \in GoogleIds /\ job[r].email \in Emails
  BY <1>1, <1>3, <1>4, ActionAt DEF Fits, Ended
<1>6. Linkable(job[r].google)
  BY <1>1, <1>5 DEF Link, Proceed, Goto
<1>7. QED
  BY <1>5, <1>6 DEF Link, Linkable, StoreOK

LEMMA LinkedStep ==
  ASSUME StoreOK, HandlersOK, Linked, [Next]_vars
  PROVE  Linked'
<1>1. ASSUME NEW r \in Requests, Arrival(r) PROVE Linked'
  <2>1. oauth' = oauth /\ \A q \in Requests : q # r => pc'[q] = pc[q] /\ job'[q] = job[q]
    BY <1>1, ArrivalFacts DEF tables
  <2>2. (job'[r].op = "google" /\ pc'[r] \in {"issue", "done"}) =>
          /\ pc'[r] = "issue" /\ oauth[job'[r].google] = job'[r].email
          /\ Fits(pc'[r], job'[r])
    BY <1>1, ArrivalFacts DEF Arrived
  <2>3. (job'[r].op = "google" /\ pc'[r] \in {"issue", "done"}) =>
          /\ job'[r].google \in GoogleIds /\ job'[r].email \in Emails
          /\ oauth[job'[r].google] = job'[r].email
    BY <2>2 DEF Fits, Ended
  <2>4. QED
    BY <2>1, <2>3 DEF Linked
<1>2. ASSUME NEW r \in Requests, HandlerStep(r), Moved(r) PROVE Linked'
  <2>1. ASSUME NEW q \in Requests, job[q].op = "google", pc[q] \in {"issue", "done"}
        PROVE  /\ job[q].google \in GoogleIds /\ job[q].email \in Emails
               /\ oauth'[job[q].google] = job[q].email
    <3>1. /\ job[q].google \in GoogleIds /\ job[q].email \in Emails
          /\ oauth[job[q].google] = job[q].email
      BY <2>1 DEF Linked
    <3>2. oauth[job[q].google] # None
      BY <3>1, AccountsAssumption
    <3>3. QED
      BY <1>2, <3>1, <3>2, LinkStays
  <2>2. ASSUME NEW q \in Requests, job'[q].op = "google", pc'[q] \in {"issue", "done"}
        PROVE  /\ job'[q].google \in GoogleIds /\ job'[q].email \in Emails
               /\ oauth'[job'[q].google] = job'[q].email
    <3>1. SameRequest(job'[q], job[q])
      BY <1>2, MovedFacts DEF SameRequest
    <3>2. CASE pc[q] \in {"issue", "done"}
      BY <2>1, <2>2, <3>1, <3>2 DEF SameRequest
    <3>3. CASE pc[q] \notin {"issue", "done"}
      <4>1. q = r
        BY <1>2, <2>2, <3>3, MovedFacts
      <4>2. Fits(pc[r], job[r]) /\ Comes(pc[r], pc'[r]) /\ job[r].op = "google"
        BY <1>2, <2>2, <3>1, <4>1, MovedFacts DEF HandlersOK, SameRequest
      <4>3. pc'[r] # "done"
        BY <3>3, <4>1, <4>2 DEF Comes, Fits, OpAt, Ended
      <4>4. QED
        BY <1>2, <2>2, <3>1, <4>1, <4>2, <4>3, LinkEntered DEF SameRequest
    <3>4. QED
      BY <3>2, <3>3
  <2>3. QED
    BY <2>2 DEF Linked
<1>3. CASE Expire
  BY <1>3, ExpireFacts DEF Linked
<1>4. CASE Restart
  <2>1. oauth' = oauth /\ job' = job /\ \A q \in Requests : pc'[q] \in {pc[q], "failed"}
    BY <1>4, RestartFacts DEF tables
  <2>2. QED
    BY <2>1 DEF Linked
<1>5. CASE UNCHANGED vars
  BY <1>5 DEF vars, tables, Linked
<1>6. QED
  BY <1>1, <1>2, <1>3, <1>4, <1>5, StepKinds

\* However sign-ins with one Google account overlap, tokens are issued for the
\* user that account is linked to: the unique key stops the second link, and
\* the handler it stops issues nothing.
THEOREM GoogleUserIsLinked == Spec => []GoogleLinked
<1>1. Init => TypeInv /\ Linked
  <2>1. Init => Linked
    BY InitHandlers DEF Linked
  <2>2. QED
    BY <2>1, InitTyped, TwoParts
<1>2. TypeInv /\ Linked /\ [Next]_vars => TypeInv' /\ Linked'
  <2>1. (StoreOK' /\ HandlersOK') => TypeInv'
    BY DEF TypeInv, TypeOK, AccountsTypeOK, StoreOK, HandlersOK
  <2>2. QED
    BY <2>1, TwoParts, StepTyped, LinkedStep
<1>3. TypeInv /\ Linked => GoogleLinked
  BY DEF Linked, GoogleLinked
<1>4. QED
  BY <1>1, <1>2, <1>3, PTL DEF Spec

-----------------------------------------------------------------------------
(* Refresh tokens. *)

\* A handler that is done stays done.
LEMMA DoneStays ==
  ASSUME StoreOK, HandlersOK, [Next]_vars, NEW q \in Requests, pc[q] = "done"
  PROVE  pc'[q] = "done" /\ job'[q] = job[q]
<1>1. ASSUME NEW r \in Requests, Arrival(r) PROVE pc'[q] = "done" /\ job'[q] = job[q]
  BY <1>1, ArrivalFacts
<1>2. ASSUME NEW r \in Requests, HandlerStep(r), Moved(r)
      PROVE  pc'[q] = "done" /\ job'[q] = job[q]
  BY <1>2, MovedFacts DEF Active, Ended
<1>3. CASE Expire
  BY <1>3, ExpireFacts
<1>4. CASE Restart
  BY <1>4, RestartFacts DEF Active, Ended
<1>5. CASE UNCHANGED vars
  BY <1>5 DEF vars
<1>6. QED
  BY <1>1, <1>2, <1>3, <1>4, <1>5, StepKinds

\* Tokens come into the cache, and get an owner, only when they are issued.
LEMMA TokenChanges ==
  ASSUME StoreOK, HandlersOK, NEW r \in Requests, HandlerStep(r), NEW t \in Tokens
  PROVE  \/ holder'[t] = holder[t] /\ refresh'[t] \in {refresh[t], None}
         \/ IssueTokens(r) /\ t = r /\ holder'[t] \in Emails
<1>1. CASE IssueTokens(r)
  <2>1. job[r].email \in Emails
    BY <1>1 DEF IssueTokens, HandlersOK, Fits, Ended
  <2>2. QED
    BY <1>1, <2>1 DEF IssueTokens, StoreOK
<1>2. CASE Redeem(r) \/ Revoke(r)
  BY <1>2 DEF Redeem, Revoke, Drop, Without, StoreOK
<1>3. CASE SessionsStep(r) /\ ~IssueTokens(r) /\ ~Redeem(r) /\ ~Revoke(r)
  BY <1>3 DEF SessionsStep, CheckIp, FindUser, ForgetEmail, ForgetIp, Forget, CountEmail,
       CountIp, Count, SetEmail, SetIp, SetCounter, LockEmail, LockIp, Lock, FindActive,
       Validate, Blacklist, tokens
<1>4. CASE UNCHANGED tokens
  BY <1>4 DEF tokens
<1>5. QED
  BY <1>1, <1>2, <1>3, <1>4 DEF HandlerStep

\* A handler spends its token when it leaves the cache's delete.
LEMMA SpendsEntered ==
  ASSUME StoreOK, HandlersOK, NEW r \in Requests, HandlerStep(r), Moved(r), NEW t \in Tokens,
         Spends(r, t)'
  PROVE  Spends(r, t) \/ refresh'[t] = None
<1>1. Fits(pc[r], job[r]) /\ pc \in [Requests -> Labels]
  BY DEF HandlersOK
<1>2. Comes(pc[r], pc'[r]) /\ job[r].op = job'[r].op /\ job[r].token = job'[r].token
  BY MovedFacts DEF SameRequest
<1>3. job[r].token = t
  BY <1>2 DEF Spends
<1>4. CASE job[r].op = "refresh" /\ pc'[r] = "issue"
  <2>1. pc[r] = "redeem"
    BY <1>1, <1>2, <1>4 DEF Comes, Fits, OpAt, Ended, LoginLabels
  <2>2. Redeem(r)
    BY <2>1, ActionAt
  <2>3. QED
    BY <1>3, <2>2 DEF Redeem, Drop, Without, StoreOK
<1>5. CASE job[r].op = "refresh" /\ pc'[r] = "done"
  <2>1. pc[r] = "issue"
    BY <1>1, <1>2, <1>5 DEF Comes, Fits, OpAt, Ended, LoginLabels
  <2>2. QED
    BY <1>3, <1>5, <2>1 DEF Spends
<1>6. CASE job[r].op = "logout" /\ pc'[r] = "done"
  <2>1. pc[r] \in {"blacklist", "revoke"}
    BY <1>1, <1>2, <1>6 DEF Comes, Fits, OpAt, Ended, LoginLabels
  <2>2. CASE pc[r] = "blacklist"
    <3>1. Blacklist(r) /\ t # None
      BY <2>2, ActionAt, AccountsAssumption DEF Tokens
    <3>2. pc'[r] = "revoke"
      BY <1>1, <1>3, <3>1 DEF Blacklist, Goto
    <3>3. QED
      BY <1>6, <3>2
  <2>3. CASE pc[r] = "revoke"
    <3>1. Revoke(r)
      BY <2>3, ActionAt
    <3>2. QED
      BY <1>3, <3>1 DEF Revoke, Drop, Without, StoreOK
  <2>4. QED
    BY <2>1, <2>2, <2>3
<1>7. QED
  BY <1>2, <1>4, <1>5, <1>6 DEF Spends

LEMMA SpentStep ==
  ASSUME StoreOK, HandlersOK, Spent, [Next]_vars
  PROVE  Spent'
<1>1. ASSUME NEW r \in Requests, Arrival(r) PROVE Spent'
  <2>1. /\ holder' = holder /\ refresh' = refresh
        /\ \A q \in Requests : q # r => pc'[q] = pc[q] /\ job'[q] = job[q]
        /\ pc[r] = "idle" /\ Arrived(pc'[r], job'[r])
    BY <1>1, ArrivalFacts DEF tokens
  <2>2. \A t \in Requests : holder'[t] # None => pc'[t] = "done"
    BY <2>1 DEF Spent
  <2>3. \A q \in Requests : (job'[q].op \in {"refresh", "logout"} /\ job'[q].token # None)
                              => job'[q].token \in Tokens /\ holder'[job'[q].token] # None
    BY <2>1 DEF Spent, Arrived
  <2>4. \A q \in Requests, t \in Tokens : Spends(q, t)' => refresh'[t] = None
    BY <2>1 DEF Spent, Spends, Arrived
  <2>5. QED
    BY <2>2, <2>3, <2>4 DEF Spent
<1>2. ASSUME NEW r \in Requests, HandlerStep(r), Moved(r) PROVE Spent'
  <2>1. \A q \in Requests : SameRequest(job'[q], job[q])
    BY <1>2, MovedFacts DEF SameRequest
  <2>2. IssueTokens(r) => pc[r] = "issue" /\ pc'[r] = "done" /\ holder[r] = None
    BY DEF IssueTokens, Goto, HandlersOK, Spent
  <2>3. ASSUME NEW t \in Requests, holder'[t] # None PROVE pc'[t] = "done"
    <3>1. holder[t] # None \/ (IssueTokens(r) /\ t = r)
      BY <1>2, <2>3, TokenChanges DEF Tokens
    <3>2. CASE holder[t] # None
      <4>1. pc[t] = "done"
        BY <3>2 DEF Spent
      <4>2. QED
        BY <4>1, DoneStays
    <3>3. QED
      BY <2>2, <3>1, <3>2
  <2>4. ASSUME NEW q \in Requests, job'[q].op \in {"refresh", "logout"}, job'[q].token # None
        PROVE  job'[q].token \in Tokens /\ holder'[job'[q].token] # None
    <3>1. job[q].op = job'[q].op /\ job[q].token = job'[q].token
      BY <2>1 DEF SameRequest
    <3>2. job[q].token \in Tokens /\ holder[job[q].token] # None
      BY <2>4, <3>1 DEF Spent
    <3>3. holder'[job[q].token] # None
      BY <1>2, <3>2, TokenChanges, AccountsAssumption
    <3>4. QED
      BY <3>1, <3>2, <3>3
  <2>5. ASSUME NEW q \in Requests, NEW t \in Tokens, Spends(q, t)' PROVE refresh'[t] = None
    <3>1. Spends(q, t) \/ refresh'[t] = None
      <4>1. CASE q = r
        BY <1>2, <2>5, <4>1, SpendsEntered
      <4>2. CASE q # r
        BY <1>2, <2>5, <4>2, MovedFacts DEF Spends
      <4>3. QED
        BY <4>1, <4>2
    <3>2. CASE Spends(q, t)
      <4>1. refresh[t] = None
        BY <3>2 DEF Spent
      <4>2. holder[t] # None
        BY <3>2, AccountsAssumption DEF Spent, Spends, Tokens
      <4>3. ~(IssueTokens(r) /\ t = r)
        BY <2>2, <4>2
      <4>4. QED
        BY <1>2, <4>1, <4>3, TokenChanges
    <3>3. QED
      BY <3>1, <3>2
  <2>6. QED
    BY <2>3, <2>4, <2>5 DEF Spent
<1>3. ASSUME holder' = holder, job' = job, \A t \in Tokens : refresh'[t] \in {refresh[t], None},
             \A q \in Requests : pc'[q] = "done" <=> pc[q] = "done",
             \A q \in Requests : pc'[q] = "issue" => pc[q] = "issue"
      PROVE  Spent'
  <2>1. \A t \in Requests : holder'[t] # None => pc'[t] = "done"
    BY <1>3 DEF Spent
  <2>2. \A q \in Requests : (job'[q].op \in {"refresh", "logout"} /\ job'[q].token # None)
                              => job'[q].token \in Tokens /\ holder'[job'[q].token] # None
    BY <1>3 DEF Spent
  <2>3. \A q \in Requests, t \in Tokens : Spends(q, t)' => refresh'[t] = None
    BY <1>3 DEF Spent, Spends
  <2>4. QED
    BY <2>1, <2>2, <2>3 DEF Spent
<1>4. CASE Expire
  <2>1. pc' = pc /\ job' = job /\ holder' = holder
    BY <1>4, ExpireFacts
  <2>2. \A t \in Tokens : refresh'[t] \in {refresh[t], None}
    BY <1>4 DEF Expire, ExpireReset, ExpireAccess, ExpireRefresh, ExpireAttempts, ExpireLock,
                tokens, StoreOK
  <2>3. QED
    BY <1>3, <2>1, <2>2
<1>5. CASE Restart
  <2>1. job' = job /\ holder' = holder
    BY <1>5, RestartFacts
  <2>2. \A q \in Requests : (pc'[q] = "done" <=> pc[q] = "done") /\ pc'[q] # "issue"
    BY <1>5, RestartFacts DEF Active, Ended
  <2>3. \A t \in Tokens : refresh'[t] \in {refresh[t], None}
    BY <1>5 DEF Restart
  <2>4. QED
    BY <1>3, <2>1, <2>2, <2>3
<1>6. CASE UNCHANGED vars
  BY <1>3, <1>6 DEF vars, tokens
<1>7. QED
  BY <1>1, <1>2, <1>4, <1>5, <1>6, StepKinds

LEMMA InitSpent == Init => Spent
<1> SUFFICES ASSUME Init PROVE Spent
  OBVIOUS
<1>1. \A r \in Requests : pc[r] = "idle" /\ job[r].token = None /\ job[r].op = None
  BY InitHandlers, BlankJob
<1>2. \A t \in Requests : holder[t] = None
  BY AccountsAssumption DEF Init, Tokens
<1>3. None \notin Tokens
  BY AccountsAssumption DEF Tokens
<1>4. QED
  BY <1>1, <1>2, <1>3 DEF Spent, Spends

\* A refresh token that a request has redeemed, or a logout has revoked, is
\* refused from then on: no step lets a second request past its look-up.
THEOREM RefreshTokenSpentOnce == Spec => TokenSpentOnce
<1>1. Init => TypeInv /\ Spent
  BY InitSpent, InitTyped, TwoParts
<1>2. TypeInv /\ Spent /\ [Next]_vars => TypeInv' /\ Spent'
  <2>1. (StoreOK' /\ HandlersOK') => TypeInv'
    BY DEF TypeInv, TypeOK, AccountsTypeOK, StoreOK, HandlersOK
  <2>2. QED
    BY <2>1, TwoParts, StepTyped, SpentStep
<1>3. TypeInv /\ Spent /\ [Next]_vars =>
      [\A r, q \in Requests :
       (/\ pc[r] = "idle" /\ job'[r].op = "refresh" /\ pc'[r] = "findActive"
        /\ job[q].token = job'[r].token /\ job[q].op \in {"refresh", "logout"}
        /\ q # r)
       => pc[q] # "done" /\ ~(job[q].op = "refresh" /\ pc[q] = "issue")]_vars
  <2> SUFFICES ASSUME StoreOK, HandlersOK, Spent, [Next]_vars,
                      NEW r \in Requests, NEW q \in Requests,
                      pc[r] = "idle", job'[r].op = "refresh", pc'[r] = "findActive",
                      job[q].token = job'[r].token, job[q].op \in {"refresh", "logout"}
               PROVE  pc[q] # "done" /\ ~(job[q].op = "refresh" /\ pc[q] = "issue")
    BY TwoParts
  <2>1. Arrival(r)
    <3>1. ASSUME NEW s \in Requests, Arrival(s) PROVE Arrival(r)
      BY <3>1, ArrivalFacts
    <3>2. ASSUME NEW s \in Requests, HandlerStep(s), Moved(s) PROVE FALSE
      BY <3>2, MovedFacts DEF Active
    <3>3. ~Expire /\ ~Restart /\ ~UNCHANGED vars
      BY ExpireFacts, RestartFacts DEF vars, Active
    <3>4. QED
      BY <3>1, <3>2, <3>3, StepKinds
  <2>2. refresh[job'[r].token] # None /\ job'[r].token \in Tokens
    BY <2>1, ArrivalFacts DEF Arrived, Fits, Ended
  <2>3. ~Spends(q, job[q].token)
    BY <2>2 DEF Spent
  <2>4. QED
    BY <2>3 DEF Spends
<1>4. QED
  BY <1>1, <1>2, <1>3, PTL DEF Spec, TokenSpentOnce

-----------------------------------------------------------------------------
(* Password reset. *)

LEMMA SerialStays ==
  ASSUME StoreOK, HandlersOK, [Next]_vars
  PROVE  serial' = serial
<1>1. ASSUME NEW r \in Requests, Arrival(r) PROVE serial' = serial
  BY <1>1, ArrivalFacts DEF fixed
<1>2. ASSUME NEW r \in Requests, HandlerStep(r) PROVE serial' = serial
  <2>1. CASE SessionsStep(r)
    BY <2>1, SessionsLeave
  <2>2. CASE AccountsStep(r)
    BY <2>2 DEF AccountsStep, CheckBreach, CreateUser, FindEmail, Link, WriteResetToken,
         WritePassword, CheckPassword, ChangePassword, GenerateSecret, VerifyCode, Enable,
         FindTarget, SetActive, Proceed, WriteAccount, fixed
  <2>3. QED
    BY <1>2, <2>1, <2>2 DEF HandlerStep
<1>3. QED
  BY <1>1, <1>2, StepKinds, ExpireFacts, RestartFacts DEF vars, fixed

LEMMA OneActiveStep ==
  ASSUME StoreOK, HandlersOK, OneActive, [Next]_vars
  PROVE  OneActive'
<1>1. ASSUME NEW r \in Requests, Arrival(r) PROVE OneActive'
  <2>1. /\ \A q \in Requests : q # r => pc'[q] = pc[q]
        /\ serial => \A q \in Requests : ~Active(q)
        /\ serial' = serial
    BY <1>1, ArrivalFacts DEF fixed
  <2>2. QED
    BY <2>1 DEF OneActive, Active
<1>2. ASSUME NEW r \in Requests, HandlerStep(r), Moved(r) PROVE OneActive'
  <2>1. Active(r) /\ \A q \in Requests : q # r => pc'[q] = pc[q]
    BY <1>2, MovedFacts
  <2>2. serial' = serial
    BY SerialStays
  <2>3. QED
    BY <2>1, <2>2 DEF OneActive, Active
<1>3. CASE Expire
  BY <1>3, ExpireFacts DEF OneActive, Active, fixed
<1>4. CASE Restart
  BY <1>4, RestartFacts DEF OneActive, Active, Ended, fixed
<1>5. CASE UNCHANGED vars
  BY <1>5 DEF vars, OneActive, Active, fixed
<1>6. QED
  BY <1>1, <1>2, <1>3, <1>4, <1>5, StepKinds

LEMMA ResetRows ==
  ASSUME NEW row \in Account
  PROVE  /\ \A t \in Requests \cup {None} : [row EXCEPT !.reset = t].reset = t
         /\ \A t : [row EXCEPT !.secret = t].reset = row.reset
         /\ \A p : AfterReset(row, p).reset = None
         /\ \A p : [row EXCEPT !.password = p].reset = row.reset
         /\ \A on : [row EXCEPT !.active = on].reset = row.reset
         /\ [row EXCEPT !.twoFactor = TRUE].reset = row.reset
BY DEF Account, AfterReset

\* Only the mail of forgotPassword brings a reset token into the table.
LEMMA ResetWrites ==
  ASSUME StoreOK, HandlersOK, NEW r \in Requests, HandlerStep(r), NEW e \in Emails
  PROVE  \/ account'[e].reset \in {account[e].reset, None}
         \/ WriteResetToken(r) /\ e = job[r].email /\ account'[e].reset = r
<1> DEFINE j == job[r]
<1>1. Fits(pc[r], j) /\ j \in Job
  BY DEF HandlersOK
<1>2. pc[r] \in {"writeToken", "writePassword", "changePassword", "writeSecret", "enable"}
        => account[j.email] \in Account /\ j.email \in Emails
  BY <1>1 DEF Fits, Unknown, LoginLabels, Ended, Known
<1>3. CASE SessionsStep(r)
  BY <1>3, SessionsLeave
<1>4. CASE CreateUser(r)
  <2>1. CASE account' = account
    BY <2>1
  <2>2. CASE account' = [account EXCEPT ![j.email] =
                           NewAccount(j.password, AssignedRole(j.role))]
    <3>1. NewAccount(j.password, AssignedRole(j.role)).reset = None
      BY <1>1, AccountTypes DEF Job
    <3>2. QED
      BY <2>2, <3>1 DEF StoreOK
  <2>3. QED
    BY <1>4, <2>1, <2>2 DEF CreateUser, Proceed, WriteAccount, tables
<1>5. CASE WriteResetToken(r)
  <2>1. account[j.email] \in Account /\ account' =
          [account EXCEPT ![j.email] = [account[j.email] EXCEPT !.reset = r]]
    BY <1>2, <1>5 DEF WriteResetToken, WriteAccount
  <2>2. [account[j.email] EXCEPT !.reset = r].reset = r
    BY <2>1, ResetRows
  <2>3. QED
    BY <1>5, <2>1, <2>2 DEF StoreOK
<1>6. CASE WritePassword(r)
  <2>1. account[j.email] \in Account /\ account' =
          [account EXCEPT ![j.email] = AfterReset(account[j.email], j.password)]
    BY <1>2, <1>6 DEF WritePassword, WriteAccount
  <2>2. QED
    BY <2>1, ResetRows DEF StoreOK
<1>7. CASE ChangePassword(r)
  <2>1. account[j.email] \in Account /\ account' =
          [account EXCEPT ![j.email] = [account[j.email] EXCEPT !.password = j.password]]
    BY <1>2, <1>7 DEF ChangePassword, WriteAccount
  <2>2. QED
    BY <2>1, ResetRows DEF StoreOK
<1>8. CASE GenerateSecret(r)
  <2>1. account[j.email] \in Account /\ account' =
          [account EXCEPT ![j.email] = [account[j.email] EXCEPT !.secret = r]]
    BY <1>2, <1>8 DEF GenerateSecret, WriteAccount
  <2>2. QED
    BY <2>1, ResetRows DEF StoreOK
<1>9. CASE Enable(r)
  <2>1. account[j.email] \in Account /\ account' =
          [account EXCEPT ![j.email] = [account[j.email] EXCEPT !.twoFactor = TRUE]]
    BY <1>2, <1>9 DEF Enable, WriteAccount
  <2>2. QED
    BY <2>1, ResetRows DEF StoreOK
<1>10. CASE SetActive(r)
  <2>1. account[j.target] \in Account /\ account' =
          [account EXCEPT ![j.target] = [account[j.target] EXCEPT !.active = j.active]]
    BY <1>1, <1>10 DEF SetActive, WriteAccount, Fits, Ended, Known
  <2>2. QED
    BY <2>1, ResetRows DEF StoreOK
<1>11. CASE \/ CheckBreach(r) \/ FindEmail(r) \/ Link(r) \/ CheckPassword(r)
            \/ VerifyCode(r) \/ FindTarget(r)
  <2>1. account' = account
    BY <1>11 DEF CheckBreach, FindEmail, Link, CheckPassword, VerifyCode, FindTarget, Proceed,
                 tables
  <2>2. QED
    BY <2>1
<1>12. QED
  BY <1>3, <1>4, <1>5, <1>6, <1>7, <1>8, <1>9, <1>10, <1>11 DEF HandlerStep, AccountsStep

\* The token a handler takes from the table when it has written the password.
LEMMA PasswordWritten ==
  ASSUME StoreOK, HandlersOK, NEW r \in Requests, WritePassword(r)
  PROVE  job[r].email \in Emails /\ account'[job[r].email].reset = None
<1>1. account[job[r].email] \in Account /\ job[r].email \in Emails
  BY DEF WritePassword, HandlersOK, Fits, Unknown, LoginLabels, Ended, Known
<1>2. QED
  BY <1>1, ResetRows DEF WritePassword, WriteAccount, StoreOK

\* An expiry forgets a reset token or leaves the table alone.
LEMMA ExpiredRows ==
  ASSUME StoreOK, Expire
  PROVE  \A e \in Emails : account'[e].reset \in {account[e].reset, None}
<1>1. CASE account' = account
  BY <1>1
<1>2. CASE \E e \in Emails : ExpireReset(e)
  <2>1. PICK e \in Emails : ExpireReset(e)
    BY <1>2
  <2>2. account[e] \in Account
        /\ account' = [account EXCEPT ![e] = [account[e] EXCEPT !.reset = None]]
    BY <2>1, AccountTypes DEF ExpireReset, StoreOK
  <2>3. QED
    BY <2>2, ResetRows DEF StoreOK
<1>3. QED
  BY <1>1, <1>2 DEF Expire, ExpireAccess, ExpireRefresh, ExpireAttempts, ExpireLock, tables

\* The table and the handlers keep agreeing on who asked for which token.
LEMMA ResetKeptStep ==
  ASSUME StoreOK, HandlersOK, ResetKept, [Next]_vars
  PROVE  ResetKept'
<1> DEFINE RowsKept == \A e \in Emails, t \in Requests : account'[e].reset = t =>
                         job'[t].op = "forgot" /\ job'[t].email = e /\ pc'[t] = "done"
<1>1. ASSUME NEW e \in Emails, NEW t \in Requests, account[e].reset = t
      PROVE  job'[t].op = "forgot" /\ job'[t].email = e /\ pc'[t] = "done"
  <2>1. job[t].op = "forgot" /\ job[t].email = e /\ pc[t] = "done"
    BY <1>1 DEF ResetKept
  <2>2. QED
    BY <2>1, DoneStays
<1>2. \A t \in Requests : t # None
  BY AccountsAssumption
<1>3. ASSUME NEW r \in Requests, Arrival(r) PROVE ResetKept'
  <2>1. /\ account' = account /\ pc[r] = "idle"
        /\ \A q \in Requests : q # r => pc'[q] = pc[q] /\ job'[q] = job[q]
        /\ Arrived(pc'[r], job'[r])
    BY <1>3, ArrivalFacts DEF tables
  <2>2. RowsKept
    BY <1>1, <2>1
  <2>3. ASSUME NEW q \in Requests, job'[q].op = "reset"
        PROVE  LET t == job'[q].token IN
               /\ t \in Requests /\ job'[t].op = "forgot" /\ pc'[t] = "done"
               /\ pc'[q] \in {"breach", "writePassword", "done"} => job'[t].email = job'[q].email
               /\ pc'[q] = "done" => \A e \in Emails : account'[e].reset # t
    <3>1. CASE q = r
      <4>1. PICK t \in Requests : t = job'[r].token /\ job[t].op = "forgot" /\ pc[t] = "done"
        BY <2>1, <2>3, <3>1 DEF Arrived, MadeBy
      <4>2. job'[t] = job[t] /\ pc'[t] = "done"
        BY <4>1, DoneStays
      <4>3. pc'[r] \in {"breach", "rejected"}
            /\ (pc'[r] = "breach" => account[job'[r].email].reset = t)
        BY <2>1, <2>3, <3>1, <4>1 DEF Arrived
      <4>4. pc'[r] = "breach" => job'[r].email \in Emails
        BY <1>3, ArrivalFacts DEF Fits, Ended
      <4>5. pc'[r] = "breach" => job[t].email = job'[r].email
        BY <4>3, <4>4 DEF ResetKept
      <4>6. QED
        BY <3>1, <4>1, <4>2, <4>3, <4>5
    <3>2. CASE q # r
      <4>1. pc'[q] = pc[q] /\ job'[q] = job[q]
        BY <2>1, <3>2
      <4>2. PICK t \in Requests : t = job[q].token
        BY <2>3, <4>1 DEF ResetKept
      <4>3. /\ job[t].op = "forgot" /\ pc[t] = "done"
            /\ pc[q] \in {"breach", "writePassword", "done"} => job[t].email = job[q].email
            /\ pc[q] = "done" => \A e \in Emails : account[e].reset # t
        BY <2>3, <4>1, <4>2 DEF ResetKept
      <4>4. job'[t] = job[t] /\ pc'[t] = "done"
        BY <4>3, DoneStays
      <4>5. QED
        BY <2>1, <4>1, <4>2, <4>3, <4>4
    <3>3. QED
      BY <3>1, <3>2
  <2>4. QED
    BY <2>2, <2>3 DEF ResetKept
<1>4. ASSUME NEW r \in Requests, HandlerStep(r), Moved(r) PROVE ResetKept'
  <2>1. /\ Active(r) /\ Comes(pc[r], pc'[r])
        /\ \A q \in Requests : q # r => pc'[q] = pc[q] /\ job'[q] = job[q]
    BY <1>4, MovedFacts
  <2>2. \A q \in Requests : SameRequest(job'[q], job[q])
    BY <1>4, MovedFacts DEF SameRequest
  <2>3. WriteResetToken(r) => pc[r] = "writeToken" /\ pc'[r] = "done" /\ job'[r].op = "forgot"
                              /\ job'[r].email = job[r].email
    BY <2>2 DEF WriteResetToken, WriteAccount, Goto, HandlersOK, Fits, OpAt, Ended, SameRequest
  <2>4. RowsKept
    <3>1. ASSUME NEW e \in Emails, NEW t \in Requests, account'[e].reset = t
          PROVE  job'[t].op = "forgot" /\ job'[t].email = e /\ pc'[t] = "done"
      <4>1. account[e].reset = t \/ (WriteResetToken(r) /\ e = job[r].email /\ t = r)
        BY <1>2, <1>4, <3>1, ResetWrites
      <4>2. QED
        BY <1>1, <2>3, <4>1
    <3>2. QED
      BY <3>1
  <2>5. ASSUME NEW q \in Requests, job'[q].op = "reset"
        PROVE  LET t == job'[q].token IN
               /\ t \in Requests /\ job'[t].op = "forgot" /\ pc'[t] = "done"
               /\ pc'[q] \in {"breach", "writePassword", "done"} => job'[t].email = job'[q].email
               /\ pc'[q] = "done" => \A e \in Emails : account'[e].reset # t
    <3>1. job[q].op = "reset" /\ job[q].token = job'[q].token /\ job[q].email = job'[q].email
      BY <2>2, <2>5 DEF SameRequest
    <3>2. PICK t \in Requests : t = job[q].token
      BY <3>1 DEF ResetKept
    <3>3. /\ job[t].op = "forgot" /\ pc[t] = "done"
          /\ pc[q] \in {"breach", "writePassword", "done"} => job[t].email = job[q].email
          /\ pc[q] = "done" => \A e \in Emails : account[e].reset # t
      BY <3>1, <3>2 DEF ResetKept
    <3>4. job'[t] = job[t] /\ pc'[t] = "done"
      BY <3>3, DoneStays
    <3>5. CASE pc[q] \in {"breach", "writePassword", "done"}
      <4>1. ASSUME pc'[q] = "done", NEW e \in Emails PROVE account'[e].reset # t
        <5>1. CASE pc[q] = "done"
          <6>1. account[e].reset # t
            BY <3>3, <5>1
          <6>2. ~(WriteResetToken(r) /\ t = r)
            BY <2>3, <3>3
          <6>3. QED
            BY <1>2, <1>4, <6>1, <6>2, ResetWrites
        <5>2. CASE pc[q] # "done"
          <6>1. q = r
            BY <2>1, <4>1, <5>2
          <6>2. pc[r] = "writePassword"
            BY <2>1, <3>5, <4>1, <5>2, <6>1 DEF Comes
          <6>3. WritePassword(r) /\ ~WriteResetToken(r)
            BY <1>4, <2>3, <6>2, ActionAt
          <6>4. CASE e = job[r].email
            BY <1>2, <6>3, <6>4, PasswordWritten
          <6>5. CASE e # job[r].email
            <7>1. account[e].reset # t
              BY <3>3, <3>5, <6>1, <6>5 DEF ResetKept
            <7>2. QED
              BY <1>2, <1>4, <6>3, <7>1, ResetWrites
          <6>6. QED
            BY <6>4, <6>5
        <5>3. QED
          BY <5>1, <5>2
      <4>2. job'[t].email = job'[q].email
        BY <3>1, <3>3, <3>4, <3>5
      <4>3. QED
        BY <3>1, <3>2, <3>3, <3>4, <4>1, <4>2
    <3>6. CASE pc[q] \notin {"breach", "writePassword", "done"}
      <4>1. pc'[q] \notin {"breach", "writePassword", "done"}
        <5>1. CASE q # r
          BY <2>1, <3>6, <5>1
        <5>2. CASE q = r
          <6>1. Fits(pc[r], job[r])
            BY DEF HandlersOK
          <6>2. QED
            BY <2>1, <3>1, <3>6, <5>2, <6>1 DEF Comes, Fits, OpAt, Ended, Active
        <5>3. QED
          BY <5>1, <5>2
      <4>2. QED
        BY <3>1, <3>2, <3>3, <3>4, <4>1
    <3>7. QED
      BY <3>5, <3>6
  <2>6. QED
    BY <2>4, <2>5 DEF ResetKept
<1>5. ASSUME job' = job, \A q \in Requests : pc'[q] \in {pc[q], "failed"},
             \A e \in Emails : account'[e].reset \in {account[e].reset, None}
      PROVE  ResetKept'
  <2>1. RowsKept
    BY <1>1, <1>2, <1>5
  <2>2. ASSUME NEW q \in Requests, job'[q].op = "reset"
        PROVE  LET t == job'[q].token IN
               /\ t \in Requests /\ job'[t].op = "forgot" /\ pc'[t] = "done"
               /\ pc'[q] \in {"breach", "writePassword", "done"} => job'[t].email = job'[q].email
               /\ pc'[q] = "done" => \A e \in Emails : account'[e].reset # t
    <3>1. PICK t \in Requests : t = job[q].token
      BY <1>5, <2>2 DEF ResetKept
    <3>2. /\ job[t].op = "forgot" /\ pc[t] = "done"
          /\ pc[q] \in {"breach", "writePassword", "done"} => job[t].email = job[q].email
          /\ pc[q] = "done" => \A e \in Emails : account[e].reset # t
      BY <1>5, <2>2, <3>1 DEF ResetKept
    <3>3. pc'[t] = "done"
      BY <3>2, DoneStays
    <3>4. pc'[q] = pc[q] \/ pc'[q] = "failed"
      BY <1>5
    <3>5. pc'[q] = "done" => \A e \in Emails : account'[e].reset # t
      BY <1>2, <1>5, <3>2, <3>4
    <3>6. QED
      BY <1>5, <3>1, <3>2, <3>3, <3>4, <3>5
  <2>3. QED
    BY <2>1, <2>2 DEF ResetKept
<1>6. CASE Expire
  <2>1. pc' = pc /\ job' = job
    BY <1>6, ExpireFacts
  <2>2. \A e \in Emails : account'[e].reset \in {account[e].reset, None}
    BY <1>6, ExpiredRows
  <2>3. QED
    BY <1>5, <2>1, <2>2
<1>7. CASE Restart
  <2>1. job' = job /\ account' = account /\ \A q \in Requests : pc'[q] \in {pc[q], "failed"}
    BY <1>7, RestartFacts DEF tables
  <2>2. QED
    BY <1>5, <2>1
<1>8. CASE UNCHANGED vars
  BY <1>5, <1>8 DEF vars, tables
<1>9. QED
  BY <1>3, <1>4, <1>6, <1>7, <1>8, StepKinds

\* While requests do not overlap, nothing comes between the look-up of a reset
\* token and the write of the password.
LEMMA ResetHeldStep ==
  ASSUME StoreOK, HandlersOK, OneActive, ResetKept, ResetHeld, [Next]_vars
  PROVE  ResetHeld'
<1> SUFFICES ASSUME serial, NEW q \in Requests,
                    job'[q].op = "reset", pc'[q] \in {"breach", "writePassword"}
             PROVE  /\ account'[job'[q].email].reset \in {job'[q].token, None}
                    /\ \A p \in Requests : job'[p].op = "reset" /\ job'[p].token = job'[q].token
                                            => pc'[p] # "done"
  BY SerialStays DEF ResetHeld
<1>1. ASSUME NEW r \in Requests, Arrival(r)
      PROVE  /\ account'[job'[q].email].reset \in {job'[q].token, None}
             /\ \A p \in Requests : job'[p].op = "reset" /\ job'[p].token = job'[q].token
                                     => pc'[p] # "done"
  <2>1. /\ account' = account /\ pc[r] = "idle" /\ \A p \in Requests : ~Active(p)
        /\ \A p \in Requests : p # r => pc'[p] = pc[p] /\ job'[p] = job[p]
        /\ Arrived(pc'[r], job'[r]) /\ Fits(pc'[r], job'[r])
    BY <1>1, ArrivalFacts DEF tables
  <2>2. q = r
    BY <2>1 DEF Active, Ended
  <2>3. job'[r].email \in Emails /\ account[job'[r].email].reset = job'[r].token
    BY <2>1, <2>2 DEF Arrived, Fits, Ended
  <2>4. ASSUME NEW p \in Requests, job'[p].op = "reset", job'[p].token = job'[q].token
        PROVE  pc'[p] # "done"
    <3>1. CASE p = r
      BY <2>2, <3>1
    <3>2. CASE p # r
      <4>1. pc'[p] = pc[p] /\ job[p].op = "reset" /\ job[p].token = job'[r].token
        BY <2>1, <2>2, <2>4, <3>2
      <4>2. QED
        BY <2>3, <4>1 DEF ResetKept
    <3>3. QED
      BY <3>1, <3>2
  <2>5. QED
    BY <2>1, <2>2, <2>3, <2>4
<1>2. ASSUME NEW r \in Requests, HandlerStep(r), Moved(r)
      PROVE  /\ account'[job'[q].email].reset \in {job'[q].token, None}
             /\ \A p \in Requests : job'[p].op = "reset" /\ job'[p].token = job'[q].token
                                     => pc'[p] # "done"
  <2>1. /\ Active(r) /\ Comes(pc[r], pc'[r]) /\ SameRequest(job'[r], job[r])
        /\ \A p \in Requests : p # r => pc'[p] = pc[p] /\ job'[p] = job[p]
    BY <1>2, MovedFacts
  <2>2. q = r
    BY <2>1 DEF OneActive, Active, Ended
  <2>3. pc[r] = "breach" /\ pc'[r] = "writePassword"
    BY <2>1, <2>2 DEF Comes
  <2>4. account' = account
    <3>1. CheckBreach(r)
      BY <1>2, <2>3, ActionAt
    <3>2. QED
      BY <3>1 DEF CheckBreach, Proceed, tables
  <2>5. job[r].op = "reset" /\ job[r].token = job'[r].token /\ job[r].email = job'[r].email
    BY <2>1, <2>2 DEF SameRequest
  <2>6. account[job[r].email].reset \in {job[r].token, None}
    BY <2>3, <2>5 DEF ResetHeld
  <2>7. ASSUME NEW p \in Requests, job'[p].op = "reset", job'[p].token = job'[q].token
        PROVE  pc'[p] # "done"
    <3>1. CASE p = r
      BY <2>3, <3>1
    <3>2. CASE p # r
      BY <2>1, <2>2, <2>3, <2>5, <2>7, <3>2 DEF ResetHeld
    <3>3. QED
      BY <3>1, <3>2
  <2>8. QED
    BY <2>2, <2>4, <2>5, <2>6, <2>7
<1>3. CASE Expire
  <2>1. pc' = pc /\ job' = job
    BY <1>3, ExpireFacts
  <2>2. /\ account[job[q].email].reset \in {job[q].token, None}
        /\ \A p \in Requests : job[p].op = "reset" /\ job[p].token = job[q].token
                                => pc[p] # "done"
    BY <2>1 DEF ResetHeld
  <2>3. job[q].email \in Emails
    BY <2>1 DEF HandlersOK, Fits, Ended
  <2>4. account'[job[q].email].reset \in {account[job[q].email].reset, None}
    BY <1>3, <2>3, ExpiredRows
  <2>5. QED
    BY <2>1, <2>2, <2>4
<1>4. CASE Restart
  BY <1>4, RestartFacts DEF Active, Ended
<1>5. CASE UNCHANGED vars
  BY <1>5 DEF vars, tables, ResetHeld
<1>6. QED
  BY <1>1, <1>2, <1>3, <1>4, <1>5, StepKinds

LEMMA InitReset == Init => OneActive /\ ResetKept /\ ResetHeld
<1> SUFFICES ASSUME Init PROVE OneActive /\ ResetKept /\ ResetHeld
  OBVIOUS
<1>1. \A r \in Requests : pc[r] = "idle" /\ job[r].op = None
  BY InitHandlers, BlankJob
<1>2. \A e \in Emails, t \in Requests : account[e].reset # t
  BY AccountsAssumption DEF Init, AccountsInit
<1>3. QED
  BY <1>1, <1>2 DEF OneActive, ResetKept, ResetHeld, Active, None

\* With one request at a time a reset token sets one password: the token the
\* handler writes with is the user's latest or has expired since the look-up,
\* and no earlier request has used it.
THEOREM ResetTokenIsCurrent == Spec => ResetCurrent
<1> DEFINE Inv == TypeInv /\ OneActive /\ ResetKept /\ ResetHeld
<1>1. Init => Inv
  BY InitReset, InitTyped, TwoParts
<1>2. Inv /\ [Next]_vars => Inv'
  <2>1. (StoreOK' /\ HandlersOK') => TypeInv'
    BY DEF TypeInv, TypeOK, AccountsTypeOK, StoreOK, HandlersOK
  <2>2. QED
    BY <2>1, TwoParts, StepTyped, OneActiveStep, ResetKeptStep, ResetHeldStep
<1>3. Inv /\ [Next]_vars =>
      [\A r \in Requests :
       (serial /\ job[r].op = "reset" /\ pc[r] = "writePassword" /\ pc'[r] = "done") =>
         /\ account[job[r].email].reset \in {job[r].token, None}
         /\ \A q \in Requests : job[q].op = "reset" /\ job[q].token = job[r].token
                                => pc[q] # "done"]_vars
  BY DEF ResetHeld
<1> HIDE DEF Inv
<1>4. QED
  BY <1>1, <1>2, <1>3, PTL DEF Spec, ResetCurrent

-----------------------------------------------------------------------------
(* The lockout. *)

LEMMA CountedFinite ==
  /\ \A k : IsFiniteSet(Counted(k)) /\ Cardinality(Counted(k)) \in Nat
  /\ \A k : IsFiniteSet(Counted(k)') /\ Cardinality(Counted(k)') \in Nat
<1>1. ASSUME NEW S, S \subseteq Requests PROVE IsFiniteSet(S) /\ Cardinality(S) \in Nat
  BY <1>1, AccountsAssumption, FS_Subset, FS_CardinalityType
<1>2. \A k : Counted(k) \subseteq Requests /\ Counted(k)' \subseteq Requests
  BY DEF Counted
<1>3. QED
  BY <1>1, <1>2

LEMMA CountedGrows ==
  ASSUME NEW k, Counted(k) \subseteq Counted(k)'
  PROVE  Cardinality(Counted(k)) <= Cardinality(Counted(k)')
<1>1. IsFiniteSet(Counted(k)')
  BY CountedFinite
<1>2. QED
  BY <1>1, FS_Subset

\* The counts of a handler are still covered after others have counted.
LEMMA CountsStay ==
  ASSUME NEW label, NEW j \in Job, CountsFit(label, j),
         \A k : Cardinality(Counted(k)) <= Cardinality(Counted(k)')
  PROVE  CountsFit(label, j)'
<1>1. /\ j.attempts \in Nat /\ j.ipAttempts \in Nat
      /\ \A k : Cardinality(Counted(k)) \in Nat /\ Cardinality(Counted(k)') \in Nat
  BY CountedFinite DEF Job
<1>2. /\ j.attempts > 0 => j.attempts <= Cardinality(Counted(j.email)')
      /\ j.ipAttempts > 0 => j.ipAttempts <= Cardinality(Counted(j.ip)')
  BY <1>1 DEF CountsFit
<1>3. QED
  BY <1>2 DEF CountsFit, Reached

\* The stored half of Backed.
StoreBacked ==
  /\ \A k \in Keys : attempts[k] <= Cardinality(Counted(k))
  /\ \A k \in locked : Max[k] <= Cardinality(Counted(k))

LEMMA StoreStays ==
  ASSUME StoreOK, StoreOK', StoreBacked,
         \A k : Cardinality(Counted(k)) <= Cardinality(Counted(k)'),
         \A k \in Keys : attempts'[k] \in {attempts[k], 0} \/ attempts'[k] <= Cardinality(Counted(k)),
         \A k \in locked' : k \in locked \/ Max[k] <= Cardinality(Counted(k))
  PROVE  StoreBacked'
<1>1. /\ \A k \in Keys : attempts[k] \in Nat /\ attempts'[k] \in Nat /\ Max[k] \in Nat
      /\ locked \subseteq Keys /\ locked' \subseteq Keys
      /\ \A k : Cardinality(Counted(k)) \in Nat /\ Cardinality(Counted(k)') \in Nat
  BY SessionsAssumption, CountedFinite DEF StoreOK
<1>2. \A k \in Keys : attempts'[k] <= Cardinality(Counted(k)')
  BY <1>1 DEF StoreBacked
<1>3. \A k \in locked' : Max[k] <= Cardinality(Counted(k)')
  BY <1>1 DEF StoreBacked
<1>4. QED
  BY <1>2, <1>3 DEF StoreBacked

\* A step that counts nothing.
LEMMA BackedStays ==
  ASSUME StoreOK, StoreOK', HandlersOK, Backed, job' = job,
         \A q \in Requests : CountsFit(pc[q], job[q]) => CountsFit(pc'[q], job[q]),
         \A k \in Keys : attempts'[k] \in {attempts[k], 0} \/ attempts'[k] <= Cardinality(Counted(k)),
         \A k \in locked' : k \in locked \/ Max[k] <= Cardinality(Counted(k))
  PROVE  Backed'
<1>1. \A k : Counted(k)' = Counted(k)
  BY DEF Counted
<1>2. \A k : Cardinality(Counted(k)) <= Cardinality(Counted(k)')
  BY <1>1, CountedGrows
<1>3. ASSUME NEW q \in Requests PROVE CountsFit(pc[q], job[q])'
  <2>1. PICK j \in Job : j = job[q]
    BY DEF HandlersOK
  <2> PICK label : label = pc'[q]
    OBVIOUS
  <2>2. CountsFit(label, j)
    BY <2>1 DEF Backed
  <2>3. CountsFit(label, j)'
    BY <1>2, <2>2, CountsStay
  <2>4. QED
    BY <2>1, <2>3 DEF CountsFit
<1>4. StoreBacked'
  BY <1>2, StoreStays DEF Backed, StoreBacked
<1>5. QED
  BY <1>3, <1>4 DEF Backed, StoreBacked

\* Which action a login takes; the other handlers leave the counters alone.
LEMMA LoginActions ==
  ASSUME NEW r \in Requests, HandlerStep(r), pc[r] \in LoginLabels
  PROVE  \/ CheckIp(r) \/ FindUser(r) \/ ForgetEmail(r) \/ ForgetIp(r) \/ CountEmail(r)
         \/ CountIp(r) \/ SetEmail(r) \/ SetIp(r) \/ LockEmail(r) \/ LockIp(r)
BY DEF HandlerStep, SessionsStep, IssueTokens, FindActive, Redeem, Revoke, Drop, Validate,
       Blacklist, AccountsStep, CheckBreach, CreateUser, FindEmail, Link, WriteResetToken,
       WritePassword, CheckPassword, ChangePassword, GenerateSecret, VerifyCode, Enable,
       FindTarget, SetActive, LoginLabels

LEMMA OtherActions ==
  ASSUME NEW r \in Requests, HandlerStep(r), pc[r] \notin LoginLabels
  PROVE  UNCHANGED <<job, counters>>
<1>1. CASE SessionsStep(r)
  BY <1>1 DEF SessionsStep, IssueTokens, CheckIp, FindUser, ForgetEmail, ForgetIp, Forget,
       CountEmail, CountIp, Count, SetEmail, SetIp, SetCounter, LockEmail, LockIp, Lock,
       FindActive, Redeem, Revoke, Drop, Validate, Blacklist, Proceed, LoginLabels
<1>2. CASE AccountsStep(r)
  BY <1>2 DEF HandlerStep, AccountsStep, CheckBreach, CreateUser, FindEmail, Link,
       WriteResetToken, WritePassword, CheckPassword, ChangePassword, GenerateSecret, VerifyCode,
       Enable, FindTarget, SetActive, Proceed, WriteAccount, SessionsStep, IssueTokens, CheckIp,
       FindUser, ForgetEmail, ForgetIp, Forget, CountEmail, CountIp, Count, SetEmail, SetIp,
       SetCounter, LockEmail, LockIp, Lock, FindActive, Redeem, Revoke, Drop, Validate, Blacklist
<1>3. QED
  BY <1>1, <1>2 DEF HandlerStep

\* A login that is counted for a key adds one to those counted for it.
LEMMA CountedOne ==
  ASSUME HandlersOK, NEW r \in Requests, NEW j, job' = [job EXCEPT ![r] = j],
         \A x : r \in Counted(x) => r \in Counted(x)',
         NEW k, r \notin Counted(k), r \in Counted(k)'
  PROVE  /\ \A x : Cardinality(Counted(x)) <= Cardinality(Counted(x)')
         /\ Cardinality(Counted(k)') = Cardinality(Counted(k)) + 1
<1>1. \A q \in Requests : q # r => job'[q] = job[q]
  BY DEF HandlersOK
<1>2. \A x : Counted(x) \subseteq Counted(x)'
  BY <1>1 DEF Counted
<1>3. Counted(k)' = Counted(k) \cup {r}
  BY <1>1, <1>2 DEF Counted
<1>4. Cardinality(Counted(k)') = Cardinality(Counted(k)) + 1
  BY <1>3, CountedFinite, FS_AddElement
<1>5. QED
  BY <1>2, <1>4, CountedGrows

\* The other handlers and the counters, when one handler has counted.
LEMMA BackedCount ==
  ASSUME StoreOK, StoreOK', HandlersOK, Backed, UNCHANGED <<attempts, locked>>,
         NEW r \in Requests, \A q \in Requests : q # r => pc'[q] = pc[q] /\ job'[q] = job[q],
         \A x : Cardinality(Counted(x)) <= Cardinality(Counted(x)'),
         CountsFit(pc[r], job[r])'
  PROVE  Backed'
<1>1. ASSUME NEW q \in Requests, q # r PROVE CountsFit(pc[q], job[q])'
  <2>1. PICK j \in Job : j = job[q]
    BY DEF HandlersOK
  <2> PICK label : label = pc[q]
    OBVIOUS
  <2>2. CountsFit(label, j)
    BY <2>1 DEF Backed
  <2>3. CountsFit(label, j)'
    BY <2>2, CountsStay
  <2>4. pc'[q] = label /\ job'[q] = j
    BY <1>1, <2>1
  <2>5. QED
    BY <2>3, <2>4 DEF CountsFit
<1>2. StoreBacked'
  BY StoreStays DEF Backed, StoreBacked
<1>3. QED
  BY <1>1, <1>2 DEF Backed, StoreBacked

LEMMA CountEmailBacked ==
  ASSUME StoreOK, StoreOK', HandlersOK, Backed, NEW r \in Requests, CountEmail(r)
  PROVE  Backed'
<1> DEFINE k == job[r].email
           n == attempts[k] + 1
           j == [job[r] EXCEPT !.attempts = n]
<1>1. pc[r] = "countEmail"
  BY DEF CountEmail, Count
<1>2. job[r] \in Job /\ k \in Keys
  BY <1>1, LoginAt DEF LoginLabels
<1>3. job[r].attempts = 0 /\ job[r].ipAttempts = 0
  BY <1>1 DEF Backed, CountsFit, Uncounted, IpUncounted
<1>4. /\ job' = [job EXCEPT ![r] = j] /\ Goto(r, "countIp")
      /\ UNCHANGED <<attempts, locked>>
  BY DEF CountEmail, Count, AfterFailure
<1>5. n \in Nat /\ n > 0 /\ n <= Cardinality(Counted(k)) + 1
  BY <1>2, CountedFinite DEF StoreOK, Backed
<1>6. j.attempts = n /\ j.email = k /\ j.ipAttempts = 0
  BY <1>2, <1>3 DEF Job
<1>7. PICK e \in Keys, i \in Job, m \in Nat : e = k /\ i = j /\ m = n
  <2>1. j \in Job
    BY <1>2, <1>5 DEF Job
  <2>2. QED
    BY <1>2, <1>5, <2>1
<1> HIDE DEF j, n, k
<1>8. job'[r] = i /\ pc'[r] = "countIp"
      /\ \A q \in Requests : q # r => pc'[q] = pc[q] /\ job'[q] = job[q]
  BY <1>4, <1>7 DEF HandlersOK, Goto
<1>9. r \in Counted(e)' /\ \A x : r \notin Counted(x)
  BY <1>3, <1>5, <1>6, <1>7, <1>8 DEF Counted
<1>10. /\ \A x : Cardinality(Counted(x)) <= Cardinality(Counted(x)')
       /\ Cardinality(Counted(e)') = Cardinality(Counted(e)) + 1
  BY <1>4, <1>9, CountedOne
<1>11. CountsFit("countIp", i)'
  BY <1>5, <1>6, <1>7, <1>10 DEF CountsFit, Uncounted, IpUncounted
<1>12. CountsFit(pc[r], job[r])'
  BY <1>8, <1>11 DEF CountsFit
<1>13. QED
  BY <1>4, <1>8, <1>10, <1>12, BackedCount

LEMMA CountIpBacked ==
  ASSUME StoreOK, StoreOK', HandlersOK, Backed, NEW r \in Requests, CountIp(r)
  PROVE  Backed'
<1> DEFINE k == job[r].ip
           n == attempts[k] + 1
           j == [job[r] EXCEPT !.ipAttempts = n]
<1>1. pc[r] = "countIp"
  BY DEF CountIp, Count
<1>2. job[r] \in Job /\ k \in Keys /\ k # job[r].email
  BY <1>1, LoginAt, AccountsAssumption DEF LoginLabels
<1>3. CountsFit("countIp", job[r])
  BY <1>1 DEF Backed
<1>4. job[r].attempts > 0 /\ job[r].ipAttempts = 0 /\ job[r].attempts \in Nat
      /\ job[r].attempts <= Cardinality(Counted(job[r].email))
  BY <1>2, <1>3 DEF CountsFit, IpUncounted, Job
<1>5. /\ job' = [job EXCEPT ![r] = j] /\ Goto(r, "setEmail")
      /\ UNCHANGED <<attempts, locked>>
  BY DEF CountIp, Count, AfterFailure
<1>6. n \in Nat /\ n > 0 /\ n <= Cardinality(Counted(k)) + 1
  BY <1>2, CountedFinite DEF StoreOK, Backed
<1>7. /\ j.attempts = job[r].attempts /\ j.email = job[r].email /\ j.ip = k
      /\ j.ipAttempts = n
  BY <1>2 DEF Job
<1>8. PICK a \in Keys, i \in Job, m \in Nat : a = k /\ i = j /\ m = n
  <2>1. j \in Job
    BY <1>2, <1>6 DEF Job
  <2>2. QED
    BY <1>2, <1>6, <2>1
<1> HIDE DEF j, n, k
<1>9. job'[r] = i /\ pc'[r] = "setEmail"
      /\ \A q \in Requests : q # r => pc'[q] = pc[q] /\ job'[q] = job[q]
  BY <1>5, <1>8 DEF HandlersOK, Goto
<1>10. /\ r \in Counted(a)' /\ r \notin Counted(a)
       /\ \A x : r \in Counted(x) => r \in Counted(x)'
  BY <1>2, <1>4, <1>6, <1>7, <1>8, <1>9 DEF Counted
<1>11. /\ \A x : Cardinality(Counted(x)) <= Cardinality(Counted(x)')
       /\ Cardinality(Counted(a)') = Cardinality(Counted(a)) + 1
  BY <1>5, <1>10, CountedOne
<1>12. CountsFit("setEmail", i)'
  <2>1. i.ipAttempts <= Cardinality(Counted(i.ip)')
    BY <1>6, <1>7, <1>8, <1>11
  <2>2. i.attempts <= Cardinality(Counted(i.email)')
    BY <1>4, <1>7, <1>8, <1>11, CountedFinite
  <2>3. QED
    BY <1>4, <1>6, <1>7, <1>8, <2>1, <2>2 DEF CountsFit, Uncounted, IpUncounted
<1>13. CountsFit(pc[r], job[r])'
  BY <1>9, <1>12 DEF CountsFit
<1>14. QED
  BY <1>5, <1>9, <1>11, <1>13, BackedCount

\* One handler goes to a label that asks for no more counts than it has.
LEMMA BackedMove ==
  ASSUME StoreOK, StoreOK', HandlersOK, Backed, NEW r \in Requests, NEW label, Goto(r, label),
         job' = job, CountsFit(pc[r], job[r]) => CountsFit(label, job[r]),
         \A k \in Keys : attempts'[k] \in {attempts[k], 0} \/ attempts'[k] <= Cardinality(Counted(k)),
         \A k \in locked' : k \in locked \/ Max[k] <= Cardinality(Counted(k))
  PROVE  Backed'
<1>1. \A q \in Requests : pc'[q] = IF q = r THEN label ELSE pc[q]
  BY DEF HandlersOK, Goto
<1>2. \A q \in Requests : CountsFit(pc[q], job[q]) => CountsFit(pc'[q], job[q])
  BY <1>1
<1>3. QED
  BY <1>2, BackedStays

LEMMA LoginReadsBacked ==
  ASSUME StoreOK, StoreOK', HandlersOK, Backed, NEW r \in Requests, CheckIp(r) \/ FindUser(r)
  PROVE  Backed'
<1>1. PICK label \in {"rejected", "findUser", "countEmail", "forgetEmail"} : Goto(r, label)
  BY DEF CheckIp, FindUser, Proceed
<1>2. pc[r] \in {"checkIp", "findUser"} /\ UNCHANGED <<job, counters>>
  BY DEF CheckIp, FindUser, Proceed
<1>3. CountsFit(pc[r], job[r]) => CountsFit(label, job[r])
  BY <1>2 DEF CountsFit, Uncounted, IpUncounted
<1>4. attempts' = attempts /\ locked' = locked
  BY <1>2 DEF counters
<1>5. QED
  BY <1>1, <1>2, <1>3, <1>4, BackedMove

LEMMA ForgetBacked ==
  ASSUME StoreOK, StoreOK', HandlersOK, Backed, NEW r \in Requests, ForgetEmail(r) \/ ForgetIp(r)
  PROVE  Backed'
<1>1. PICK label \in {"forgetIp", "issue"} : Goto(r, label)
  BY DEF ForgetEmail, ForgetIp, Forget
<1>2. job' = job /\ locked' = locked /\ \A k \in Keys : attempts'[k] \in {attempts[k], 0}
  BY DEF ForgetEmail, ForgetIp, Forget, StoreOK
<1>3. CountsFit(pc[r], job[r]) => CountsFit(label, job[r])
  BY DEF CountsFit, Uncounted, IpUncounted
<1>4. QED
  BY <1>1, <1>2, <1>3, BackedMove

LEMMA SetBacked ==
  ASSUME StoreOK, StoreOK', HandlersOK, Backed, NEW r \in Requests, SetEmail(r) \/ SetIp(r)
  PROVE  Backed'
<1>1. pc[r] \in {"setEmail", "setIp"} /\ job' = job /\ locked' = locked
  BY DEF SetEmail, SetIp, SetCounter
<1>2. CountsFit(pc[r], job[r]) /\ job[r] \in Job
  BY DEF Backed, HandlersOK
<1>3. /\ job[r].attempts = 0 \/ job[r].attempts <= Cardinality(Counted(job[r].email))
      /\ job[r].ipAttempts = 0 \/ job[r].ipAttempts <= Cardinality(Counted(job[r].ip))
  BY <1>2 DEF CountsFit, Job
<1>4. \A k \in Keys : attempts'[k] \in {attempts[k], 0} \/ attempts'[k] <= Cardinality(Counted(k))
  BY <1>3 DEF SetEmail, SetIp, SetCounter, StoreOK
<1>5. PICK label \in {"setIp", "lockEmail", "lockIp", "rejected"} :
        /\ Goto(r, label)
        /\ label = "lockEmail" => Reached(job[r].email, job[r].attempts)
        /\ label = "lockIp" => Reached(job[r].ip, job[r].ipAttempts)
  BY DEF SetEmail, SetIp, SetCounter
<1>6. CountsFit(label, job[r])
  BY <1>1, <1>2, <1>5 DEF CountsFit, Uncounted, IpUncounted
<1>7. QED
  BY <1>1, <1>4, <1>5, <1>6, BackedMove

LEMMA LockBacked ==
  ASSUME StoreOK, StoreOK', HandlersOK, Backed, NEW r \in Requests, LockEmail(r) \/ LockIp(r)
  PROVE  Backed'
<1>1. pc[r] \in {"lockEmail", "lockIp"} /\ job' = job /\ attempts' = attempts
  BY DEF LockEmail, LockIp, Lock
<1>2. CountsFit(pc[r], job[r]) /\ job[r] \in Job
      /\ job[r].email \in Keys /\ job[r].ip \in Keys
  BY <1>1, LoginAt DEF Backed, LoginLabels
<1>3. PICK k \in Keys : /\ locked' = locked \cup {k}
                        /\ Max[k] <= Cardinality(Counted(k))
  <2>1. /\ \A k \in Keys : Max[k] \in Nat /\ Max[k] # 0 /\ Cardinality(Counted(k)) \in Nat
        /\ job[r].attempts \in Nat /\ job[r].ipAttempts \in Nat
    BY <1>2, SessionsAssumption, CountedFinite DEF Job
  <2>2. CASE LockEmail(r)
    <3>1. Max[job[r].email] <= job[r].attempts /\ locked' = locked \cup {job[r].email}
      BY <1>2, <2>1, <2>2 DEF LockEmail, Lock, CountsFit, Reached
    <3>2. job[r].attempts <= Cardinality(Counted(job[r].email))
      BY <1>2, <2>1, <3>1 DEF CountsFit
    <3>3. QED
      BY <1>2, <2>1, <3>1, <3>2
  <2>3. CASE LockIp(r)
    <3>1. Max[job[r].ip] <= job[r].ipAttempts /\ locked' = locked \cup {job[r].ip}
      BY <1>2, <2>1, <2>3 DEF LockIp, Lock, CountsFit, Reached
    <3>2. job[r].ipAttempts <= Cardinality(Counted(job[r].ip))
      BY <1>2, <2>1, <3>1 DEF CountsFit
    <3>3. QED
      BY <1>2, <2>1, <3>1, <3>2
  <2>4. QED
    BY <2>2, <2>3
<1>4. PICK label \in {"lockIp", "rejected"} :
        Goto(r, label) /\ (label = "lockIp" => Reached(job[r].ip, job[r].ipAttempts))
  BY DEF LockEmail, LockIp, Lock
<1>5. CountsFit(label, job[r])
  BY <1>2, <1>4 DEF CountsFit, Uncounted, IpUncounted
<1>6. \A x \in locked' : x \in locked \/ Max[x] <= Cardinality(Counted(x))
  BY <1>3
<1>7. QED
  BY <1>1, <1>4, <1>5, <1>6, BackedMove

LEMMA BackedStep ==
  ASSUME StoreOK, HandlersOK, Backed, [Next]_vars
  PROVE  Backed'
<1>1. StoreOK'
  BY StepTyped
<1>2. ASSUME NEW r \in Requests, Arrival(r) PROVE Backed'
  <2>1. /\ pc[r] = "idle" /\ attempts' = attempts /\ locked' = locked
        /\ Arrived(pc'[r], job'[r])
        /\ \A q \in Requests : q # r => pc'[q] = pc[q] /\ job'[q] = job[q]
    BY <1>2, ArrivalFacts DEF counters
  <2>2. job[r].attempts = 0 /\ job[r].ipAttempts = 0
    BY <2>1 DEF Backed, CountsFit, Uncounted, IpUncounted
  <2>3. job'[r].attempts = 0 /\ job'[r].ipAttempts = 0
        /\ pc'[r] \notin {"countIp", "lockEmail", "lockIp"}
    BY <2>1 DEF Arrived
  <2>4. \A x : Counted(x)' = Counted(x)
    BY <2>1, <2>2, <2>3 DEF Counted
  <2>5. \A x : Cardinality(Counted(x)) <= Cardinality(Counted(x)')
    BY <2>4, CountedGrows
  <2>6. CountsFit(pc[r], job[r])'
    BY <2>3 DEF CountsFit
  <2>7. QED
    BY <1>1, <2>1, <2>5, <2>6, BackedCount
<1>3. ASSUME NEW r \in Requests, HandlerStep(r), Moved(r) PROVE Backed'
  <2>1. CASE pc[r] \in LoginLabels
    BY <1>1, <1>3, <2>1, LoginActions, LoginReadsBacked, ForgetBacked, CountEmailBacked,
       CountIpBacked, SetBacked, LockBacked
  <2>2. CASE pc[r] \notin LoginLabels
    <3>1. job' = job /\ attempts' = attempts /\ locked' = locked
      BY <1>3, <2>2, OtherActions DEF counters
    <3>2. PICK label : Goto(r, label) /\ Comes(pc[r], label)
      BY <1>3 DEF Moved
    <3>3. label \notin LoginLabels /\ label # "idle"
      BY <2>2, <3>2 DEF Comes
    <3>4. CountsFit(pc[r], job[r]) => CountsFit(label, job[r])
      BY <3>3 DEF CountsFit, Uncounted, IpUncounted, LoginLabels
    <3>5. QED
      BY <1>1, <3>1, <3>2, <3>4, BackedMove
  <2>3. QED
    BY <2>1, <2>2
<1>4. CASE Expire
  <2>1. pc' = pc /\ job' = job
    BY <1>4, ExpireFacts
  <2>2. /\ \A k \in Keys : attempts'[k] \in {attempts[k], 0}
        /\ locked' \subseteq locked
    BY <1>4 DEF Expire, ExpireReset, ExpireAccess, ExpireRefresh, ExpireAttempts, ExpireLock,
                counters, StoreOK
  <2>3. QED
    BY <1>1, <2>1, <2>2, BackedStays
<1>5. CASE Restart
  <2>1. job' = job /\ \A q \in Requests : pc'[q] \in {pc[q], "failed"}
    BY <1>5, RestartFacts
  <2>2. /\ \A k \in Keys : attempts'[k] \in {attempts[k], 0}
        /\ locked' \subseteq locked
    BY <1>5 DEF Restart, counters
  <2>3. \A q \in Requests : CountsFit(pc[q], job[q]) => CountsFit(pc'[q], job[q])
    BY <2>1 DEF CountsFit, Uncounted, IpUncounted
  <2>4. QED
    BY <1>1, <2>1, <2>2, <2>3, BackedStays
<1>6. CASE UNCHANGED vars
  BY <1>1, <1>6, BackedStays DEF vars, counters
<1>7. QED
  BY <1>2, <1>3, <1>4, <1>5, <1>6, StepKinds

LEMMA InitBacked == Init => Backed
<1> SUFFICES ASSUME Init PROVE Backed
  OBVIOUS
<1>1. \A r \in Requests : pc[r] = "idle" /\ job[r].attempts = 0 /\ job[r].ipAttempts = 0
  BY InitHandlers, BlankJob
<1>2. \A k \in Keys : attempts[k] = 0
  BY DEF Init
<1>3. locked = {}
  BY DEF Init
<1>4. \A k : Cardinality(Counted(k)) \in Nat
  BY CountedFinite
<1>5. QED
  BY <1>1, <1>2, <1>3, <1>4 DEF Backed, CountsFit

\* However logins overlap, whatever expires or is lost in a restart, an email
\* or an address is locked only after Max failed logins of its own.
THEOREM LocksAreEarned == Spec => []LockEarned
<1>1. Init => TypeInv /\ Backed
  BY InitBacked, InitTyped, TwoParts
<1>2. TypeInv /\ Backed /\ [Next]_vars => TypeInv' /\ Backed'
  <2>1. (StoreOK' /\ HandlersOK') => TypeInv'
    BY DEF TypeInv, TypeOK, AccountsTypeOK, StoreOK, HandlersOK
  <2>2. QED
    BY <2>1, TwoParts, StepTyped, BackedStep
<1>3. TypeInv /\ Backed => LockEarned
  <2> SUFFICES ASSUME StoreOK, HandlersOK, Backed, NEW k \in locked
               PROVE  Cardinality(Failures(k)) >= Max[k]
    BY TwoParts DEF LockEarned
  <2>1. Counted(k) \subseteq Failures(k)
    BY DEF Counted, Failures, Backed, CountsFit
  <2>2. IsFiniteSet(Failures(k))
    BY AccountsAssumption, FS_Subset DEF Failures
  <2>3. Cardinality(Counted(k)) <= Cardinality(Failures(k))
    BY <2>1, <2>2, FS_Subset
  <2>4. /\ Max[k] \in Nat /\ Cardinality(Counted(k)) \in Nat
        /\ Cardinality(Failures(k)) \in Nat /\ Max[k] <= Cardinality(Counted(k))
    BY <2>2, CountedFinite, SessionsAssumption, FS_CardinalityType DEF Backed, StoreOK
  <2>5. QED
    BY <2>3, <2>4
<1>4. QED
  BY <1>1, <1>2, <1>3, PTL DEF Spec

\* No request has been lost.
Unfailed == \A r \in Requests : pc[r] # "failed"

LEMMA CounterTypes ==
  ASSUME StoreOK, NEW k \in Keys
  PROVE  wrong[k] \in Nat /\ attempts[k] \in Nat /\ Max[k] \in Nat /\ Max[k] > 0
BY SessionsAssumption DEF StoreOK

\* With one active handler, only it stands between history and counters.
LEMMA LoneView ==
  ASSUME serial, Unfailed, OneActive, NoneLost, NEW r \in Requests, Active(r)
  PROVE  /\ \A k \in Keys : wrong[k] <= attempts[k] \/ CountGap(pc[r], job[r], k)
         /\ \A k \in Keys : wrong[k] >= Max[k] => k \in locked \/ LockGap(pc[r], job[r], k)
         /\ Covers(pc[r], job[r])
<1>1. ASSUME NEW q \in Requests, q # r, NEW k
      PROVE  ~CountGap(pc[q], job[q], k) /\ ~LockGap(pc[q], job[q], k)
  BY <1>1 DEF OneActive, Active, Ended, CountGap, LockGap
<1>2. QED
  BY <1>1 DEF NoneLost, Unfailed

LEMMA LoneStep ==
  ASSUME serial, OneActive, NEW r \in Requests, Active(r),
         \A q \in Requests : q # r => pc'[q] = pc[q] /\ job'[q] = job[q],
         \A k \in Keys : wrong'[k] <= attempts'[k] \/ CountGap(pc'[r], job'[r], k),
         \A k \in Keys : wrong'[k] >= Max[k] => k \in locked' \/ LockGap(pc'[r], job'[r], k),
         Covers(pc[r], job[r])'
  PROVE  NoneLost'
<1>1. ASSUME NEW q \in Requests, q # r PROVE Covers(pc[q], job[q])'
  BY <1>1 DEF OneActive, Active, Ended, Covers
<1>2. QED
  BY <1>1 DEF NoneLost, CountGap, LockGap

LEMMA LoginReadsLose ==
  ASSUME StoreOK, HandlersOK, serial, Unfailed, OneActive, NoneLost, NEW r \in Requests,
         CheckIp(r) \/ FindUser(r), Moved(r)
  PROVE  NoneLost'
<1>1. pc[r] \in {"checkIp", "findUser"} /\ UNCHANGED <<attempts, wrong, locked>>
      /\ pc'[r] \in {"rejected", "findUser", "countEmail", "forgetEmail"}
  BY DEF CheckIp, FindUser, Proceed, Goto, HandlersOK, counters
<1>2. Active(r) /\ \A q \in Requests : q # r => pc'[q] = pc[q] /\ job'[q] = job[q]
  BY MovedFacts
<1>3. \A k : ~CountGap(pc[r], job[r], k) /\ ~LockGap(pc[r], job[r], k)
  BY <1>1 DEF CountGap, LockGap
<1>4. /\ \A k \in Keys : wrong[k] <= attempts[k]
      /\ \A k \in Keys : wrong[k] >= Max[k] => k \in locked
  BY <1>2, <1>3, LoneView
<1>5. Covers(pc[r], job[r])'
  BY <1>1 DEF Covers
<1>6. QED
  BY <1>1, <1>2, <1>4, <1>5, LoneStep

LEMMA ForgetLoses ==
  ASSUME StoreOK, HandlersOK, serial, Unfailed, OneActive, NoneLost, NEW r \in Requests,
         ForgetEmail(r) \/ ForgetIp(r), Moved(r)
  PROVE  NoneLost'
<1>1. pc[r] \in {"forgetEmail", "forgetIp"} /\ locked' = locked
      /\ pc'[r] \in {"forgetIp", "issue"}
  BY DEF ForgetEmail, ForgetIp, Forget, Goto, HandlersOK
<1>2. Active(r) /\ \A q \in Requests : q # r => pc'[q] = pc[q] /\ job'[q] = job[q]
  BY MovedFacts
<1>3. \A k : ~CountGap(pc[r], job[r], k) /\ ~LockGap(pc[r], job[r], k)
  BY <1>1 DEF CountGap, LockGap
<1>4. /\ \A k \in Keys : wrong[k] <= attempts[k]
      /\ \A k \in Keys : wrong[k] >= Max[k] => k \in locked
  BY <1>2, <1>3, LoneView
<1>5. \A k \in Keys : \/ wrong'[k] = wrong[k] /\ attempts'[k] = attempts[k]
                      \/ wrong'[k] = 0 /\ attempts'[k] = 0
  BY DEF ForgetEmail, ForgetIp, Forget, StoreOK
<1>6. \A k \in Keys : wrong'[k] <= attempts'[k]
  BY <1>4, <1>5
<1>7. \A k \in Keys : wrong'[k] >= Max[k] => k \in locked'
  BY <1>1, <1>4, <1>5, CounterTypes
<1>8. Covers(pc[r], job[r])'
  BY <1>1 DEF Covers
<1>9. QED
  BY <1>2, <1>6, <1>7, <1>8, LoneStep

LEMMA CountEmailLoses ==
  ASSUME StoreOK, HandlersOK, serial, Unfailed, OneActive, NoneLost, NEW r \in Requests,
         CountEmail(r), Moved(r)
  PROVE  NoneLost'
<1>1. pc[r] = "countEmail"
  BY DEF CountEmail, Count
<1>2. /\ job[r] \in Job /\ job[r].email \in Keys
  BY <1>1, LoginAt DEF LoginLabels
<1>3. Active(r) /\ \A q \in Requests : q # r => pc'[q] = pc[q] /\ job'[q] = job[q]
  BY MovedFacts
<1>4. PICK e \in Keys : e = job[r].email
  BY <1>2
<1>5. /\ pc'[r] = "countIp" /\ locked' = locked /\ attempts' = attempts
      /\ wrong' = [wrong EXCEPT ![e] = @ + 1]
      /\ job'[r] = [job[r] EXCEPT !.attempts = attempts[e] + 1]
  BY <1>4 DEF CountEmail, Count, Goto, HandlersOK, AfterFailure
<1>6. job'[r].email = e /\ job'[r].attempts = attempts[e] + 1
  BY <1>2, <1>4, <1>5 DEF Job
<1>7. \A k : ~CountGap(pc[r], job[r], k) /\ ~LockGap(pc[r], job[r], k)
  BY <1>1 DEF CountGap, LockGap
<1>8. /\ \A k \in Keys : wrong[k] <= attempts[k]
      /\ \A k \in Keys : wrong[k] >= Max[k] => k \in locked
  BY <1>3, <1>7, LoneView
<1>9. /\ \A k \in Keys : k # e => wrong'[k] = wrong[k]
      /\ wrong'[e] = wrong[e] + 1
  BY <1>5 DEF StoreOK
<1>10. \A k \in Keys : wrong'[k] <= attempts'[k] \/ CountGap(pc'[r], job'[r], k)
  BY <1>5, <1>6, <1>8, <1>9 DEF CountGap
<1>11. \A k \in Keys : wrong'[k] >= Max[k] => k \in locked' \/ LockGap(pc'[r], job'[r], k)
  BY <1>5, <1>6, <1>8, <1>9 DEF LockGap
<1>12. Covers(pc[r], job[r])'
  BY <1>5, <1>6, <1>8, <1>9, CounterTypes DEF Covers
<1>13. QED
  BY <1>3, <1>10, <1>11, <1>12, LoneStep

LEMMA CountIpLoses ==
  ASSUME StoreOK, HandlersOK, serial, Unfailed, OneActive, NoneLost, NEW r \in Requests,
         CountIp(r), Moved(r)
  PROVE  NoneLost'
<1>1. pc[r] = "countIp"
  BY DEF CountIp, Count
<1>2. /\ job[r] \in Job /\ job[r].email \in Keys /\ job[r].ip \in Keys
      /\ job[r].email # job[r].ip
  BY <1>1, LoginAt, AccountsAssumption DEF LoginLabels
<1>3. Active(r) /\ \A q \in Requests : q # r => pc'[q] = pc[q] /\ job'[q] = job[q]
  BY MovedFacts
<1>4. PICK e \in Keys, i \in Keys : e = job[r].email /\ i = job[r].ip /\ e # i
  BY <1>2
<1>5. /\ pc'[r] = "setEmail" /\ locked' = locked /\ attempts' = attempts
      /\ wrong' = [wrong EXCEPT ![i] = @ + 1]
      /\ job'[r] = [job[r] EXCEPT !.ipAttempts = attempts[i] + 1]
  BY <1>4 DEF CountIp, Count, Goto, HandlersOK, AfterFailure
<1>6. /\ job'[r].email = e /\ job'[r].ip = i /\ job'[r].attempts = job[r].attempts
      /\ job'[r].ipAttempts = attempts[i] + 1
  BY <1>2, <1>4, <1>5 DEF Job
<1>7. \A k \in Keys : k # e => wrong[k] <= attempts[k]
  BY <1>1, <1>3, <1>4, LoneView DEF CountGap
<1>8. \A k \in Keys : k # e => (wrong[k] >= Max[k] => k \in locked)
  BY <1>1, <1>3, <1>4, LoneView DEF LockGap
<1>9. wrong[e] <= job[r].attempts
  BY <1>1, <1>3, <1>4, LoneView DEF Covers
<1>10. /\ \A k \in Keys : k # i => wrong'[k] = wrong[k]
       /\ wrong'[i] = wrong[i] + 1
  BY <1>5 DEF StoreOK
<1>11. \A k \in Keys : wrong'[k] <= attempts'[k] \/ CountGap(pc'[r], job'[r], k)
  BY <1>5, <1>6, <1>7, <1>10 DEF CountGap
<1>12. \A k \in Keys : wrong'[k] >= Max[k] => k \in locked' \/ LockGap(pc'[r], job'[r], k)
  BY <1>5, <1>6, <1>8, <1>10 DEF LockGap
<1>13. wrong'[i] <= attempts[i] + 1
  BY <1>4, <1>7, <1>10, CounterTypes
<1>14. Covers(pc[r], job[r])'
  BY <1>4, <1>5, <1>6, <1>9, <1>10, <1>13 DEF Covers
<1>15. QED
  BY <1>3, <1>11, <1>12, <1>14, LoneStep

LEMMA SetEmailLoses ==
  ASSUME StoreOK, HandlersOK, serial, Unfailed, OneActive, NoneLost, NEW r \in Requests,
         SetEmail(r), Moved(r)
  PROVE  NoneLost'
<1>1. pc[r] = "setEmail"
  BY DEF SetEmail, SetCounter
<1>2. PICK e \in Keys, i \in Keys : e = job[r].email /\ i = job[r].ip
  BY <1>1, LoginAt DEF LoginLabels
<1>3. Active(r) /\ \A q \in Requests : q # r => pc'[q] = pc[q] /\ job'[q] = job[q]
  BY MovedFacts
<1>4. /\ pc'[r] = "setIp" /\ locked' = locked /\ wrong' = wrong /\ job' = job
      /\ attempts' = [attempts EXCEPT ![e] = job[r].attempts]
  BY <1>2 DEF SetEmail, SetCounter, Goto, HandlersOK
<1>5. /\ \A k \in Keys : k # e => attempts'[k] = attempts[k]
      /\ attempts'[e] = job[r].attempts
  BY <1>4 DEF StoreOK
<1>6. /\ \A k \in Keys : k # e /\ k # i => wrong[k] <= attempts[k]
      /\ \A k \in Keys : k # e /\ k # i => (wrong[k] >= Max[k] => k \in locked)
      /\ wrong[e] <= job[r].attempts /\ wrong[i] <= job[r].ipAttempts
  BY <1>1, <1>2, <1>3, LoneView DEF CountGap, LockGap, Covers
<1>7. \A k \in Keys : wrong'[k] <= attempts'[k] \/ CountGap(pc'[r], job'[r], k)
  BY <1>2, <1>4, <1>5, <1>6 DEF CountGap
<1>8. \A k \in Keys : wrong'[k] >= Max[k] => k \in locked' \/ LockGap(pc'[r], job'[r], k)
  BY <1>2, <1>4, <1>6 DEF LockGap
<1>9. Covers(pc[r], job[r])'
  BY <1>2, <1>4, <1>6 DEF Covers
<1>10. QED
  BY <1>3, <1>7, <1>8, <1>9, LoneStep

LEMMA SetIpLoses ==
  ASSUME StoreOK, HandlersOK, serial, Unfailed, OneActive, NoneLost, NEW r \in Requests,
         SetIp(r), Moved(r)
  PROVE  NoneLost'
<1>1. pc[r] = "setIp"
  BY DEF SetIp, SetCounter
<1>2. PICK e \in Keys, i \in Keys : e = job[r].email /\ i = job[r].ip /\ e # i
  BY <1>1, LoginAt, AccountsAssumption DEF LoginLabels
<1>3. Active(r) /\ \A q \in Requests : q # r => pc'[q] = pc[q] /\ job'[q] = job[q]
  BY MovedFacts
<1>4. /\ locked' = locked /\ wrong' = wrong /\ job' = job
      /\ attempts' = [attempts EXCEPT ![i] = job[r].ipAttempts]
  BY <1>2 DEF SetIp, SetCounter
<1>5. pc'[r] = IF Reached(e, job[r].attempts) THEN "lockEmail"
               ELSE IF Reached(i, job[r].ipAttempts) THEN "lockIp" ELSE "rejected"
  BY <1>2 DEF SetIp, SetCounter, Goto, HandlersOK
<1>6. /\ \A k \in Keys : k # i => attempts'[k] = attempts[k]
      /\ attempts'[i] = job[r].ipAttempts
  BY <1>4 DEF StoreOK
<1>7. /\ \A k \in Keys : k # i => wrong[k] <= attempts[k]
      /\ \A k \in Keys : k # e /\ k # i => (wrong[k] >= Max[k] => k \in locked)
      /\ wrong[e] <= job[r].attempts /\ wrong[i] <= job[r].ipAttempts
  BY <1>1, <1>2, <1>3, LoneView DEF CountGap, LockGap, Covers
<1>8. \A k \in Keys : wrong'[k] <= attempts'[k]
  BY <1>4, <1>6, <1>7
<1>9. job[r].attempts \in Nat /\ job[r].ipAttempts \in Nat
  BY DEF HandlersOK, Job
<1>10. wrong[e] >= Max[e] => pc'[r] = "lockEmail"
  BY <1>5, <1>7, <1>9, CounterTypes DEF Reached
<1>11. wrong[i] >= Max[i] => pc'[r] \in {"lockEmail", "lockIp"}
  BY <1>5, <1>7, <1>9, CounterTypes DEF Reached
<1>12. \A k \in Keys : wrong'[k] >= Max[k] => k \in locked' \/ LockGap(pc'[r], job'[r], k)
  BY <1>2, <1>4, <1>7, <1>10, <1>11 DEF LockGap
<1>13. Covers(pc[r], job[r])'
  BY <1>2, <1>4, <1>7 DEF Covers
<1>14. QED
  BY <1>3, <1>8, <1>12, <1>13, LoneStep

LEMMA LockLoses ==
  ASSUME StoreOK, HandlersOK, serial, Unfailed, OneActive, NoneLost, NEW r \in Requests,
         LockEmail(r) \/ LockIp(r), Moved(r)
  PROVE  NoneLost'
<1>1. pc[r] \in {"lockEmail", "lockIp"} /\ wrong' = wrong /\ attempts' = attempts /\ job' = job
  BY DEF LockEmail, LockIp, Lock
<1>2. PICK e \in Keys, i \in Keys : e = job[r].email /\ i = job[r].ip
  BY <1>1, LoginAt DEF LoginLabels
<1>3. Active(r) /\ \A q \in Requests : q # r => pc'[q] = pc[q] /\ job'[q] = job[q]
  BY MovedFacts
<1>4. /\ \A k \in Keys : wrong[k] <= attempts[k]
      /\ wrong[i] <= job[r].ipAttempts
  BY <1>1, <1>2, <1>3, LoneView DEF CountGap, Covers
<1>5. CASE LockEmail(r)
  <2>1. /\ locked' = locked \cup {e} /\ pc[r] = "lockEmail"
        /\ pc'[r] = IF Reached(i, job[r].ipAttempts) THEN "lockIp" ELSE "rejected"
    BY <1>2, <1>5 DEF LockEmail, Lock, Goto, HandlersOK
  <2>2. job[r].ipAttempts \in Nat
    BY DEF HandlersOK, Job
  <2>3. wrong[i] >= Max[i] => pc'[r] = "lockIp"
    BY <1>4, <2>1, <2>2, CounterTypes DEF Reached
  <2>4. \A k \in Keys : k # e /\ k # i => (wrong[k] >= Max[k] => k \in locked)
    BY <1>2, <1>3, <2>1, LoneView DEF LockGap
  <2>5. \A k \in Keys : wrong'[k] >= Max[k] => k \in locked' \/ LockGap(pc'[r], job'[r], k)
    BY <1>1, <1>2, <2>1, <2>3, <2>4 DEF LockGap
  <2>6. Covers(pc[r], job[r])'
    BY <1>1, <1>2, <1>4, <2>1 DEF Covers
  <2>7. \A k \in Keys : wrong'[k] <= attempts'[k]
    BY <1>1, <1>4
  <2>8. QED
    BY <1>3, <2>5, <2>6, <2>7, LoneStep
<1>6. CASE LockIp(r)
  <2>1. locked' = locked \cup {i} /\ pc[r] = "lockIp" /\ pc'[r] = "rejected"
    BY <1>2, <1>6 DEF LockIp, Lock, Goto, HandlersOK
  <2>2. \A k \in Keys : k # i => (wrong[k] >= Max[k] => k \in locked)
    BY <1>2, <1>3, <2>1, LoneView DEF LockGap
  <2>3. \A k \in Keys : wrong'[k] >= Max[k] => k \in locked'
    BY <1>1, <2>1, <2>2
  <2>4. Covers(pc[r], job[r])'
    BY <2>1 DEF Covers
  <2>5. \A k \in Keys : wrong'[k] <= attempts'[k]
    BY <1>1, <1>4
  <2>6. QED
    BY <1>3, <2>3, <2>4, <2>5, LoneStep
<1>7. QED
  BY <1>5, <1>6

LEMMA UnfailedBefore ==
  ASSUME StoreOK, HandlersOK, [Next]_vars, Unfailed'
  PROVE  Unfailed
<1>1. ASSUME NEW r \in Requests, Arrival(r) PROVE Unfailed
  BY <1>1, ArrivalFacts DEF Unfailed
<1>2. ASSUME NEW r \in Requests, HandlerStep(r), Moved(r) PROVE Unfailed
  BY <1>2, MovedFacts DEF Unfailed, Active, Ended
<1>3. CASE Expire
  BY <1>3, ExpireFacts DEF Unfailed
<1>4. CASE Restart
  BY <1>4, RestartFacts DEF Unfailed
<1>5. CASE UNCHANGED vars
  BY <1>5 DEF vars, Unfailed
<1>6. QED
  BY <1>1, <1>2, <1>3, <1>4, <1>5, StepKinds

\* Where the handler stood before its write, it still stands.
GapsKept(q) ==
  \A k : /\ CountGap(pc[q], job[q], k) => CountGap(pc'[q], job'[q], k)
         /\ LockGap(pc[q], job[q], k) => LockGap(pc'[q], job'[q], k)

\* A step that moves no login and at most forgets.
LEMMA QuietLoses ==
  ASSUME StoreOK, serial, Unfailed, NoneLost,
         \A q \in Requests : GapsKept(q),
         \A q \in Requests : Covers(pc[q], job[q]) => Covers(pc[q], job[q])',
         \A k \in Keys : \/ wrong'[k] = wrong[k] /\ attempts'[k] = attempts[k]
                            /\ (k \in locked => k \in locked' \/ attempts[k] = 0)
                         \/ wrong'[k] = 0 /\ attempts'[k] = 0
  PROVE  NoneLost'
<1>1. /\ \A k \in Keys : wrong[k] <= attempts[k] \/ \E q \in Requests : CountGap(pc[q], job[q], k)
      /\ \A k \in Keys : wrong[k] >= Max[k] =>
                           k \in locked \/ \E q \in Requests : LockGap(pc[q], job[q], k)
      /\ \A q \in Requests : Covers(pc[q], job[q])
  BY DEF NoneLost, Unfailed
<1>2. \A q \in Requests : \A k : CountGap(pc[q], job[q], k) => LockGap(pc[q], job[q], k)
  BY DEF CountGap, LockGap
<1>3. ASSUME NEW k \in Keys
      PROVE  wrong'[k] <= attempts'[k] \/ \E q \in Requests : CountGap(pc'[q], job'[q], k)
  BY <1>1 DEF GapsKept
<1>4. ASSUME NEW k \in Keys, wrong'[k] >= Max[k]
      PROVE  k \in locked' \/ \E q \in Requests : LockGap(pc'[q], job'[q], k)
  <2>1. wrong[k] \in Nat /\ attempts[k] \in Nat /\ Max[k] \in Nat /\ Max[k] > 0
    BY CounterTypes
  <2>2. wrong'[k] = wrong[k] /\ (k \in locked => k \in locked' \/ attempts[k] = 0)
    BY <1>4, <2>1
  <2>3. CASE \E q \in Requests : LockGap(pc[q], job[q], k)
    BY <2>3 DEF GapsKept
  <2>4. CASE ~\E q \in Requests : LockGap(pc[q], job[q], k)
    <3>1. k \in locked /\ wrong[k] <= attempts[k]
      BY <1>1, <1>2, <1>4, <2>2, <2>4
    <3>2. attempts[k] # 0
      BY <1>4, <2>1, <2>2, <3>1
    <3>3. QED
      BY <2>2, <3>1, <3>2
  <2>5. QED
    BY <2>3, <2>4
<1>5. \A q \in Requests : Covers(pc[q], job[q])'
  BY <1>1
<1>6. QED
  BY <1>3, <1>4, <1>5 DEF NoneLost, CountGap, LockGap

LEMMA NoneLostStep ==
  ASSUME StoreOK, HandlersOK, OneActive, NoneLost, [Next]_vars
  PROVE  NoneLost'
<1> SUFFICES ASSUME serial, Unfailed, Unfailed' PROVE NoneLost'
  BY SerialStays, UnfailedBefore DEF NoneLost, Unfailed
<1>1. ASSUME NEW r \in Requests, Arrival(r) PROVE NoneLost'
  <2>1. /\ \A q \in Requests : q # r => pc'[q] = pc[q] /\ job'[q] = job[q]
        /\ pc[r] = "idle" /\ Arrived(pc'[r], job'[r])
        /\ wrong' = wrong /\ attempts' = attempts /\ locked' = locked
    BY <1>1, ArrivalFacts DEF counters
  <2>2. \A k : ~CountGap(pc[r], job[r], k) /\ ~LockGap(pc[r], job[r], k)
    BY <2>1 DEF CountGap, LockGap
  <2>3. \A q \in Requests : GapsKept(q)
    BY <2>1, <2>2 DEF GapsKept
  <2>4. ASSUME NEW q \in Requests, Covers(pc[q], job[q]) PROVE Covers(pc[q], job[q])'
    <3>1. CASE q = r
      BY <2>1, <3>1 DEF Covers, Arrived
    <3>2. CASE q # r
      BY <2>1, <2>4, <3>2 DEF Covers
    <3>3. QED
      BY <3>1, <3>2
  <2>5. QED
    BY <2>1, <2>3, <2>4, QuietLoses
<1>2. ASSUME NEW r \in Requests, HandlerStep(r), Moved(r) PROVE NoneLost'
  <2>1. CASE pc[r] \in LoginLabels
    BY <1>2, <2>1, LoginActions, LoginReadsLose, ForgetLoses, CountEmailLoses, CountIpLoses,
       SetEmailLoses, SetIpLoses, LockLoses
  <2>2. CASE pc[r] \notin LoginLabels
    <3>1. job' = job /\ attempts' = attempts /\ locked' = locked /\ wrong' = wrong
      BY <1>2, <2>2, OtherActions DEF counters
    <3>2. /\ Comes(pc[r], pc'[r]) /\ \A q \in Requests : q # r => pc'[q] = pc[q]
      BY <1>2, MovedFacts
    <3>3. pc'[r] \notin LoginLabels
      BY <2>2, <3>2 DEF Comes
    <3>4. \A k : ~CountGap(pc[r], job[r], k) /\ ~LockGap(pc[r], job[r], k)
      BY <2>2 DEF CountGap, LockGap, LoginLabels
    <3>5. \A q \in Requests : GapsKept(q)
      BY <3>1, <3>2, <3>4 DEF GapsKept
    <3>6. ASSUME NEW q \in Requests, Covers(pc[q], job[q]) PROVE Covers(pc[q], job[q])'
      <4>1. CASE q = r
        BY <3>3, <4>1 DEF Covers, LoginLabels
      <4>2. CASE q # r
        BY <3>1, <3>2, <3>6, <4>2 DEF Covers
      <4>3. QED
        BY <4>1, <4>2
    <3>7. QED
      BY <3>1, <3>5, <3>6, QuietLoses
  <2>3. QED
    BY <2>1, <2>2
<1>3. ASSUME pc' = pc, job' = job,
             \A k \in Keys : \/ wrong'[k] = wrong[k] /\ attempts'[k] = attempts[k]
                                /\ (k \in locked => k \in locked' \/ attempts[k] = 0)
                             \/ wrong'[k] = 0 /\ attempts'[k] = 0
      PROVE  NoneLost'
  <2>1. ASSUME NEW q \in Requests, Covers(pc[q], job[q]) PROVE Covers(pc[q], job[q])'
    <3>1. \A k \in Keys : wrong'[k] \in {wrong[k], 0} /\ wrong[k] \in Nat
      BY <1>3, CounterTypes
    <3>2. job[q].attempts \in Nat /\ job[q].ipAttempts \in Nat
      BY DEF HandlersOK, Job
    <3>3. pc[q] \in {"countIp", "setEmail", "setIp", "lockEmail", "lockIp"}
            => job[q].email \in Keys /\ job[q].ip \in Keys
      BY LoginAt DEF LoginLabels
    <3>4. QED
      BY <1>3, <2>1, <3>1, <3>2, <3>3 DEF Covers
  <2>2. \A q \in Requests : GapsKept(q)
    BY <1>3 DEF GapsKept
  <2>3. QED
    BY <1>3, <2>1, <2>2, QuietLoses
<1>4. CASE Expire
  <2>1. pc' = pc /\ job' = job
    BY <1>4, ExpireFacts
  <2>2. CASE UNCHANGED counters
    BY <1>3, <2>1, <2>2 DEF counters
  <2>3. CASE \E k \in Keys : ExpireAttempts(k)
    BY <1>3, <2>1, <2>3 DEF ExpireAttempts, StoreOK
  <2>4. CASE \E k \in Keys : ExpireLock(k)
    BY <1>3, <2>1, <2>4 DEF ExpireLock
  <2>5. QED
    BY <1>4, <2>2, <2>3, <2>4 DEF Expire, ExpireAccess, ExpireRefresh
<1>5. CASE Restart
  <2>1. job' = job /\ \A q \in Requests : pc'[q] = IF Active(q) THEN "failed" ELSE pc[q]
    BY <1>5, RestartFacts
  <2>2. \A q \in Requests : pc'[q] = pc[q]
    BY <2>1 DEF Unfailed
  <2>3. pc' = pc
    BY <1>5, <2>2, StepTyped DEF HandlersOK
  <2>4. \A k \in Keys : \/ wrong'[k] = wrong[k] /\ attempts'[k] = attempts[k]
                           /\ (k \in locked => k \in locked' \/ attempts[k] = 0)
                        \/ wrong'[k] = 0 /\ attempts'[k] = 0
    BY <1>5 DEF Restart, counters
  <2>5. QED
    BY <1>3, <2>1, <2>3, <2>4
<1>6. CASE UNCHANGED vars
  BY <1>3, <1>6 DEF vars, counters
<1>7. QED
  BY <1>1, <1>2, <1>4, <1>5, <1>6, StepKinds

LEMMA InitNoneLost == Init => NoneLost
<1> SUFFICES ASSUME Init PROVE NoneLost
  OBVIOUS
<1>1. \A r \in Requests : pc[r] = "idle"
  BY InitHandlers
<1>2. StoreOK
  BY InitTyped
<1>3. \A k \in Keys : wrong[k] = 0 /\ attempts[k] = 0
  BY DEF Init
<1>4. QED
  BY <1>1, <1>2, <1>3, CounterTypes DEF NoneLost, Covers

\* With one request at a time, all carried through, no failed login goes
\* uncounted: the counter of an email or an address is at least the failures
\* since the last success or expiry, and at the maximum the key is locked.
THEOREM NoFailureUncounted == Spec => []FailuresCounted
<1> DEFINE Inv == TypeInv /\ OneActive /\ NoneLost
<1>1. Init => Inv
  BY InitReset, InitNoneLost, InitTyped, TwoParts
<1>2. Inv /\ [Next]_vars => Inv'
  <2>1. (StoreOK' /\ HandlersOK') => TypeInv'
    BY DEF TypeInv, TypeOK, AccountsTypeOK, StoreOK, HandlersOK
  <2>2. QED
    BY <2>1, TwoParts, StepTyped, OneActiveStep, NoneLostStep
<1>3. Inv => FailuresCounted
  <2> SUFFICES ASSUME NoneLost, serial, \A r \in Requests : ~Active(r) /\ pc[r] # "failed",
                      NEW k \in Keys
               PROVE  wrong[k] <= attempts[k] /\ (wrong[k] >= Max[k] => k \in locked)
    BY DEF FailuresCounted
  <2>1. \A r \in Requests : ~CountGap(pc[r], job[r], k) /\ ~LockGap(pc[r], job[r], k)
    BY DEF Active, Ended, CountGap, LockGap
  <2>2. QED
    BY <2>1 DEF NoneLost
<1> HIDE DEF Inv
<1>4. QED
  BY <1>1, <1>2, <1>3, PTL DEF Spec
=============================================================================
