---------------------------- MODULE AccountsProofs ----------------------------
(* Theorems about Accounts, for every set of requests, e-mails and passwords, *)
(* every lifetime of tokens and every number of failures.                     *)
EXTENDS Accounts, TLAPS

(***************************************************************************)
(* Without accounts, tokens and answers the invariant holds.               *)
(***************************************************************************)
LEMMA InitInvariant == AccountsInit => AccountsInv
<1> SUFFICES ASSUME AccountsInit PROVE AccountsInv
  OBVIOUS
<1> USE DEF AccountsInit
<1>1. DOMAIN users = {} /\ tokens = {}
  OBVIOUS
<1>2. AccountsTypeOK
  <2>1. NoRequest \in Request
    BY AccountsAssumption DEF NoRequest, Request, Times
  <2>2. clock \in Times /\ faults \in 0..MaxFaults
    BY AccountsAssumption DEF Times
  <2>3. QED
    BY <1>1, <2>1, <2>2 DEF AccountsTypeOK, Codes
<1>3. \A r \in Requests : HandlerShape(r) /\ LoginHolds(r)
  BY DEF HandlerShape, LoginHolds, NoRequest
<1>4. RowsRegistered /\ OneAccountPerEmail
  BY <1>1 DEF RowsRegistered, OneAccountPerEmail
<1>5. InsertsExclusive
  BY DEF InsertsExclusive
<1>6. OffHolds /\ DeactivationTakesEffect
  BY DEF OffHolds, DeactivationTakesEffect
<1>7. TokensBounded /\ TokensEarned
  BY <1>1 DEF TokensBounded, TokensEarned
<1>8. AnswersHold
  <2> SUFFICES ASSUME NEW r \in Requests
               PROVE  /\ answer[r] = 201 =>
                             /\ r \in DOMAIN users
                             /\ users[r].email = req[r].email
                             /\ verify_password(req[r].password, users[r].hashed_password)
                      /\ answer[r] = 409 => RowsOf(req[r].email) # {}
                      /\ answer[r] \in {401, 403, 409} => r \notin DOMAIN users
    BY Zenon DEF AnswersHold
  <2>1. answer[r] = 0
    OBVIOUS
  <2> QED
    BY <2>1
<1>9. QED
  BY <1>2, <1>3, <1>4, <1>5, <1>6, <1>7, <1>8 DEF AccountsInv

(***************************************************************************)
(* What the times of the model are, for the arithmetic below.              *)
(***************************************************************************)
LEMMA TimesAreNumbers ==
    ASSUME AccountsTypeOK
    PROVE  /\ clock \in Nat /\ Lifetime \in Nat /\ MaxLag \in Nat
           /\ None \notin Nat /\ None \notin Requests
           /\ \A r \in Requests : /\ req[r].began \in Nat
                                  /\ grantedAt[r] \in Nat \cup {None}
                                  /\ offSince[r] \in Nat \cup {None}
           /\ \A t \in tokens : t.sub \in Requests /\ t.exp \in Nat
<1>1. /\ Lifetime \in Nat /\ MaxLag \in Nat /\ MaxTime \in Nat
      /\ None \notin Nat /\ None \notin Requests
  BY AccountsAssumption
<1>2. Times \subseteq Nat
  BY <1>1 DEF Times
<1>3. \A r \in Requests : req[r].began \in Nat
  BY <1>2 DEF AccountsTypeOK, Request
<1>4. \A t \in tokens : t.sub \in Requests /\ t.exp \in Nat
  BY <1>1 DEF AccountsTypeOK, Token
<1>5. QED
  BY <1>1, <1>2, <1>3, <1>4 DEF AccountsTypeOK

(***************************************************************************)
(* A handler goes to l, with answer c, request q and grant g, and touches  *)
(* neither tables nor tokens nor time.                                     *)
(***************************************************************************)
HandlerMove(r, l, c, q, g) ==
    /\ pc' = [pc EXCEPT ![r] = l]
    /\ answer' = [answer EXCEPT ![r] = c]
    /\ req' = [req EXCEPT ![r] = q]
    /\ grantedAt' = [grantedAt EXCEPT ![r] = g]
    /\ UNCHANGED <<users, tokens, clock, offSince>>
    /\ faults' \in 0..MaxFaults

\* What it has to show for the invariant is about its own request only.
LEMMA HandlerStep ==
    ASSUME AccountsInv, NEW r \in Requests,
           NEW l \in {"done"} \cup InFlight, NEW c \in Codes,
           NEW q \in Request, NEW g \in Times \cup {None},
           HandlerMove(r, l, c, q, g),
           pc[r] # "done",
           r \in DOMAIN users => q = req[r] /\ l = "done" /\ c \in {0, 201, 500},
           HandlerShape(r)', LoginHolds(r)',
           l = "commit" => /\ RowsOf(q.email) = {}
                           /\ \A y \in Requests : ~Inserted(y, q.email),
           c = 201 => r \in DOMAIN users,
           c = 409 => RowsOf(q.email) # {},
           g # None /\ q.account \in Requests /\ offSince[q.account] # None =>
               g <= offSince[q.account] + (IF q.op = "admin" THEN 0 ELSE MaxLag + Lifetime)
    PROVE  AccountsInv'
<1> USE DEF HandlerMove
<1>1. /\ AccountsTypeOK /\ RowsRegistered /\ InsertsExclusive /\ OffHolds
      /\ TokensBounded /\ OneAccountPerEmail /\ AnswersHold /\ TokensEarned
      /\ DeactivationTakesEffect
      /\ \A x \in Requests : HandlerShape(x) /\ LoginHolds(x)
  BY DEF AccountsInv
<1>2. \A x \in Requests : x # r => /\ pc'[x] = pc[x] /\ answer'[x] = answer[x]
                                   /\ req'[x] = req[x] /\ grantedAt'[x] = grantedAt[x]
  BY <1>1 DEF AccountsTypeOK
<1>3. pc'[r] = l /\ answer'[r] = c /\ req'[r] = q /\ grantedAt'[r] = g
  BY <1>1 DEF AccountsTypeOK
<1>4. AccountsTypeOK'
  BY <1>1 DEF AccountsTypeOK
<1>5. DOMAIN users \subseteq Requests
  BY <1>1 DEF AccountsTypeOK
<1>6. \A b \in DOMAIN users : req'[b] = req[b]
  BY <1>2, <1>3, <1>5
<1>7. \A x \in Requests : HandlerShape(x)' /\ LoginHolds(x)'
  <2> SUFFICES ASSUME NEW x \in Requests, x # r PROVE HandlerShape(x)' /\ LoginHolds(x)'
    OBVIOUS
  <2>1. HandlerShape(x)'
    BY <1>1, <1>2 DEF HandlerShape
  <2>2. LoginHolds(x)'
    BY <1>1, <1>2, <1>6 DEF LoginHolds, Sent
  <2>3. QED
    BY <2>1, <2>2
<1>8. RowsRegistered'
  BY <1>1, <1>2, <1>3, <1>5, <1>6 DEF RowsRegistered
<1>9. InsertsExclusive'
  <2> SUFFICES ASSUME NEW x \in Requests, pc'[x] = "commit", NEW e, e = req'[x].email
               PROVE  /\ RowsOf(e) = {}
                      /\ \A y \in Requests : Inserted(y, e)' => y = x
    BY DEF InsertsExclusive, RowsOf, Inserted
  <2>1. CASE x = r
    <3>1. l = "commit" /\ e = q.email
      BY <1>3, <2>1
    <3>2. \A y \in Requests : y # r /\ Inserted(y, e)' => Inserted(y, e)
      BY <1>2 DEF Inserted
    <3>3. QED
      BY <2>1, <3>1, <3>2
  <2>2. CASE x # r
    <3>1. pc[x] = "commit" /\ e = req[x].email /\ req[x].op = "register"
      BY <1>1, <1>2, <2>2 DEF HandlerShape
    <3>2. RowsOf(e) = {} /\ \A y \in Requests : Inserted(y, e) => y = x
      BY <1>1, <3>1 DEF InsertsExclusive
    <3>3. ~Inserted(r, e)'
      <4> SUFFICES ASSUME l = "commit", q.email = e PROVE FALSE
        BY <1>3 DEF Inserted
      <4> QED
        BY <3>1 DEF Inserted
    <3>4. \A y \in Requests : Inserted(y, e)' => Inserted(y, e)
      BY <1>2, <3>3 DEF Inserted
    <3>5. QED
      BY <3>2, <3>4
  <2>3. QED
    BY <2>1, <2>2
<1>10. OffHolds' /\ TokensBounded' /\ OneAccountPerEmail'
  BY <1>1 DEF OffHolds, TokensBounded, OneAccountPerEmail
<1>11. AnswersHold'
  <2> SUFFICES ASSUME NEW x \in Requests
               PROVE  /\ answer'[x] = 201 =>
                             /\ x \in DOMAIN users
                             /\ users[x].email = req'[x].email
                             /\ verify_password(req'[x].password, users[x].hashed_password)
                      /\ answer'[x] = 409 => RowsOf(req'[x].email) # {}
                      /\ answer'[x] \in {401, 403, 409} => x \notin DOMAIN users
    BY DEF AnswersHold, RowsOf
  <2>1. CASE x = r
    <3>1. r \in DOMAIN users => /\ users[r].email = q.email
                                /\ verify_password(q.password, users[r].hashed_password)
      BY <1>1 DEF RowsRegistered, verify_password
    <3>2. QED
      BY <1>3, <2>1, <3>1
  <2>2. CASE x # r
    BY <1>1, <1>2, <2>2 DEF AnswersHold
  <2>3. QED
    BY <2>1, <2>2
<1>12. TokensEarned'
  <2>1. answer[r] = 0
    BY <1>1 DEF HandlerShape
  <2>2. \A x \in Requests : answer[x] = 200 => req'[x] = req[x] /\ answer'[x] = 200
    BY <1>2, <2>1
  <2>3. QED
    BY <1>1, <1>6, <2>2 DEF TokensEarned, Sent
<1>13. DeactivationTakesEffect'
  <2> SUFFICES ASSUME NEW x \in Requests, grantedAt'[x] # None,
                      offSince[req'[x].account] # None
               PROVE  grantedAt'[x] <= offSince[req'[x].account] +
                          (IF req'[x].op = "admin" THEN 0 ELSE MaxLag + Lifetime)
    BY DEF DeactivationTakesEffect
  <2>1. CASE x = r
    BY <1>3, <2>1 DEF HandlerShape
  <2>2. CASE x # r
    BY <1>1, <1>2, <2>2 DEF DeactivationTakesEffect
  <2>3. QED
    BY <2>1, <2>2
<1>14. QED
  BY <1>4, <1>7, <1>8, <1>9, <1>10, <1>11, <1>12, <1>13 DEF AccountsInv

\* A request before its answer: what the invariant says of it, and what its
\* handler leaves as it is, written as an update.
LEMMA Unanswered ==
    ASSUME AccountsInv, NEW r \in Requests, pc[r] # "done"
    PROVE  /\ pc[r] \in {"new"} \cup InFlight
           /\ answer[r] = 0 /\ grantedAt[r] = None
           /\ req[r] \in Request
           /\ pc[r] # "reply" => r \notin DOMAIN users
           /\ answer = [answer EXCEPT ![r] = 0]
           /\ grantedAt = [grantedAt EXCEPT ![r] = None]
           /\ req = [req EXCEPT ![r] = req[r]]
           /\ faults \in 0..MaxFaults
<1>1. AccountsTypeOK /\ HandlerShape(r) /\ RowsRegistered
  BY DEF AccountsInv
<1>2. answer[r] = 0 /\ grantedAt[r] = None
  BY <1>1 DEF HandlerShape
<1>3. pc[r] # "reply" => r \notin DOMAIN users
  BY <1>1 DEF RowsRegistered
<1>4. QED
  BY <1>1, <1>2, <1>3 DEF AccountsTypeOK

(***************************************************************************)
(* register                                                                *)
(***************************************************************************)
LEMMA RegisterInvariant ==
    ASSUME AccountsInv, NEW r \in Requests, NEW e \in Emails, NEW p \in Passwords,
           Register(r, e, p)
    PROVE  AccountsInv'
<1> DEFINE q == [op |-> "register", email |-> e, password |-> p,
                 account |-> None, began |-> 0]
<1>1. pc[r] = "new" /\ r \notin DOMAIN users
  BY Unanswered DEF Register
<1>2. q \in Request
  BY AccountsAssumption DEF Request, Times
<1>3. AccountsTypeOK /\ None \notin Requests
  BY AccountsAssumption DEF AccountsInv
<1>4. CASE RowsOf(e) # {} /\ Answer(r, 409)
  <2>1. HandlerMove(r, "done", 409, q, None)
    BY <1>1, <1>4, Unanswered DEF Register, Ask, Answer, HandlerMove, tableVars, historyVars
  <2>2. HandlerShape(r)' /\ LoginHolds(r)'
    BY <1>3, <2>1 DEF HandlerMove, HandlerShape, LoginHolds, AccountsTypeOK
  <2>3. QED
    BY <1>1, <1>2, <1>4, <2>1, <2>2, HandlerStep DEF Codes
<1>5. CASE RowsOf(e) = {} /\ Goto(r, "insert")
  <2>1. HandlerMove(r, "insert", 0, q, None)
    BY <1>1, <1>5, Unanswered DEF Register, Ask, Goto, HandlerMove, tableVars, historyVars
  <2>2. HandlerShape(r)' /\ LoginHolds(r)'
    BY <1>3, <2>1 DEF HandlerMove, HandlerShape, LoginHolds, AccountsTypeOK
  <2>3. QED
    BY <1>1, <1>2, <2>1, <2>2, HandlerStep DEF Codes, InFlight
<1>6. QED
  BY <1>4, <1>5 DEF Register, Taken

\* A registration inserts its row, or runs into the unique e-mail.
LEMMA InsertInvariant ==
    ASSUME AccountsInv, NEW r \in Requests, Insert(r)
    PROVE  AccountsInv'
<1>1. pc[r] = "insert" /\ r \notin DOMAIN users /\ req[r] \in Request
  BY Unanswered DEF Insert
<1>2. AccountsTypeOK /\ HandlerShape(r)
  BY DEF AccountsInv
<1>3. CASE RowsOf(req[r].email) # {} /\ Answer(r, 500)
  <2>1. HandlerMove(r, "done", 500, req[r], None)
    BY <1>1, <1>3, Unanswered DEF Insert, Answer, HandlerMove, tableVars, historyVars
  <2>2. HandlerShape(r)' /\ LoginHolds(r)'
    BY <1>2, <2>1 DEF HandlerMove, HandlerShape, LoginHolds, AccountsTypeOK
  <2>3. QED
    BY <1>1, <2>1, <2>2, HandlerStep DEF Codes
<1>4. CASE RowsOf(req[r].email) = {} /\ Goto(r, "commit")
  <2>1. HandlerMove(r, "commit", 0, req[r], None)
    BY <1>1, <1>4, Unanswered DEF Insert, Goto, HandlerMove, tableVars, historyVars
  <2>2. HandlerShape(r)' /\ LoginHolds(r)'
    BY <1>1, <1>2, <2>1 DEF HandlerMove, HandlerShape, LoginHolds, AccountsTypeOK
  <2>3. \A y \in Requests : ~Inserted(y, req[r].email)
    BY DEF Insert
  <2>4. QED
    BY <1>1, <1>4, <2>1, <2>2, <2>3, HandlerStep DEF Codes, InFlight
<1>5. QED
  BY <1>3, <1>4 DEF Insert

\* A handler sends the answer it has come to.
LEMMA ReplyInvariant ==
    ASSUME AccountsInv, NEW r \in Requests, Reply(r)
    PROVE  AccountsInv'
<1>1. pc[r] = "reply" /\ req[r] \in Request
  BY Unanswered DEF Reply
<1>2. AccountsTypeOK /\ HandlerShape(r) /\ r \in DOMAIN users
  BY <1>1 DEF AccountsInv, HandlerShape
<1>3. HandlerMove(r, "done", 201, req[r], None)
  BY <1>1, Unanswered DEF Reply, Answer, HandlerMove, tableVars, historyVars
<1>4. HandlerShape(r)' /\ LoginHolds(r)'
  BY <1>2, <1>3 DEF HandlerMove, HandlerShape, LoginHolds, AccountsTypeOK
<1>5. QED
  BY <1>1, <1>2, <1>3, <1>4, HandlerStep DEF Codes

(***************************************************************************)
(* login                                                                   *)
(***************************************************************************)
LEMMA LoginInvariant ==
    ASSUME AccountsInv, NEW r \in Requests, NEW e \in Emails, NEW p \in Passwords,
           Login(r, e, p)
    PROVE  AccountsInv'
<1> DEFINE q(b) == [op |-> "login", email |-> e, password |-> p,
                    account |-> b, began |-> clock]
<1>1. pc[r] = "new" /\ r \notin DOMAIN users
  BY Unanswered DEF Login
<1>2. /\ AccountsTypeOK /\ None \notin Requests
      /\ clock \in Nat /\ MaxLag \in Nat
      /\ RowsRegistered /\ OffHolds
  BY TimesAreNumbers DEF AccountsInv
<1>3. \A b \in Requests \cup {None} : q(b) \in Request
  BY <1>2 DEF Request, AccountsTypeOK
<1>4. CASE Ask(r, "login", e, p, None) /\ Answer(r, 401)
  <2>1. HandlerMove(r, "done", 401, q(None), None)
    BY <1>1, <1>4, Unanswered DEF Login, Ask, Answer, HandlerMove, tableVars, historyVars
  <2>2. HandlerShape(r)' /\ LoginHolds(r)'
    BY <1>2, <2>1 DEF HandlerMove, HandlerShape, LoginHolds, AccountsTypeOK
  <2>3. QED
    BY <1>1, <1>2, <1>3, <2>1, <2>2, HandlerStep DEF Codes
<1>5. ASSUME NEW b \in RowsOf(e), Proved(p, b), Ask(r, "login", e, p, b),
             ~MayLogin(b), Answer(r, 403)
      PROVE  AccountsInv'
  <2>1. b \in Requests
    BY <1>2 DEF RowsOf, AccountsTypeOK
  <2>2. HandlerMove(r, "done", 403, q(b), None)
    BY <1>1, <1>5, Unanswered DEF Login, Ask, Answer, HandlerMove, tableVars, historyVars
  <2>3. HandlerShape(r)' /\ LoginHolds(r)'
    BY <1>2, <2>2 DEF HandlerMove, HandlerShape, LoginHolds, AccountsTypeOK
  <2>4. QED
    BY <1>1, <1>2, <1>3, <2>1, <2>2, <2>3, HandlerStep DEF Codes
<1>6. ASSUME NEW b \in RowsOf(e), Proved(p, b), Ask(r, "login", e, p, b),
             MayLogin(b), Goto(r, "issue")
      PROVE  AccountsInv'
  <2>1. b \in Requests /\ b \in DOMAIN users /\ users[b].email = e /\ b # r
    BY <1>1, <1>2 DEF RowsOf, AccountsTypeOK
  <2>2. HandlerMove(r, "issue", 0, q(b), None)
    BY <1>1, <1>6, Unanswered DEF Login, Ask, Goto, HandlerMove, tableVars, historyVars
  <2>3. HandlerShape(r)'
    BY <1>2, <2>2 DEF HandlerMove, HandlerShape, AccountsTypeOK
  <2>4. req[b].email = e /\ req[b].password = p
    <3>1. req[b].email = e /\ users[b].hashed_password = [hashOf |-> req[b].password]
      BY <1>2, <2>1 DEF RowsRegistered, hash_password
    <3>2. users[b].hashed_password = [hashOf |-> p]
      BY <1>6 DEF Proved, verify_password, hash_password
    <3>3. [hashOf |-> p].hashOf = [hashOf |-> req[b].password].hashOf
      BY <3>1, <3>2
    <3>4. QED
      BY <3>1, <3>3
  <2>5. offSince[b] = None
    BY <1>2, <1>6, <2>1 DEF OffHolds, MayLogin
  <2>6. LoginHolds(r)'
    <3>1. /\ pc'[r] = "issue" /\ req'[r] = q(b) /\ req'[b] = req[b]
          /\ users' = users /\ clock' = clock /\ offSince' = offSince
      BY <1>2, <2>1, <2>2 DEF HandlerMove, AccountsTypeOK
    <3>2. QED
      BY <1>2, <2>1, <2>4, <2>5, <3>1 DEF LoginHolds, Sent
  <2>7. QED
    BY <1>1, <1>2, <1>3, <2>1, <2>2, <2>3, <2>6, HandlerStep DEF Codes, InFlight
<1>7. QED
  BY <1>4, <1>5, <1>6 DEF Login

(***************************************************************************)
(* What tokens open                                                        *)
(***************************************************************************)
LEMMA BearerInvariant ==
    ASSUME AccountsInv, NEW r \in Requests, NEW t \in tokens,
           Use(r, t) \/ Administer(r, t)
    PROVE  AccountsInv'
<1> DEFINE q(op) == [op |-> op, email |-> None, password |-> None,
                     account |-> t.sub, began |-> 0]
<1>1. pc[r] = "new" /\ r \notin DOMAIN users
  BY Unanswered DEF Use, Administer
<1>2. /\ AccountsTypeOK /\ TokensBounded
      /\ None \notin Requests /\ None \notin Nat
      /\ clock \in Nat /\ MaxLag \in Nat /\ Lifetime \in Nat
      /\ t.sub \in Requests /\ t.exp \in Nat
      /\ offSince[t.sub] \in Nat \cup {None}
  BY TimesAreNumbers DEF AccountsInv
<1>3. q("use") \in Request /\ q("admin") \in Request
  BY <1>2, AccountsAssumption DEF Request, Times
<1>4. ASSUME NEW op \in {"use", "admin"}, Ask(r, op, None, None, t.sub), Answer(r, 401),
             UNCHANGED <<tableVars, clock, grantedAt, offSince, faults>>
      PROVE  AccountsInv'
  <2>1. HandlerMove(r, "done", 401, q(op), None)
    BY <1>1, <1>4, Unanswered DEF Ask, Answer, HandlerMove, tableVars
  <2>2. HandlerShape(r)' /\ LoginHolds(r)'
    BY <1>2, <2>1 DEF HandlerMove, HandlerShape, LoginHolds, AccountsTypeOK
  <2>3. QED
    BY <1>1, <1>2, <1>3, <2>1, <2>2, HandlerStep DEF Codes
<1>5. CASE /\ Ask(r, "use", None, None, t.sub)
           /\ ~Expired(t) /\ Grant(r)
           /\ UNCHANGED <<tableVars, clock, offSince, faults>>
  <2>1. HandlerMove(r, "done", 200, q("use"), clock)
    BY <1>1, <1>5, Unanswered DEF Ask, Grant, Answer, HandlerMove, tableVars
  <2>2. clock \in Times
    BY <1>2 DEF AccountsTypeOK
  <2>3. HandlerShape(r)' /\ LoginHolds(r)'
    BY <1>2, <2>1 DEF HandlerMove, HandlerShape, LoginHolds, AccountsTypeOK
  <2>4. offSince[t.sub] # None => clock <= offSince[t.sub] + (MaxLag + Lifetime)
    <3> HAVE offSince[t.sub] # None
    <3>1. t.exp <= offSince[t.sub] + MaxLag + Lifetime
      BY <1>2 DEF TokensBounded
    <3>2. clock <= t.exp
      BY <1>2, <1>5 DEF Expired
    <3>3. QED
      BY <1>2, <3>1, <3>2
  <2>5. q("use").account = t.sub /\ q("use").op = "use"
    OBVIOUS
  <2>6. 200 \in Codes /\ "done" \in {"done"} \cup InFlight /\ 200 \notin {201, 409}
    BY DEF Codes
  <2> HIDE DEF q
  <2>7. QED
    BY <1>1, <1>3, <2>1, <2>2, <2>3, <2>4, <2>5, <2>6, HandlerStep
<1>6. CASE Administer(r, t) /\ Goto(r, "check")
  <2>1. HandlerMove(r, "check", 0, q("admin"), None)
    BY <1>1, <1>6, Unanswered DEF Administer, Ask, Goto, HandlerMove, tableVars, historyVars
  <2>2. HandlerShape(r)' /\ LoginHolds(r)'
    BY <1>2, <2>1 DEF HandlerMove, HandlerShape, LoginHolds, AccountsTypeOK
  <2>3. QED
    BY <1>1, <1>3, <2>1, <2>2, HandlerStep DEF Codes, InFlight
<1>7. QED
  BY <1>4, <1>5, <1>6 DEF Use, Administer, historyVars

\* get_current_admin_user lets a handler in, or refuses it.
LEMMA CheckAdminInvariant ==
    ASSUME AccountsInv, NEW r \in Requests, CheckAdmin(r)
    PROVE  AccountsInv'
<1>1. pc[r] = "check" /\ r \notin DOMAIN users /\ req[r] \in Request
  BY Unanswered DEF CheckAdmin
<1>2. /\ AccountsTypeOK /\ HandlerShape(r) /\ OffHolds
      /\ None \notin Requests /\ clock \in Nat /\ clock \in Times
  BY TimesAreNumbers DEF AccountsInv, AccountsTypeOK
<1>3. req[r].op = "admin" /\ req[r].account \in Requests
  BY <1>1, <1>2 DEF HandlerShape
<1>4. ASSUME NEW code \in {401, 403}, Answer(r, code), UNCHANGED grantedAt
      PROVE  AccountsInv'
  <2>1. HandlerMove(r, "done", code, req[r], None)
    BY <1>1, <1>4, Unanswered DEF CheckAdmin, Answer, HandlerMove, tableVars
  <2>2. HandlerShape(r)' /\ LoginHolds(r)'
    BY <1>2, <2>1 DEF HandlerMove, HandlerShape, LoginHolds, AccountsTypeOK
  <2>3. QED
    BY <1>1, <2>1, <2>2, HandlerStep DEF Codes
<1>5. CASE req[r].account \in DOMAIN users /\ users[req[r].account].is_active /\ Grant(r)
  <2>1. HandlerMove(r, "done", 200, req[r], clock)
    BY <1>1, <1>5, Unanswered DEF CheckAdmin, Grant, Answer, HandlerMove, tableVars
  <2>2. HandlerShape(r)' /\ LoginHolds(r)'
    BY <1>2, <1>3, <2>1 DEF HandlerMove, HandlerShape, LoginHolds, AccountsTypeOK
  <2>3. offSince[req[r].account] = None
    BY <1>2, <1>3, <1>5 DEF OffHolds
  <2>4. QED
    BY <1>1, <1>2, <2>1, <2>2, <2>3, HandlerStep DEF Codes
<1>6. QED
  BY <1>4, <1>5 DEF CheckAdmin

(***************************************************************************)
(* A handler that fails                                                    *)
(***************************************************************************)
LEMMA FailInvariant ==
    ASSUME AccountsInv, NEW r \in Requests, Fail(r) \/ Unavailable(r)
    PROVE  AccountsInv'
<1>1. pc[r] \in {"new"} \cup (InFlight \ {"reply"})
  BY DEF Fail, Unavailable, InFlight
<1>2. pc[r] # "done" /\ r \notin DOMAIN users /\ req[r] \in Request
  BY <1>1, Unanswered DEF InFlight
<1>3. AccountsTypeOK
  BY DEF AccountsInv
<1>4. faults' \in 0..MaxFaults
  BY <1>3, AccountsAssumption DEF Fail, Unavailable, Fault, AccountsTypeOK
<1>5. HandlerMove(r, "done", 500, req[r], None)
  BY <1>2, <1>4, Unanswered DEF Fail, Unavailable, Answer, HandlerMove, tableVars, historyVars
<1>6. HandlerShape(r)' /\ LoginHolds(r)'
  BY <1>3, <1>5 DEF HandlerMove, HandlerShape, LoginHolds, AccountsTypeOK
<1>7. QED
  BY <1>2, <1>5, <1>6, HandlerStep DEF Codes

(***************************************************************************)
(* A commit: the new row is the only one with its e-mail.                  *)
(***************************************************************************)
LEMMA StoreInvariant ==
    ASSUME AccountsInv, NEW r \in Requests, Commit(r) \/ CommitUnacknowledged(r)
    PROVE  AccountsInv'
<1>1. /\ AccountsTypeOK /\ RowsRegistered /\ InsertsExclusive /\ OffHolds
      /\ TokensBounded /\ OneAccountPerEmail /\ AnswersHold /\ TokensEarned
      /\ DeactivationTakesEffect
      /\ \A x \in Requests : HandlerShape(x) /\ LoginHolds(x)
  BY DEF AccountsInv
<1>2. pc[r] = "commit" /\ r \notin DOMAIN users /\ answer[r] = 0 /\ grantedAt[r] = None
  BY Unanswered DEF Commit, CommitUnacknowledged
<1>3. /\ req[r].op = "register"
      /\ req[r].email \in Emails /\ req[r].password \in Passwords
      /\ RowsOf(req[r].email) = {}
  BY <1>1, <1>2 DEF HandlerShape, InsertsExclusive
<1>4. /\ DOMAIN users' = DOMAIN users \cup {r}
      /\ users'[r] = NewUser(r)
      /\ \A b \in DOMAIN users : users'[b] = users[b] /\ b # r
      /\ UNCHANGED <<tokens, clock, req, grantedAt, offSince>>
  BY <1>2 DEF Commit, CommitUnacknowledged, Store, historyVars
<1>5. PICK l \in {"reply", "done"}, c \in {0, 500} :
          /\ pc' = [pc EXCEPT ![r] = l] /\ answer' = [answer EXCEPT ![r] = c]
          /\ l = "reply" => c = 0
  <2>1. CASE Commit(r)
    BY <1>2, <2>1, Unanswered DEF Commit, Goto
  <2>2. CASE CommitUnacknowledged(r)
    BY <2>2 DEF CommitUnacknowledged, Answer
  <2>3. QED
    BY <2>1, <2>2
<1>6. /\ \A x \in Requests : x # r => pc'[x] = pc[x] /\ answer'[x] = answer[x]
      /\ pc'[r] = l /\ answer'[r] = c
      /\ DOMAIN users \subseteq Requests
  BY <1>1, <1>5 DEF AccountsTypeOK
<1>7. AccountsTypeOK'
  <2>1. NewUser(r) \in User
    BY <1>3 DEF NewUser, User
  <2>2. \A b \in DOMAIN users' : users'[b] \in User
    BY <1>1, <1>4, <2>1 DEF AccountsTypeOK
  <2>3. users' = [b \in DOMAIN users' |-> users'[b]]
    BY DEF Commit, CommitUnacknowledged, Store
  <2>4. users' \in [DOMAIN users' -> User]
    BY <2>2, <2>3
  <2>5. faults' \in 0..MaxFaults
    BY <1>1, AccountsAssumption DEF Commit, CommitUnacknowledged, Fault, AccountsTypeOK
  <2>6. pc' \in [Requests -> {"new", "done"} \cup InFlight] /\ answer' \in [Requests -> Codes]
    BY <1>1, <1>5 DEF AccountsTypeOK, InFlight, Codes
  <2>7. QED
    BY <1>1, <1>4, <1>6, <2>4, <2>5, <2>6 DEF AccountsTypeOK
<1>8. \A x \in Requests : HandlerShape(x)' /\ LoginHolds(x)'
  <2> TAKE x \in Requests
  <2>1. HandlerShape(x)'
    BY <1>1, <1>2, <1>3, <1>4, <1>5, <1>6 DEF HandlerShape
  <2>2. LoginHolds(x)'
    BY <1>1, <1>4, <1>5, <1>6 DEF LoginHolds, Sent
  <2>3. QED
    BY <2>1, <2>2
<1>9. RowsRegistered'
  <2> SUFFICES ASSUME NEW b \in DOMAIN users \cup {r}
               PROVE  /\ req[b].op = "register"
                      /\ users'[b].email = req[b].email
                      /\ users'[b].hashed_password = hash_password(req[b].password)
                      /\ \/ pc'[b] = "reply"
                         \/ pc'[b] = "done" /\ answer'[b] \in {0, 201, 500}
    BY <1>4 DEF RowsRegistered, hash_password
  <2>1. CASE b = r
    BY <1>3, <1>4, <1>6, <2>1 DEF NewUser
  <2>2. CASE b # r
    BY <1>1, <1>4, <1>6, <2>2 DEF RowsRegistered
  <2>3. QED
    BY <2>1, <2>2
<1>10. \A e : e # req[r].email => RowsOf(e)' = RowsOf(e)
  BY <1>4 DEF RowsOf, NewUser
<1>11. InsertsExclusive'
  <2> SUFFICES ASSUME NEW x \in Requests, pc'[x] = "commit", NEW e, e = req[x].email
               PROVE  RowsOf(e)' = {} /\ \A y \in Requests : Inserted(y, e)' => y = x
    BY <1>4 DEF InsertsExclusive, RowsOf, Inserted
  <2>1. x # r /\ pc[x] = "commit" /\ req[x].op = "register"
    BY <1>1, <1>6 DEF HandlerShape
  <2>2. RowsOf(e) = {} /\ \A y \in Requests : Inserted(y, e) => y = x
    BY <1>1, <2>1 DEF InsertsExclusive
  <2>3. e # req[r].email
    BY <1>2, <1>3, <2>1, <2>2 DEF Inserted
  <2>4. \A y \in Requests : Inserted(y, e)' => Inserted(y, e)
    BY <1>4, <1>6 DEF Inserted
  <2>5. QED
    BY <1>10, <2>2, <2>3, <2>4
<1>12. OffHolds' /\ TokensBounded'
  BY <1>1, <1>4 DEF OffHolds, TokensBounded
<1>13. OneAccountPerEmail'
  <2>1. \A b \in DOMAIN users : users[b].email # req[r].email
    BY <1>3 DEF RowsOf
  <2>2. QED
    BY <1>1, <1>4, <2>1 DEF OneAccountPerEmail, NewUser
<1>14. AnswersHold'
  <2> SUFFICES ASSUME NEW x \in Requests
               PROVE  /\ answer'[x] = 201 =>
                             /\ x \in DOMAIN users'
                             /\ users'[x].email = req[x].email
                             /\ verify_password(req[x].password, users'[x].hashed_password)
                      /\ answer'[x] = 409 => \E b \in DOMAIN users' :
                                                users'[b].email = req[x].email
                      /\ answer'[x] \in {401, 403, 409} => x \notin DOMAIN users'
    BY <1>4 DEF AnswersHold, RowsOf, verify_password, hash_password
  <2>1. CASE x = r
    BY <1>6, <2>1
  <2>2. CASE x # r
    <3>1. answer[x] = 201 => /\ x \in DOMAIN users
                             /\ users[x].email = req[x].email
                             /\ verify_password(req[x].password, users[x].hashed_password)
      BY <1>1 DEF AnswersHold
    <3>2. answer[x] = 409 => \E b \in DOMAIN users : users[b].email = req[x].email
      BY <1>1 DEF AnswersHold, RowsOf
    <3>3. answer[x] \in {401, 403, 409} => x \notin DOMAIN users
      BY <1>1 DEF AnswersHold
    <3>4. QED
      BY <1>4, <1>6, <2>2, <3>1, <3>2, <3>3
  <2>3. QED
    BY <2>1, <2>2
<1>15. TokensEarned'
  BY <1>1, <1>2, <1>4, <1>6 DEF TokensEarned, Sent
<1>16. DeactivationTakesEffect'
  BY <1>1, <1>4 DEF DeactivationTakesEffect
<1>17. QED
  BY <1>7, <1>8, <1>9, <1>11, <1>12, <1>13, <1>14, <1>15, <1>16 DEF AccountsInv

(***************************************************************************)
(* A new token: its login has proved the password, and began before any    *)
(* deactivation of its account.                                            *)
(***************************************************************************)
LEMMA IssueInvariant ==
    ASSUME AccountsInv, NEW r \in Requests, Issue(r)
    PROVE  AccountsInv'
<1>1. /\ AccountsTypeOK /\ RowsRegistered /\ InsertsExclusive /\ OffHolds
      /\ TokensBounded /\ OneAccountPerEmail /\ AnswersHold /\ TokensEarned
      /\ DeactivationTakesEffect
      /\ \A x \in Requests : HandlerShape(x) /\ LoginHolds(x)
  BY DEF AccountsInv
<1> DEFINE b == req[r].account
           t == [sub |-> b, exp |-> clock + Lifetime]
<1>2. /\ pc[r] = "issue" /\ r \notin DOMAIN users /\ grantedAt[r] = None
      /\ answer[r] = 0
  BY Unanswered DEF Issue
<1>3. /\ req[r].op = "login" /\ b \in DOMAIN users /\ Sent(r) = Sent(b)
      /\ clock <= req[r].began + MaxLag
      /\ offSince[b] # None => req[r].began <= offSince[b]
  BY <1>1, <1>2 DEF LoginHolds
<1>4. /\ tokens' = tokens \cup {t}
      /\ pc' = [pc EXCEPT ![r] = "done"] /\ answer' = [answer EXCEPT ![r] = 200]
      /\ UNCHANGED <<users, clock, req, grantedAt, offSince, faults>>
  BY DEF Issue, Answer, historyVars
<1>5. /\ \A x \in Requests : x # r => pc'[x] = pc[x] /\ answer'[x] = answer[x]
      /\ pc'[r] = "done" /\ answer'[r] = 200
      /\ DOMAIN users \subseteq Requests
  BY <1>1, <1>4 DEF AccountsTypeOK
<1>6. b \in Requests /\ b # r
  BY <1>2, <1>3, <1>5
<1>7. AccountsTypeOK'
  <2>1. clock \in Times /\ MaxTime \in Nat /\ Lifetime \in Nat
    BY <1>1, AccountsAssumption DEF AccountsTypeOK
  <2>2. t \in Token
    BY <1>6, <2>1 DEF Token, Times
  <2>3. QED
    BY <1>1, <1>4, <2>2 DEF AccountsTypeOK, Codes
<1>8. \A x \in Requests : HandlerShape(x)' /\ LoginHolds(x)'
  <2> TAKE x \in Requests
  <2>1. HandlerShape(x)'
    BY <1>1, <1>2, <1>4, <1>5 DEF HandlerShape
  <2>2. LoginHolds(x)'
    BY <1>1, <1>4, <1>5 DEF LoginHolds, Sent
  <2>3. QED
    BY <2>1, <2>2
<1>9. RowsRegistered'
  BY <1>1, <1>2, <1>4, <1>5 DEF RowsRegistered
<1>10. InsertsExclusive'
  BY <1>1, <1>4, <1>5 DEF InsertsExclusive, Inserted, RowsOf
<1>11. OffHolds' /\ OneAccountPerEmail' /\ DeactivationTakesEffect'
  BY <1>1, <1>4 DEF OffHolds, OneAccountPerEmail, DeactivationTakesEffect
<1>12. TokensBounded'
  <2>1. /\ clock \in Nat /\ Lifetime \in Nat /\ MaxLag \in Nat
        /\ req[r].began \in Nat /\ offSince[b] \in Nat \cup {None}
    BY <1>1, <1>6, TimesAreNumbers
  <2>2. offSince[b] # None => clock + Lifetime <= offSince[b] + MaxLag + Lifetime
    BY <1>3, <2>1
  <2>3. t.sub = b /\ t.exp = clock + Lifetime /\ t.exp <= clock + Lifetime
    BY <2>1
  <2>4. ASSUME NEW u \in tokens'
        PROVE  /\ u.exp <= clock + Lifetime
               /\ offSince[u.sub] # None => u.exp <= offSince[u.sub] + MaxLag + Lifetime
    <3>1. CASE u \in tokens
      BY <1>1, <3>1 DEF TokensBounded
    <3>2. CASE u = t
      BY <2>2, <2>3, <3>2
    <3>3. QED
      BY <1>4, <2>4, <3>1, <3>2
  <2>5. QED
    BY <1>4, <2>4 DEF TokensBounded
<1>13. AnswersHold'
  BY <1>1, <1>4, <1>5 DEF AnswersHold, RowsOf
<1>14. TokensEarned'
  <2>1. req[b].op = "register"
    BY <1>1, <1>3 DEF RowsRegistered
  <2>2. ASSUME NEW u \in tokens'
        PROVE  \E x, y \in Requests :
                   /\ req[x].op = "login" /\ answer'[x] = 200
                   /\ req[y].op = "register"
                   /\ Sent(x) = Sent(y)
                   /\ u.sub = y /\ y \in DOMAIN users
    <3>1. CASE u \in tokens
      BY <1>1, <1>2, <1>5, <3>1 DEF TokensEarned
    <3>2. CASE u = t
      BY <1>3, <1>5, <1>6, <2>1, <3>2
    <3>3. QED
      BY <1>4, <2>2, <3>1, <3>2
  <2>3. QED
    BY <1>4, <2>2 DEF TokensEarned, Sent
<1>15. QED
  BY <1>7, <1>8, <1>9, <1>10, <1>11, <1>12, <1>13, <1>14 DEF AccountsInv

(***************************************************************************)
(* Time passes, but not past MaxLag of a login that is about to make its   *)
(* token.                                                                  *)
(***************************************************************************)
LEMMA TickInvariant ==
    ASSUME AccountsInv, Tick
    PROVE  AccountsInv'
<1>1. /\ AccountsTypeOK /\ RowsRegistered /\ InsertsExclusive /\ OffHolds
      /\ TokensBounded /\ OneAccountPerEmail /\ AnswersHold /\ TokensEarned
      /\ DeactivationTakesEffect
      /\ \A x \in Requests : HandlerShape(x) /\ LoginHolds(x)
  BY DEF AccountsInv
<1>2. /\ clock \in Nat /\ clock' = clock + 1 /\ Lifetime \in Nat /\ MaxLag \in Nat
      /\ None \notin Nat
      /\ \A r \in Requests : /\ req[r].began \in Nat
                             /\ grantedAt[r] \in Nat \cup {None}
                             /\ offSince[r] \in Nat \cup {None}
      /\ \A t \in tokens : t.sub \in Requests /\ t.exp \in Nat
  BY <1>1, TimesAreNumbers DEF Tick
<1>3. UNCHANGED <<users, tokens, pc, req, answer, grantedAt, offSince, faults>>
  BY DEF Tick, tableVars, historyVars
<1>4. AccountsTypeOK'
  <2>1. clock' \in Times
    BY <1>2, AccountsAssumption DEF Tick, Times
  <2>2. QED
    BY <1>1, <1>3, <2>1 DEF AccountsTypeOK
<1>5. \A x \in Requests : HandlerShape(x)' /\ LoginHolds(x)'
  <2> TAKE x \in Requests
  <2>1. HandlerShape(x)'
    BY <1>1, <1>2, <1>3 DEF HandlerShape
  <2>2. pc[x] = "issue" =>
            req[x].began <= clock' /\ clock' <= req[x].began + MaxLag
    BY <1>1, <1>2 DEF Tick, LoginHolds
  <2>3. LoginHolds(x)'
    BY <1>1, <1>3, <2>2 DEF LoginHolds, Sent
  <2>4. QED
    BY <2>1, <2>3
<1>6. RowsRegistered' /\ InsertsExclusive' /\ OneAccountPerEmail'
  BY <1>1, <1>3 DEF RowsRegistered, InsertsExclusive, OneAccountPerEmail, Inserted, RowsOf
<1>7. OffHolds'
  BY <1>1, <1>2, <1>3 DEF OffHolds
<1>8. TokensBounded'
  BY <1>1, <1>2, <1>3 DEF TokensBounded
<1>9. AnswersHold' /\ TokensEarned' /\ DeactivationTakesEffect'
  BY <1>1, <1>3 DEF AnswersHold, RowsOf, TokensEarned, Sent, DeactivationTakesEffect
<1>10. QED
  BY <1>4, <1>5, <1>6, <1>7, <1>8, <1>9 DEF AccountsInv

(***************************************************************************)
(* The operator changes one account, whose e-mail and password stay.       *)
(***************************************************************************)
LEMMA OperatorInvariant ==
    ASSUME AccountsInv, NEW b \in DOMAIN users, Deactivate(b) \/ Promote(b)
    PROVE  AccountsInv'
<1>1. /\ AccountsTypeOK /\ RowsRegistered /\ InsertsExclusive /\ OffHolds
      /\ TokensBounded /\ OneAccountPerEmail /\ AnswersHold /\ TokensEarned
      /\ DeactivationTakesEffect
      /\ \A x \in Requests : HandlerShape(x) /\ LoginHolds(x)
  BY DEF AccountsInv
<1>2. /\ DOMAIN users' = DOMAIN users
      /\ \A d \in DOMAIN users : /\ users'[d].email = users[d].email
                                 /\ users'[d].hashed_password = users[d].hashed_password
                                 /\ ~users[d].is_active => ~users'[d].is_active
      /\ UNCHANGED <<tokens, clock, pc, req, answer, grantedAt, faults>>
  <2>1. users[b] \in User
    BY <1>1 DEF AccountsTypeOK
  <2>2. QED
    BY <2>1 DEF Deactivate, Promote, User, historyVars
<1>3. b \in Requests /\ clock \in Times /\ clock \in Nat /\ None \notin Nat
  BY <1>1, TimesAreNumbers DEF AccountsTypeOK
<1>4. \/ offSince' = offSince
      \/ /\ offSince' = [offSince EXCEPT ![b] = clock]
         /\ offSince[b] = None
         /\ ~users'[b].is_active
  <2>1. CASE Deactivate(b)
    <3>1. offSince[b] = None
      BY <1>1, <1>3, <2>1 DEF Deactivate, OffHolds
    <3>2. users[b] \in User
      BY <1>1 DEF AccountsTypeOK
    <3>3. QED
      BY <2>1, <3>1, <3>2 DEF Deactivate, User
  <2>2. CASE Promote(b)
    BY <2>2 DEF Promote, historyVars
  <2>3. QED
    BY <2>1, <2>2
<1>5. \A d \in Requests : \/ offSince'[d] = offSince[d]
                          \/ d = b /\ offSince'[d] = clock /\ offSince[d] = None
  BY <1>1, <1>3, <1>4 DEF AccountsTypeOK
<1>6. /\ MaxLag \in Nat /\ Lifetime \in Nat
      /\ \A r \in Requests : /\ req[r].began \in Nat
                             /\ grantedAt[r] \in Nat \cup {None}
      /\ \A t \in tokens : t.sub \in Requests /\ t.exp \in Nat
  BY <1>1, TimesAreNumbers
<1>7. AccountsTypeOK'
  <2>1. users' \in [DOMAIN users -> User]
    <3>1. users[b] \in User
      BY <1>1 DEF AccountsTypeOK
    <3>2. /\ [users[b] EXCEPT !.is_active = FALSE] \in User
          /\ [users[b] EXCEPT !.role = "admin"] \in User
      BY <3>1 DEF User
    <3>3. CASE Deactivate(b)
      BY <1>1, <3>2, <3>3 DEF AccountsTypeOK, Deactivate
    <3>4. CASE Promote(b)
      BY <1>1, <3>2, <3>4 DEF AccountsTypeOK, Promote
    <3>5. QED
      BY <3>3, <3>4
  <2>2. offSince' \in [Requests -> Times \cup {None}]
    BY <1>1, <1>3, <1>4 DEF AccountsTypeOK
  <2>3. QED
    BY <1>1, <1>2, <2>1, <2>2 DEF AccountsTypeOK
<1>8. \A x \in Requests : HandlerShape(x)' /\ LoginHolds(x)'
  <2> TAKE x \in Requests
  <2>1. HandlerShape(x)'
    BY <1>1, <1>2 DEF HandlerShape
  <2>2. LoginHolds(x)'
    <3> SUFFICES ASSUME pc[x] = "issue"
                 PROVE  /\ req[x].op = "login"
                        /\ req[x].account \in DOMAIN users
                        /\ Sent(x) = Sent(req[x].account)
                        /\ req[x].began <= clock /\ clock <= req[x].began + MaxLag
                        /\ offSince'[req[x].account] # None =>
                               req[x].began <= offSince'[req[x].account]
      BY <1>2 DEF LoginHolds, Sent
    <3>1. /\ req[x].op = "login"
          /\ req[x].account \in DOMAIN users
          /\ req[x].account \in Requests
          /\ Sent(x) = Sent(req[x].account)
          /\ req[x].began <= clock /\ clock <= req[x].began + MaxLag
          /\ offSince[req[x].account] # None =>
                 req[x].began <= offSince[req[x].account]
      BY <1>1 DEF LoginHolds, AccountsTypeOK
    <3>2. QED
      BY <1>5, <3>1
  <2>3. QED
    BY <2>1, <2>2
<1>9. RowsRegistered'
  BY <1>1, <1>2 DEF RowsRegistered
<1>10. \A e : RowsOf(e)' = RowsOf(e)
  BY <1>2 DEF RowsOf
<1>11. InsertsExclusive'
  BY <1>1, <1>2, <1>10 DEF InsertsExclusive, Inserted
<1>12. OneAccountPerEmail'
  BY <1>1, <1>2 DEF OneAccountPerEmail
<1>13. OffHolds'
  BY <1>1, <1>2, <1>3, <1>4, <1>5 DEF OffHolds
<1>14. TokensBounded'
  <2> SUFFICES ASSUME NEW t \in tokens, offSince'[t.sub] # None
               PROVE  t.exp <= offSince'[t.sub] + MaxLag + Lifetime
    BY <1>1, <1>2 DEF TokensBounded
  <2>1. t.exp <= clock + Lifetime
    BY <1>1 DEF TokensBounded
  <2>2. CASE offSince'[t.sub] = offSince[t.sub]
    BY <1>1, <2>2 DEF TokensBounded
  <2>3. CASE offSince'[t.sub] = clock
    BY <1>3, <1>6, <2>1, <2>3
  <2>4. QED
    BY <1>5, <1>6, <2>2, <2>3
<1>15. AnswersHold'
  BY <1>1, <1>2, <1>10 DEF AnswersHold, verify_password, hash_password
<1>16. TokensEarned'
  BY <1>1, <1>2 DEF TokensEarned, Sent
<1>17. DeactivationTakesEffect'
  <2> SUFFICES ASSUME NEW r \in Requests, grantedAt[r] # None,
                      offSince'[req[r].account] # None
               PROVE  grantedAt[r] <= offSince'[req[r].account] +
                          (IF req[r].op = "admin" THEN 0 ELSE MaxLag + Lifetime)
    BY <1>2 DEF DeactivationTakesEffect
  <2>1. grantedAt[r] <= clock /\ req[r].account \in Requests
    BY <1>1 DEF HandlerShape
  <2>2. CASE offSince'[req[r].account] = offSince[req[r].account]
    BY <1>1, <2>2 DEF DeactivationTakesEffect
  <2>3. CASE offSince'[req[r].account] = clock
    BY <1>3, <1>6, <2>1, <2>3
  <2>4. QED
    BY <1>5, <2>1, <2>2, <2>3
<1>18. QED
  BY <1>7, <1>8, <1>9, <1>11, <1>12, <1>13, <1>14, <1>15, <1>16, <1>17 DEF AccountsInv

(***************************************************************************)
(* A crash, or a failure that no handler notices, ends handlers without an *)
(* answer and changes nothing else.                                        *)
(***************************************************************************)
LEMMA StopInvariant ==
    ASSUME AccountsInv,
           UNCHANGED <<users, tokens, clock, req, answer, grantedAt, offSince>>,
           faults' \in 0..MaxFaults,
           \/ pc' = pc
           \/ pc' = [r \in Requests |-> IF pc[r] \in InFlight THEN "done" ELSE pc[r]]
    PROVE  AccountsInv'
<1>1. /\ AccountsTypeOK /\ RowsRegistered /\ InsertsExclusive /\ OffHolds
      /\ TokensBounded /\ OneAccountPerEmail /\ AnswersHold /\ TokensEarned
      /\ DeactivationTakesEffect
      /\ \A x \in Requests : HandlerShape(x) /\ LoginHolds(x)
  BY DEF AccountsInv
<1>2. \A x \in Requests : pc'[x] = pc[x] \/ pc'[x] = "done"
  OBVIOUS
<1>3. AccountsTypeOK'
  BY <1>1 DEF AccountsTypeOK
<1>4. \A x \in Requests : HandlerShape(x)' /\ LoginHolds(x)'
  BY <1>1, <1>2 DEF HandlerShape, LoginHolds, Sent
<1>5. RowsRegistered'
  <2>1. \A b \in DOMAIN users : b \in Requests /\ (pc[b] = "reply" => answer[b] = 0)
    BY <1>1 DEF AccountsTypeOK, HandlerShape
  <2>2. QED
    BY <1>1, <1>2, <2>1 DEF RowsRegistered
<1>6. InsertsExclusive'
  BY <1>1, <1>2 DEF InsertsExclusive, Inserted, RowsOf
<1>7. OffHolds' /\ TokensBounded' /\ OneAccountPerEmail'
  BY <1>1 DEF OffHolds, TokensBounded, OneAccountPerEmail
<1>8. AnswersHold' /\ TokensEarned' /\ DeactivationTakesEffect'
  BY <1>1 DEF AnswersHold, RowsOf, TokensEarned, Sent, DeactivationTakesEffect
<1>9. QED
  BY <1>3, <1>4, <1>5, <1>6, <1>7, <1>8 DEF AccountsInv

(***************************************************************************)
(* The invariant of the account handlers.                                  *)
(***************************************************************************)
LEMMA StepInvariant ==
    ASSUME AccountsInv, [AccountsNext]_accountVars
    PROVE  AccountsInv'
<1>1. ASSUME NEW r \in Requests, Continue(r) PROVE AccountsInv'
  BY <1>1, InsertInvariant, StoreInvariant, ReplyInvariant, IssueInvariant,
     CheckAdminInvariant DEF Continue
<1>2. faults \in 0..MaxFaults
  BY DEF AccountsInv, AccountsTypeOK
<1>3. CASE Crash \/ FailElsewhere
  <2>1. faults' \in 0..MaxFaults
    BY <1>2, <1>3, AccountsAssumption DEF Crash, FailElsewhere, Fault
  <2>2. QED
    BY <1>3, <2>1, StopInvariant DEF Crash, FailElsewhere, tableVars, historyVars
<1>4. CASE UNCHANGED accountVars
  BY <1>2, <1>4, StopInvariant DEF accountVars
<1>5. QED
  BY <1>1, <1>3, <1>4, RegisterInvariant, LoginInvariant, BearerInvariant,
     FailInvariant, StoreInvariant, OperatorInvariant, TickInvariant
     DEF AccountsNext, Credentials, Bearer, Operator

\* It holds throughout.
THEOREM AccountsInvariant == AccountsSpec => []AccountsInv
  BY InitInvariant, StepInvariant, PTL DEF AccountsSpec

\* The variables have their types.
THEOREM AccountsTypeCorrect == AccountsSpec => []AccountsTypeOK
<1>1. AccountsInv => AccountsTypeOK
  BY DEF AccountsInv
<1>2. QED
  BY <1>1, AccountsInvariant, PTL

\* Concurrent registrations never make two accounts of one e-mail.
THEOREM EmailsAreUnique == AccountsSpec => []OneAccountPerEmail
<1>1. AccountsInv => OneAccountPerEmail
  BY DEF AccountsInv
<1>2. QED
  BY <1>1, AccountsInvariant, PTL

\* What register and login have answered is so, and stays so.
THEOREM AnswersAreTrue == AccountsSpec => []AnswersHold
<1>1. AccountsInv => AnswersHold
  BY DEF AccountsInv
<1>2. QED
  BY <1>1, AccountsInvariant, PTL

\* Nobody has a token without having given the e-mail and the password.
THEOREM TokensAreEarned == AccountsSpec => []TokensEarned
<1>1. AccountsInv => TokensEarned
  BY DEF AccountsInv
<1>2. QED
  BY <1>1, AccountsInvariant, PTL

\* A deactivated account is shut out within MaxLag + Lifetime, and at once
\* from what admins may do.
THEOREM DeactivatedAccountsAreShutOut == AccountsSpec => []DeactivationTakesEffect
<1>1. AccountsInv => DeactivationTakesEffect
  BY DEF AccountsInv
<1>2. QED
  BY <1>1, AccountsInvariant, PTL
=============================================================================
