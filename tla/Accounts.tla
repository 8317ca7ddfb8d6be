------------------------------ MODULE Accounts ------------------------------
(***************************************************************************)
(* Registration, login, tokens and the admin check: app/api/v1/auth.py,    *)
(* app/core/security.py and UserRepository, in one asyncio process over    *)
(* PostgreSQL, next to an operator who changes rows of users directly.     *)
(*                                                                         *)
(* An action is what a handler does between two awaits, as in              *)
(* BookingService; each handler is one READ COMMITTED transaction.  bcrypt *)
(* runs in the event loop, without an await.  The id of a row of users is  *)
(* written as the request that inserts it.  A token is what jwt.decode     *)
(* makes of it; nobody but login can make one.                             *)
(***************************************************************************)
EXTENDS Naturals

CONSTANTS
    Requests,    \* the requests clients send, and the ids of accounts
    Emails,
    Passwords,
    Lifetime,    \* ACCESS_TOKEN_EXPIRE_MINUTES
    MaxLag,      \* bound on the time from the SELECT of a login to its token
    MaxTime,     \* bound on the clock
    MaxFaults,   \* bound on the failures of the environment
    None         \* no account, no time, nothing asked

ASSUME AccountsAssumption ==
    /\ {Lifetime, MaxLag, MaxTime, MaxFaults} \subseteq Nat
    /\ None \notin Requests \cup Nat

VARIABLES
    users,       \* the committed rows of users, by id
    tokens,      \* the tokens that login has made
    clock,
    pc,          \* where the handler of a request is
    req,         \* what the request asks for, and what its handler keeps
    answer,      \* the HTTP status sent, 0 while there is none
    grantedAt,   \* history: when a request was let through by its token
    offSince,    \* history: when the operator cleared is_active of an account
    faults

tableVars == <<users, tokens>>
historyVars == <<grantedAt, offSince>>
accountVars == <<users, tokens, clock, pc, req, answer, grantedAt, offSince, faults>>

-----------------------------------------------------------------------------

Times == 0..MaxTime
InFlight == {"insert", "commit", "reply", "issue", "check"}
Codes == {0, 200, 201, 401, 403, 409, 500}

\* bcrypt, up to its salt, which verify_password takes from the hash.
hash_password(p) == [hashOf |-> p]
verify_password(p, hashed) == hashed = hash_password(p)

User == [email : Emails, hashed_password : {hash_password(p) : p \in Passwords},
         is_active : BOOLEAN, role : {"user", "admin"}]
Token == [sub : Requests, exp : 0..(MaxTime + Lifetime)]
Request == [op : {"none", "register", "login", "use", "admin"},
            email : Emails \cup {None},
            password : Passwords \cup {None},
            account : Requests \cup {None},
            began : Times]

NoRequest == [op |-> "none", email |-> None, password |-> None,
              account |-> None, began |-> 0]

AccountsTypeOK ==
    /\ DOMAIN users \subseteq Requests
    /\ users \in [DOMAIN users -> User]
    /\ tokens \subseteq Token
    /\ clock \in Times
    /\ pc \in [Requests -> {"new", "done"} \cup InFlight]
    /\ req \in [Requests -> Request]
    /\ answer \in [Requests -> Codes]
    /\ grantedAt \in [Requests -> Times \cup {None}]
    /\ offSince \in [Requests -> Times \cup {None}]
    /\ faults \in 0..MaxFaults

AccountsInit ==
    /\ users = [b \in {} |-> None]
    /\ tokens = {}
    /\ clock = 0
    /\ pc = [r \in Requests |-> "new"]
    /\ req = [r \in Requests |-> NoRequest]
    /\ answer = [r \in Requests |-> 0]
    /\ grantedAt = [r \in Requests |-> None]
    /\ offSince = [r \in Requests |-> None]
    /\ faults = 0

-----------------------------------------------------------------------------

\* get_by_email
RowsOf(e) == {b \in DOMAIN users : users[b].email = e}

\* An unfinished session of x has inserted a row with e-mail e.
Inserted(x, e) ==
    pc[x] = "commit" /\ req[x].op = "register" /\ req[x].email = e

Ask(r, op, e, p, b) ==
    req' = [req EXCEPT ![r] = [op |-> op, email |-> e, password |-> p,
                               account |-> b,
                               began |-> IF op = "login" THEN clock ELSE 0]]

Goto(r, label) ==
    /\ pc' = [pc EXCEPT ![r] = label]
    /\ UNCHANGED answer

Answer(r, code) ==
    /\ pc' = [pc EXCEPT ![r] = "done"]
    /\ answer' = [answer EXCEPT ![r] = code]

-----------------------------------------------------------------------------
(* register                                                                *)

\* Mutant of Taken: the status of another error.
TakenIsBad == 400

Taken == 409

Register(r, e, p) ==
    /\ pc[r] = "new"
    /\ Ask(r, "register", e, p, None)
    /\ \/ RowsOf(e) # {} /\ Answer(r, Taken)
       \/ RowsOf(e) = {} /\ Goto(r, "insert")
    /\ UNCHANGED <<tableVars, clock, historyVars, faults>>

\* Mutant of Insert: ix_users_email is not unique.
InsertAnyway(r) ==
    /\ pc[r] = "insert"
    /\ Goto(r, "commit")
    /\ UNCHANGED <<tableVars, clock, req, historyVars, faults>>

\* UserRepository.create: the unique index makes the INSERT wait for the end
\* of any session that inserted the same e-mail; then a committed row is an
\* IntegrityError, which nobody turns into anything but 500.
Insert(r) ==
    /\ pc[r] = "insert"
    /\ \A x \in Requests : ~Inserted(x, req[r].email)
    /\ \/ RowsOf(req[r].email) # {} /\ Answer(r, 500)
       \/ RowsOf(req[r].email) = {} /\ Goto(r, "commit")
    /\ UNCHANGED <<tableVars, clock, req, historyVars, faults>>

\* The row as INSERT left it, with the defaults of the model.
NewUser(r) ==
    [email |-> req[r].email, hashed_password |-> hash_password(req[r].password),
     is_active |-> TRUE, role |-> "user"]

Store(r) ==
    users' = [b \in DOMAIN users \cup {r} |-> IF b = r THEN NewUser(r) ELSE users[b]]

\* get_db's session.commit
Commit(r) ==
    /\ pc[r] = "commit"
    /\ Store(r)
    /\ Goto(r, "reply")
    /\ UNCHANGED <<tokens, clock, req, historyVars, faults>>

Reply(r) ==
    /\ pc[r] = "reply"
    /\ Answer(r, 201)
    /\ UNCHANGED <<tableVars, clock, req, historyVars, faults>>

-----------------------------------------------------------------------------
(* login                                                                   *)

\* Mutant of Proved: the password is not looked at.
ProvedByName(p, b) == TRUE

Proved(p, b) == verify_password(p, users[b].hashed_password)

\* Mutant of MayLogin: is_active is not looked at.
MayLoginAlways(b) == TRUE

MayLogin(b) == users[b].is_active

\* The SELECT; what is decided on the row it returns, is decided by it.
Login(r, e, p) ==
    /\ pc[r] = "new"
    /\ \/ /\ \A b \in RowsOf(e) : ~Proved(p, b)
          /\ Ask(r, "login", e, p, None)
          /\ Answer(r, 401)
       \/ \E b \in RowsOf(e) :
              /\ Proved(p, b)
              /\ Ask(r, "login", e, p, b)
              /\ \/ ~MayLogin(b) /\ Answer(r, 403)
                 \/ MayLogin(b) /\ Goto(r, "issue")
    /\ UNCHANGED <<tableVars, clock, historyVars, faults>>

\* create_access_token
Issue(r) ==
    /\ pc[r] = "issue"
    /\ tokens' = tokens \cup {[sub |-> req[r].account, exp |-> clock + Lifetime]}
    /\ Answer(r, 200)
    /\ UNCHANGED <<users, clock, req, historyVars, faults>>

-----------------------------------------------------------------------------
(* What tokens open                                                        *)

Grant(r) ==
    /\ Answer(r, 200)
    /\ grantedAt' = [grantedAt EXCEPT ![r] = clock]

\* jwt.decode raises.
Expired(t) == clock > t.exp

\* get_current_user_id lets a request for bookings through: it decodes the
\* token and does not look at users.
Use(r, t) ==
    /\ pc[r] = "new"
    /\ Ask(r, "use", None, None, t.sub)
    /\ \/ Expired(t) /\ Answer(r, 401) /\ UNCHANGED grantedAt
       \/ ~Expired(t) /\ Grant(r)
    /\ UNCHANGED <<tableVars, clock, offSince, faults>>

\* create_route: get_current_user_id, then get_current_admin_user.
Administer(r, t) ==
    /\ pc[r] = "new"
    /\ Ask(r, "admin", None, None, t.sub)
    /\ \/ Expired(t) /\ Answer(r, 401)
       \/ ~Expired(t) /\ Goto(r, "check")
    /\ UNCHANGED <<tableVars, clock, historyVars, faults>>

\* get_current_admin_user: the SELECT and what it decides.
CheckAdmin(r) ==
    /\ pc[r] = "check"
    /\ LET b == req[r].account
           active == b \in DOMAIN users /\ users[b].is_active
       IN  \/ ~active /\ Answer(r, 401) /\ UNCHANGED grantedAt
           \/ /\ active
              /\ users[b].role # "admin"
              /\ Answer(r, 403)
              /\ UNCHANGED grantedAt
           \/ active /\ users[b].role = "admin" /\ Grant(r)
    /\ UNCHANGED <<tableVars, clock, req, offSince, faults>>

-----------------------------------------------------------------------------
(* The environment                                                         *)

Tick ==
    /\ clock < MaxTime
    /\ \A r \in Requests : pc[r] = "issue" => clock < req[r].began + MaxLag
    /\ clock' = clock + 1
    /\ UNCHANGED <<tableVars, pc, req, answer, historyVars, faults>>

\* The operator clears is_active of an account.
Deactivate(b) ==
    /\ b \in DOMAIN users
    /\ users[b].is_active
    /\ users' = [users EXCEPT ![b].is_active = FALSE]
    /\ offSince' = [offSince EXCEPT ![b] = clock]
    /\ UNCHANGED <<tokens, clock, pc, req, answer, grantedAt, faults>>

\* The operator sets the role of an account.
Promote(b) ==
    /\ b \in DOMAIN users
    /\ users[b].role = "user"
    /\ users' = [users EXCEPT ![b].role = "admin"]
    /\ UNCHANGED <<tokens, clock, pc, req, answer, historyVars, faults>>

Fault == faults < MaxFaults /\ faults' = faults + 1

\* Mutant of Fail: the exception is logged, and success answered.
FailSwallowed(r) ==
    /\ pc[r] \in InFlight \ {"reply"}
    /\ Fault
    /\ Answer(r, IF req[r].op = "register" THEN 201 ELSE 200)
    /\ UNCHANGED <<tableVars, clock, req, historyVars>>

\* An awaited call raises: rollback, and 500.
Fail(r) ==
    /\ pc[r] \in InFlight \ {"reply"}
    /\ Fault
    /\ Answer(r, 500)
    /\ UNCHANGED <<tableVars, clock, req, historyVars>>

\* PostgreSQL committed, but the connection breaks before it says so.
CommitUnacknowledged(r) ==
    /\ pc[r] = "commit"
    /\ Fault
    /\ Store(r)
    /\ Answer(r, 500)
    /\ UNCHANGED <<tokens, clock, req, historyVars>>

\* The first statement of a handler raises: 500, and nothing happened.
Unavailable(r) ==
    /\ pc[r] \in {"new", "check"}
    /\ Answer(r, 500)
    /\ UNCHANGED <<tableVars, clock, req, historyVars, faults>>

\* The process dies; PostgreSQL rolls open transactions back.
Crash ==
    /\ \E r \in Requests : pc[r] \in InFlight
    /\ Fault
    /\ pc' = [r \in Requests |-> IF pc[r] \in InFlight THEN "done" ELSE pc[r]]
    /\ UNCHANGED <<tableVars, clock, req, answer, historyVars>>

\* Something fails that no handler notices.
FailElsewhere ==
    /\ Fault
    /\ UNCHANGED <<tableVars, clock, pc, req, answer, historyVars>>

-----------------------------------------------------------------------------

\* Requests that read users before anything else.
Credentials(r) ==
    \E e \in Emails, p \in Passwords : Register(r, e, p) \/ Login(r, e, p)

\* Requests that come with a token.
Bearer(r) == \E t \in tokens : Use(r, t) \/ Administer(r, t)

Continue(r) ==
    \/ Insert(r)
    \/ Commit(r)
    \/ Reply(r)
    \/ Issue(r)
    \/ CheckAdmin(r)

Operator == \E b \in DOMAIN users : Deactivate(b) \/ Promote(b)

AccountsNext ==
    \/ \E r \in Requests :
           \/ Credentials(r)
           \/ Bearer(r)
           \/ Continue(r)
           \/ Unavailable(r)
           \/ Fail(r)
           \/ CommitUnacknowledged(r)
    \/ Operator
    \/ Tick
    \/ Crash
    \/ FailElsewhere

AccountsSpec == AccountsInit /\ [][AccountsNext]_accountVars

-----------------------------------------------------------------------------
(* Properties                                                              *)

\* Two registrations of one e-mail that both find it unused do not both
\* succeed: no e-mail has two accounts.
OneAccountPerEmail ==
    \A b, c \in DOMAIN users : users[b].email = users[c].email => b = c

\* Answers tell what is so: after 201 the account exists and its password is
\* the one that was sent, after 409 somebody else has the e-mail, and a
\* refused request has made no account.
AnswersHold ==
    \A r \in Requests :
        /\ answer[r] = 201 =>
               /\ r \in DOMAIN users
               /\ users[r].email = req[r].email
               /\ verify_password(req[r].password, users[r].hashed_password)
        /\ answer[r] = 409 => RowsOf(req[r].email) # {}
        /\ answer[r] \in {401, 403, 409} => r \notin DOMAIN users

\* What was sent with a login or a registration: the e-mail and the password.
Sent(r) == <<req[r].email, req[r].password>>

\* Every token goes back to a login that gave the e-mail and the password
\* with which its account was registered, whatever ran in between.
TokensEarned ==
    \A t \in tokens :
        \E r, b \in Requests :
            /\ req[r].op = "login" /\ answer[r] = 200
            /\ req[b].op = "register"
            /\ Sent(r) = Sent(b)
            /\ t.sub = b /\ b \in DOMAIN users

\* An account that the operator deactivated is shut out: at once for admin
\* requests, and otherwise as soon as the tokens have expired that it had, or
\* that a login under way at that moment still got.
DeactivationTakesEffect ==
    \A r \in Requests :
        LET b == req[r].account
        IN  grantedAt[r] # None /\ offSince[b] # None =>
                grantedAt[r] <= offSince[b] +
                    (IF req[r].op = "admin" THEN 0 ELSE MaxLag + Lifetime)

-----------------------------------------------------------------------------
(* The inductive invariant behind them                                     *)

\* What a request asks for is determined by how far its handler is.
HandlerShape(r) ==
    /\ pc[r] = "new" => req[r].op = "none"
    /\ pc[r] # "done" => answer[r] = 0
    /\ pc[r] \in {"insert", "commit", "reply"} =>
           /\ req[r].op = "register"
           /\ req[r].email \in Emails /\ req[r].password \in Passwords
    /\ pc[r] = "reply" => r \in DOMAIN users
    /\ pc[r] = "check" => req[r].op = "admin" /\ req[r].account \in Requests
    /\ grantedAt[r] # None => /\ pc[r] = "done"
                              /\ req[r].account \in Requests
                              /\ grantedAt[r] <= clock

\* A login that makes a token has proved the password of an account, and is
\* not older than MaxLag; nor was the account deactivated before it began.
LoginHolds(r) ==
    pc[r] = "issue" =>
        /\ req[r].op = "login"
        /\ req[r].account \in DOMAIN users
        /\ Sent(r) = Sent(req[r].account)
        /\ req[r].began <= clock /\ clock <= req[r].began + MaxLag
        /\ offSince[req[r].account] # None =>
               req[r].began <= offSince[req[r].account]

\* A row is that of a registration that is over, or about to reply.
RowsRegistered ==
    \A b \in DOMAIN users :
        /\ req[b].op = "register"
        /\ users[b].email = req[b].email
        /\ users[b].hashed_password = hash_password(req[b].password)
        /\ \/ pc[b] = "reply"
           \/ pc[b] = "done" /\ answer[b] \in {0, 201, 500}

\* An uncommitted INSERT has its e-mail to itself.  This is the unique index.
InsertsExclusive ==
    \A x \in Requests :
        pc[x] = "commit" =>
            /\ RowsOf(req[x].email) = {}
            /\ \A y \in Requests : Inserted(y, req[x].email) => y = x

OffHolds ==
    \A b \in Requests :
        offSince[b] # None => /\ b \in DOMAIN users
                             /\ ~users[b].is_active
                             /\ offSince[b] <= clock

TokensBounded ==
    \A t \in tokens :
        /\ t.exp <= clock + Lifetime
        /\ offSince[t.sub] # None => t.exp <= offSince[t.sub] + MaxLag + Lifetime

AccountsInv ==
    /\ AccountsTypeOK
    /\ \A r \in Requests : HandlerShape(r) /\ LoginHolds(r)
    /\ RowsRegistered
    /\ InsertsExclusive
    /\ OffHolds
    /\ TokensBounded
    /\ OneAccountPerEmail
    /\ AnswersHold
    /\ TokensEarned
    /\ DeactivationTakesEffect
=============================================================================
