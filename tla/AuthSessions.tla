---------------------------- MODULE AuthSessions ----------------------------
(* Accounts and login sessions: the handlers of src/app/api/auth.py, AuthService *)
(* and the repositories of users, tenants and sessions. A handler runs one       *)
(* transaction (two when it resolves the session first); other requests run      *)
(* between what a transaction reads and what it commits (READ COMMITTED), and a  *)
(* commit may fail, with its effect or without, or its response may be lost.     *)
(*                                                                               *)
(* A password is compared as the text that reaches the hash: the schemas of      *)
(* registration and login strip it, the schema of a change does not.             *)
EXTENDS Integers, FiniteSets

CONSTANTS
  Requests,     \* requests in flight
  Addresses,    \* email addresses as clients type them
  Fold,         \* the address of the row: stripped, in lower case
  Passwords,    \* passwords as clients type them
  Strip,        \* the password without white space around it
  Names,        \* display names
  Ttl,          \* session_ttl_seconds
  Horizon,      \* bound on the clock
  MaxSends,     \* bound on the requests a client sends
  MaxFaults,    \* bound on failed commits
  None

Unauthenticated == {"register", "login", "logout"}
Authenticated == {"me", "profile", "change-password"}
Operations == Unauthenticated \cup Authenticated

Answers == {"ok", "conflict", "invalid credentials", "not authenticated", "error"}

ASSUME ConstantsAssumption ==
  /\ Ttl \in Nat \ {0} /\ Horizon \in Nat /\ MaxSends \in Nat /\ MaxFaults \in Nat
  /\ \A a \in Addresses : Fold[a] \in Addresses /\ Fold[Fold[a]] = Fold[a]
  /\ \A p \in Passwords : Strip[p] \in Passwords /\ Strip[Strip[p]] = Strip[p]
  /\ Names # {}
  /\ None \notin Nat \cup Passwords \cup Operations \cup Answers

VARIABLES
  users,      \* id |-> row of users; a registration numbers its tenant alike
  tenants,    \* ids of the rows of tenants
  sessions,   \* token |-> row of sessions
  clock,
  cookie,     \* the client's cookie and when it expires, or None
  requests,   \* what each request has done so far
  loggedOut,  \* tokens whose logout was answered with success
  sends, faults

vars == <<users, tenants, sessions, clock, cookie, requests, loggedOut, sends, faults>>

-----------------------------------------------------------------------------
(* Rows and requests                                                          *)

\* The input is what the client sent; row is the user row that was read.
Idle == [op |-> None, at |-> "idle", email |-> None, password |-> None, new |-> None,
         name |-> None, token |-> None, user |-> None, row |-> None, answer |-> None,
         seen |-> {}, dead |-> FALSE]

Account(address, table) == {u \in DOMAIN table : table[u].email = Fold[address]}

StoredPassword(address, table) ==
  IF Account(address, table) = {} THEN {None}
  ELSE {table[u].password : u \in Account(address, table)}

\* Passwords stored for the address of a login while it is in flight.
Watched(rs, table) ==
  [r \in Requests |->
     IF rs[r].op = "login" /\ rs[r].answer = None
     THEN [rs[r] EXCEPT !.seen = @ \cup StoredPassword(rs[r].email, table)]
     ELSE rs[r]]

At(r, op, step) == requests[r].op = op /\ requests[r].at = step

Continue(r, rest) == requests' = [requests EXCEPT ![r] = rest]

\* The transaction of r goes on to its write with the row it has read.
Having(r, user, row) ==
  [requests[r] EXCEPT !.at = "write", !.user = user, !.row = row]

Answer(r, status) ==
  requests' = [requests EXCEPT ![r] = [@ EXCEPT !.at = "reply", !.answer = status]]

Read == UNCHANGED <<users, tenants, sessions, clock, cookie, loggedOut, sends, faults>>

-----------------------------------------------------------------------------
(* The client                                                                 *)

Dead(token) ==
  \/ token \in loggedOut
  \/ token \in DOMAIN sessions /\ sessions[token].expires_at <= clock

Asked(op, email, password, new, name) ==
  [Idle EXCEPT !.op = op, !.email = email, !.password = password, !.new = new, !.name = name]

\* The schemas of registration and login strip the password, the others do
\* not have one or keep it.
Bodies ==
  {Asked(op, a, Strip[p], None, None) :
       op \in {"register", "login"}, a \in Addresses, p \in Passwords}
    \cup {Asked(op, None, None, None, None) : op \in {"logout", "me"}}
    \cup {Asked("profile", None, None, None, n) : n \in Names}
    \cup {Asked("change-password", None, p, q, None) : p \in Passwords, q \in Passwords}

Send(r) ==
  /\ requests[r].at = "idle" /\ sends < MaxSends
  /\ \E body \in Bodies :
       LET token == IF cookie = None THEN None ELSE cookie.token
           sent == [body EXCEPT !.token = token, !.dead = Dead(token),
                                !.at = IF body.op \in Unauthenticated
                                       THEN "read" ELSE "resolve"]
       IN requests' = Watched([requests EXCEPT ![r] = sent], users)
  /\ sends' = sends + 1
  /\ UNCHANGED <<users, tenants, sessions, clock, cookie, loggedOut, faults>>

\* The response sets or clears the cookie, or never arrives.
Receive(r) ==
  /\ requests[r].at = "reply"
  /\ \/ UNCHANGED cookie
     \/ /\ requests[r].answer = "ok" /\ requests[r].op \in {"register", "login"}
        /\ cookie' = [token |-> requests[r].token, until |-> clock + Ttl]
     \/ /\ requests[r].answer = "ok" /\ requests[r].op = "logout"
        /\ cookie' = None
  /\ requests' = [requests EXCEPT ![r] = Idle]
  /\ UNCHANGED <<users, tenants, sessions, clock, loggedOut, sends, faults>>

Tick ==
  /\ clock < Horizon
  /\ clock' = clock + 1
  /\ cookie' = IF cookie # None /\ cookie.until <= clock' THEN None ELSE cookie
  /\ UNCHANGED <<users, tenants, sessions, requests, loggedOut, sends, faults>>

-----------------------------------------------------------------------------
(* What a transaction reads                                                   *)

\* Mutant: a revoked session is still accepted.
ResolvesRevoked(token) ==
  /\ token \in DOMAIN sessions
  /\ sessions[token].expires_at > clock

Resolves(token) ==
  /\ token \in DOMAIN sessions
  /\ ~sessions[token].revoked
  /\ sessions[token].expires_at > clock

\* get_current_session, in a transaction of its own.
ResolveSession(r) ==
  /\ requests[r].at = "resolve"
  /\ IF Resolves(requests[r].token)
     THEN Continue(r, [requests[r] EXCEPT !.at = "read",
                                          !.user = sessions[requests[r].token].user])
     ELSE Answer(r, "not authenticated")
  /\ Read

\* verify_password: the text that was hashed, nothing is normalised.
Verifies(password, row) == row.password = password

RegisterRead(r) ==
  /\ At(r, "register", "read")
  /\ IF Account(requests[r].email, users) # {} THEN Answer(r, "conflict")
     ELSE Continue(r, Having(r, None, None))
  /\ Read

\* Mutant: the address is looked up as it was typed.
LoginReadAsTyped(r) ==
  /\ At(r, "login", "read")
  /\ LET found == {u \in DOMAIN users :
                     /\ users[u].email = requests[r].email
                     /\ users[u].password = requests[r].password}
     IN IF found = {} THEN Answer(r, "invalid credentials")
        ELSE \E u \in found : Continue(r, Having(r, u, users[u]))
  /\ Read

\* An unknown address costs a verification too and is refused.
LoginRead(r) ==
  /\ At(r, "login", "read")
  /\ LET found == {u \in Account(requests[r].email, users) :
                     Verifies(requests[r].password, users[u])}
     IN IF found = {} THEN Answer(r, "invalid credentials")
        ELSE \E u \in found : Continue(r, Having(r, u, users[u]))
  /\ Read

\* Without a cookie or a session row there is nothing to revoke.
LogoutRead(r) ==
  /\ At(r, "logout", "read")
  /\ IF requests[r].token \in DOMAIN sessions THEN Continue(r, Having(r, None, None))
     ELSE Answer(r, "ok")
  /\ Read

GetProfile(r) ==
  /\ At(r, "me", "read")
  /\ Answer(r, "ok")
  /\ Read

UpdateDisplayNameRead(r) ==
  /\ At(r, "profile", "read")
  /\ Continue(r, Having(r, requests[r].user, users[requests[r].user]))
  /\ Read

ChangePasswordRead(r) ==
  /\ At(r, "change-password", "read")
  /\ LET row == users[requests[r].user]
     IN IF Verifies(requests[r].password, row)
        THEN Continue(r, Having(r, requests[r].user, row))
        ELSE Answer(r, "invalid credentials")
  /\ Read

-----------------------------------------------------------------------------
(* What it commits                                                            *)

\* A transaction that writes ends here: it commits and answers, or raises and
\* is rolled back, or its commit takes effect although the connection fails.
Commits(r, effect, rest) ==
  /\ \/ /\ effect /\ UNCHANGED faults
        /\ requests' = Watched([requests EXCEPT ![r] = rest], users')
     \/ /\ faults < MaxFaults /\ faults' = faults + 1
        /\ effect \/ UNCHANGED <<users, tenants, sessions>>
        /\ requests' = Watched([requests EXCEPT ![r].at = "reply",
                                                ![r].answer = "error"], users')
  /\ loggedOut' = IF requests'[r].answer = "ok" /\ requests[r].op = "logout"
                  THEN loggedOut \cup {requests[r].token} ELSE loggedOut
  /\ UNCHANGED <<clock, cookie, sends>>

Accepted(r, token) ==
  [requests[r] EXCEPT !.at = "reply", !.answer = "ok", !.token = token]

\* A row is added to a table.
Insert(table, key, value) ==
  [k \in DOMAIN table \cup {key} |-> IF k = key THEN value ELSE table[k]]

Token == Cardinality(DOMAIN sessions) + 1

\* The row is flushed with the token's hash; it expires Ttl after this step.
IssueSession(user, tenant) ==
  sessions' = Insert(sessions, Token, [user |-> user, tenant |-> tenant,
                                       expires_at |-> clock + Ttl, revoked |-> FALSE])

\* Mutant: no unique index on the address.
AddressTakenNever(address) == FALSE

AddressTaken(address) == Account(address, users) # {}

CreateTenant(id) == tenants' = tenants \cup {id}

\* The display name of a registration is of no interest here.
CreateUser(r, id) ==
  users' = Insert(users, id, [email |-> Fold[requests[r].email],
                              password |-> requests[r].password,
                              name |-> CHOOSE n \in Names : TRUE, tenant |-> id])

\* Tenant, user and session in one transaction; the unique index on the
\* address refuses the second of two that both found it free (IntegrityError).
RegisterCommit(r) ==
  /\ At(r, "register", "write")
  /\ LET id == Cardinality(DOMAIN users) + 1
     IN IF AddressTaken(requests[r].email) THEN Answer(r, "error") /\ Read
        ELSE Commits(r, CreateTenant(id) /\ CreateUser(r, id) /\ IssueSession(id, id),
                     Accepted(r, Token))

LoginCommit(r) ==
  /\ At(r, "login", "write")
  /\ Commits(r, /\ IssueSession(requests[r].user, requests[r].row.tenant)
                /\ UNCHANGED <<users, tenants>>,
             Accepted(r, Token))

Revoke(token) == sessions' = [sessions EXCEPT ![token].revoked = TRUE]

LogoutCommit(r) ==
  /\ At(r, "logout", "write")
  /\ Commits(r, Revoke(requests[r].token) /\ UNCHANGED <<users, tenants>>,
             Accepted(r, requests[r].token))

\* Mutant: the row is written as it was read.
UpdateDisplayNameOfRow(r) ==
  users' = [users EXCEPT ![requests[r].user] =
              [requests[r].row EXCEPT !.name = requests[r].name]]

\* Only the changed column is written, here and for the password.
UpdateDisplayName(r) ==
  users' = [users EXCEPT ![requests[r].user].name = requests[r].name]

UpdateDisplayNameCommit(r) ==
  /\ At(r, "profile", "write")
  /\ Commits(r, UpdateDisplayName(r) /\ UNCHANGED <<tenants, sessions>>,
             Accepted(r, requests[r].token))

UpdatePasswordHash(r) ==
  users' = [users EXCEPT ![requests[r].user].password = requests[r].new]

ChangePasswordCommit(r) ==
  /\ At(r, "change-password", "write")
  /\ Commits(r, UpdatePasswordHash(r) /\ UNCHANGED <<tenants, sessions>>,
             Accepted(r, requests[r].token))

-----------------------------------------------------------------------------

Init ==
  /\ users = <<>> /\ tenants = {} /\ sessions = <<>>
  /\ clock = 0 /\ cookie = None
  /\ requests = [r \in Requests |-> Idle]
  /\ loggedOut = {} /\ sends = 0 /\ faults = 0

Reading(r) ==
  ResolveSession(r) \/ RegisterRead(r) \/ LoginRead(r) \/ LogoutRead(r)
    \/ GetProfile(r) \/ UpdateDisplayNameRead(r) \/ ChangePasswordRead(r)

Committing(r) ==
  RegisterCommit(r) \/ LoginCommit(r) \/ LogoutCommit(r)
    \/ UpdateDisplayNameCommit(r) \/ ChangePasswordCommit(r)

Next ==
  Tick \/ \E r \in Requests : Send(r) \/ Receive(r) \/ Reading(r) \/ Committing(r)

Spec == Init /\ [][Next]_vars

-----------------------------------------------------------------------------
(* Properties                                                                 *)

\* An address, however it is typed, has one account; a registration leaves a
\* tenant, its user and a session, or nothing, whoever registers the address
\* at the same time and wherever it fails; a session never crosses tenants
\* (service.py: register, _issue_session; uq_users_email).
OneAccountPerAddress ==
  /\ \A u, v \in DOMAIN users : Fold[users[u].email] = Fold[users[v].email] => u = v
  /\ tenants = {users[u].tenant : u \in DOMAIN users}
  /\ \A u \in DOMAIN users : \E t \in DOMAIN sessions : sessions[t].user = u
  /\ \A t \in DOMAIN sessions :
       /\ sessions[t].user \in DOMAIN users
       /\ sessions[t].tenant = users[sessions[t].user].tenant

\* A request sent with a token whose logout was answered, or which had run out
\* when it was sent, is not served, even where the client never saw the answer
\* and kept its cookie (service.py: resolve_session, logout).
DeadTokensAreRefused ==
  \A r \in Requests :
    requests[r].op \in Authenticated /\ requests[r].dead =>
      requests[r].at = "resolve" \/ requests[r].answer = "not authenticated"

\* A login is granted only for a password that was stored for the address at
\* some moment since it was sent, and refused only if another one (or no
\* account) was, whatever changes, renames and registrations run with it.
LoginIsDecidedByThePassword ==
  \A r \in Requests :
    requests[r].op = "login" =>
      /\ requests[r].answer = "ok" => requests[r].password \in requests[r].seen
      /\ requests[r].answer = "invalid credentials" =>
           requests[r].seen # {requests[r].password}

\* A stored password is replaced only by the commit of a change that verified
\* one, and a display name only by an update: neither undoes the other
\* (tenants.py: update_display_name, update_password_hash write one column).
UpdatesAreNotLost ==
  [][\A u \in DOMAIN users :
       /\ users'[u].password # users[u].password =>
            \E r \in Requests : /\ At(r, "change-password", "write")
                                /\ requests[r].user = u
                                /\ users'[u].password = requests[r].new
       /\ users'[u].name # users[u].name =>
            \E r \in Requests : /\ At(r, "profile", "write")
                                /\ requests[r].user = u
                                /\ users'[u].name = requests[r].name]_vars
=============================================================================
