------------------------- MODULE AuthSessionsProofs -------------------------
(***************************************************************************)
(* What AuthSessions promises for every number of requests, every way to   *)
(* type an address or a password and every lifetime of a session.          *)
(***************************************************************************)
EXTENDS AuthSessions, FiniteSetTheorems, TLAPS

-----------------------------------------------------------------------------
(* The inductive invariant.                                                *)

User == [email : Addresses, password : Passwords, name : Names, tenant : Nat]

Session == [user : Nat, tenant : Nat, expires_at : Int, revoked : BOOLEAN]

Request ==
    [op : Operations \cup {None}, at : {"idle", "resolve", "read", "write", "reply"},
     email : Addresses \cup {None}, password : Passwords \cup {None},
     new : Passwords \cup {None}, name : Names \cup {None},
     token : Nat \cup {None}, user : Nat \cup {None}, row : User \cup {None},
     answer : Answers \cup {None}, seen : SUBSET (Passwords \cup {None}), dead : BOOLEAN]

Cookie == [token : Nat \cup {None}, until : Int]

\* Ids and tokens are given out one after the other.
Numbered(table) == \E n \in Nat : DOMAIN table = 1 .. n

TablesTyped ==
    /\ users \in [DOMAIN users -> User] /\ Numbered(users)
    /\ sessions \in [DOMAIN sessions -> Session] /\ Numbered(sessions)
    /\ tenants \subseteq Nat

TypeOK ==
    /\ TablesTyped
    /\ clock \in Nat
    /\ cookie \in Cookie \cup {None}
    /\ requests \in [Requests -> Request]

\* An address is stored folded, and once.
StoredFolded ==
    /\ \A u \in DOMAIN users : Fold[users[u].email] = users[u].email
    /\ \A u, v \in DOMAIN users : users[u].email = users[v].email => u = v

\* A registration commits its tenant, its user and a session of theirs.
RegisteredWhole ==
    /\ tenants = DOMAIN users
    /\ \A u \in DOMAIN users : /\ users[u].tenant = u
                               /\ \E t \in DOMAIN sessions : sessions[t].user = u
    /\ \A t \in DOMAIN sessions : /\ sessions[t].user \in DOMAIN users
                                  /\ sessions[t].tenant = sessions[t].user

InProgress == {"resolve", "read", "write"}

\* What a request brings, and what it has read so far.
RequestShape ==
    \A r \in Requests :
        LET q == requests[r] IN
        /\ q.op \in {"register", "login"} => q.email \in Addresses /\ q.password \in Passwords
        /\ q.op = "change-password" => q.new \in Passwords
        /\ q.op = "profile" => q.name \in Names
        /\ q.at \in InProgress => q.answer = None
        /\ q.at = "resolve" => q.op \in Authenticated
        /\ q.op \in Authenticated /\ q.at \in {"read", "write"} => q.user \in DOMAIN users
        /\ q.op = "login" /\ q.at = "write" =>
              q.user \in DOMAIN users /\ q.row \in User /\ q.row.tenant = q.user
        /\ q.op = "logout" /\ q.at = "write" => q.token \in DOMAIN sessions

\* A revoked session stays revoked, and one that has run out does not come back.
Refused(token, table, now) ==
    token \in DOMAIN table /\ (table[token].revoked \/ table[token].expires_at <= now)

LoggedOutIsRevoked ==
    \A token \in loggedOut : token \in DOMAIN sessions /\ sessions[token].revoked

DeadStaysDead ==
    \A r \in Requests :
        requests[r].op \in Authenticated /\ requests[r].dead =>
            Refused(requests[r].token, sessions, clock)

\* A login in flight watches the passwords of its address ...
Watching(q) == q.op = "login" /\ q.answer = None

\* ... so that it has seen every one stored since it was sent,
UpToDate ==
    \A r \in Requests : Watching(requests[r]) =>
        StoredPassword(requests[r].email, users) \subseteq requests[r].seen

\* and, once it has verified one, that one.
VerifiedIsSeen ==
    \A r \in Requests :
        Watching(requests[r]) /\ requests[r].at = "write" =>
            requests[r].password \in requests[r].seen

SessionsInv ==
    /\ TypeOK
    /\ StoredFolded
    /\ RegisteredWhole
    /\ RequestShape
    /\ LoggedOutIsRevoked
    /\ DeadStaysDead
    /\ DeadTokensAreRefused
    /\ UpToDate
    /\ VerifiedIsSeen
    /\ LoginIsDecidedByThePassword

-----------------------------------------------------------------------------
(* Tables.                                                                 *)

\* A row with the next number is appended, and the others stay as they are.
Appended(old, new, key, value) ==
    /\ key \in Nat \ DOMAIN old
    /\ DOMAIN new = DOMAIN old \cup {key}
    /\ \A k \in DOMAIN old : new[k] = old[k]
    /\ new[key] = value

\* The numbers up to n are n.
LEMMA NumberedCounts ==
    ASSUME NEW n \in Nat
    PROVE  IsFiniteSet(1 .. n) /\ Cardinality(1 .. n) = n
  BY FS_Interval

\* An insert with the number of rows plus one adds a row of its own.
LEMMA InsertAppends ==
    ASSUME NEW V, NEW table, table \in [DOMAIN table -> V], Numbered(table), NEW value \in V,
           NEW grown, grown = Insert(table, Cardinality(DOMAIN table) + 1, value)
    PROVE  /\ Appended(table, grown, Cardinality(DOMAIN table) + 1, value)
           /\ grown \in [DOMAIN grown -> V] /\ Numbered(grown)
<1>1. PICK n \in Nat : DOMAIN table = 1 .. n
  BY DEF Numbered
<1> DEFINE k == n + 1
<1>2. Cardinality(DOMAIN table) + 1 = k
  BY <1>1, NumberedCounts
<1>3. k \in Nat /\ k \notin DOMAIN table /\ DOMAIN table \cup {k} = 1 .. k
  BY <1>1
<1>4. grown = [x \in DOMAIN table \cup {k} |-> IF x = k THEN value ELSE table[x]]
  BY <1>2, <1>3 DEF Insert
<1>5. Appended(table, grown, k, value)
  BY <1>3, <1>4 DEF Appended
<1>6. grown \in [DOMAIN grown -> V] /\ Numbered(grown)
  BY <1>3, <1>4 DEF Numbered
<1> QED BY <1>2, <1>5, <1>6

-----------------------------------------------------------------------------
(* What one step changes, request by request.                              *)

\* What the client sent, which no transaction changes.
SameInput(p, q) == /\ p.op = q.op /\ p.email = q.email /\ p.password = q.password
                   /\ p.new = q.new /\ p.name = q.name /\ p.dead = q.dead

\* A login in flight sees more passwords, a request that is not sees what it saw.
Grows(p, q) == /\ q.seen \subseteq p.seen
               /\ ~Watching(q) => p.seen = q.seen

\* p is q but for the passwords it has seen meanwhile.
Same(p, q) == /\ SameInput(p, q) /\ Grows(p, q)
              /\ p.at = q.at /\ p.token = q.token /\ p.user = q.user
              /\ p.row = q.row /\ p.answer = q.answer

\* r becomes rest, and the other requests at most see another password.
Becomes(r, rest) == /\ requests' \in [Requests -> Request]
                    /\ \A q \in Requests \ {r} : Same(requests'[q], requests[q])
                    /\ Same(requests'[r], rest)
                    /\ UpToDate'

\* The passwords of an address are passwords.
LEMMA StoredTyped ==
    ASSUME NEW table, table \in [DOMAIN table -> User], NEW a
    PROVE  StoredPassword(a, table) \subseteq Passwords \cup {None}
  BY DEF StoredPassword, Account, User

\* A step that reads leaves the passwords alone.
LEMMA ReadBecomes ==
    ASSUME requests \in [Requests -> Request], UpToDate, NEW r \in Requests,
           NEW rest \in Request, requests' = [requests EXCEPT ![r] = rest], UNCHANGED users,
           Watching(rest) => StoredPassword(rest.email, users) \subseteq rest.seen
    PROVE  Becomes(r, rest)
<1>1. /\ requests' \in [Requests -> Request]
      /\ \A q \in Requests \ {r} : requests'[q] = requests[q]
      /\ requests'[r] = rest
  OBVIOUS
<1>2. \A q \in Requests \ {r} : Same(requests'[q], requests[q])
  BY <1>1 DEF Same, SameInput, Grows
<1>3. Same(requests'[r], rest)
  BY <1>1 DEF Same, SameInput, Grows
<1>4. UpToDate'
  BY <1>1 DEF UpToDate
<1> QED BY <1>1, <1>2, <1>3, <1>4 DEF Becomes

\* A step that may change them shows them to the logins in flight.
LEMMA WatchedBecomes ==
    ASSUME requests \in [Requests -> Request], NEW r \in Requests, NEW rest \in Request,
           users' \in [DOMAIN users' -> User],
           requests' = Watched([requests EXCEPT ![r] = rest], users')
    PROVE  Becomes(r, rest)
<1> DEFINE rs == [requests EXCEPT ![r] = rest]
<1>1. /\ rs \in [Requests -> Request] /\ rs[r] = rest
      /\ \A q \in Requests \ {r} : rs[q] = requests[q]
  OBVIOUS
<1> HIDE DEF rs
<1>2. requests' = Watched(rs, users')
  BY DEF rs
<1>3. ASSUME NEW q \in Requests
      PROVE  /\ requests'[q] \in Request
             /\ Same(requests'[q], rs[q])
             /\ Watching(rs[q]) => StoredPassword(rs[q].email, users') \subseteq requests'[q].seen
  <2>1. rs[q] \in Request /\ StoredPassword(rs[q].email, users') \subseteq Passwords \cup {None}
    BY <1>1, StoredTyped
  <2>2. CASE Watching(rs[q])
    <3>1. requests'[q] = [rs[q] EXCEPT !.seen = @ \cup StoredPassword(rs[q].email, users')]
      BY <1>2, <2>2 DEF Watched, Watching
    <3>2. rs[q].seen \cup StoredPassword(rs[q].email, users') \in SUBSET (Passwords \cup {None})
      BY <2>1 DEF Request
    <3>3. requests'[q] \in Request
      BY <2>1, <3>1, <3>2 DEF Request
    <3>4. requests'[q].seen = rs[q].seen \cup StoredPassword(rs[q].email, users')
      BY <2>1, <3>1 DEF Request
    <3>5. SameInput(requests'[q], rs[q])
      BY <2>1, <3>1 DEF Request, SameInput
    <3>6. /\ requests'[q].at = rs[q].at /\ requests'[q].token = rs[q].token
          /\ requests'[q].user = rs[q].user /\ requests'[q].row = rs[q].row
          /\ requests'[q].answer = rs[q].answer
      BY <2>1, <3>1 DEF Request
    <3> QED BY <2>2, <3>3, <3>4, <3>5, <3>6 DEF Same, Grows
  <2>3. CASE ~Watching(rs[q])
    <3>1. requests'[q] = rs[q]
      BY <1>2, <2>3 DEF Watched, Watching
    <3> QED BY <2>1, <2>3, <3>1 DEF Same, SameInput, Grows
  <2> QED BY <2>2, <2>3
<1>4. requests' \in [Requests -> Request]
  <2>1. requests' = [q \in Requests |-> requests'[q]]
    BY <1>2, Zenon DEF Watched
  <2> QED BY <1>3, <2>1
<1>5. UpToDate'
  <2>1. \A q \in Requests :
           /\ requests'[q].op = rs[q].op /\ requests'[q].email = rs[q].email
           /\ requests'[q].answer = rs[q].answer
    BY <1>3 DEF Same, SameInput
  <2>2. \A q \in Requests : Watching(rs[q]) =>
           StoredPassword(rs[q].email, users') \subseteq requests'[q].seen
    BY <1>3
  <2> QED BY <2>1, <2>2 DEF UpToDate, Watching
<1> QED BY <1>1, <1>3, <1>4, <1>5 DEF Becomes

-----------------------------------------------------------------------------
(* What a transaction leaves behind.                                       *)

\* r goes on to another step, or to its answer.
Goes(r, at, answer) ==
    /\ requests' \in [Requests -> Request]
    /\ \A q \in Requests \ {r} : Same(requests'[q], requests[q])
    /\ SameInput(requests'[r], requests[r])
    /\ requests'[r].at = at /\ requests'[r].answer = answer
    /\ requests[r].seen \subseteq requests'[r].seen
    /\ answer # None => requests'[r].seen = requests[r].seen
    /\ UpToDate'

Brings(r, token, user, row) ==
    requests'[r].token = token /\ requests'[r].user = user /\ requests'[r].row = row

\* An answer changes nothing else of the request.
LEMMA AnswerGoes ==
    ASSUME TypeOK, UpToDate, NEW r \in Requests, NEW status \in Answers,
           Answer(r, status), UNCHANGED users
    PROVE  /\ Goes(r, "reply", status)
           /\ Brings(r, requests[r].token, requests[r].user, requests[r].row)
<1> DEFINE rest == [requests[r] EXCEPT !.at = "reply", !.answer = status]
<1>1. requests \in [Requests -> Request]
  BY DEF TypeOK
<1>2. rest \in Request /\ SameInput(rest, requests[r]) /\ rest.at = "reply" /\ rest.answer = status
        /\ rest.seen = requests[r].seen /\ rest.token = requests[r].token
        /\ rest.user = requests[r].user /\ rest.row = requests[r].row
  BY <1>1 DEF Request, SameInput
<1>3. requests' = [requests EXCEPT ![r] = rest] /\ ~Watching(rest)
  BY <1>2, ConstantsAssumption DEF Answer, Watching
<1> HIDE DEF rest
<1>4. Becomes(r, rest)
  BY <1>1, <1>2, <1>3, ReadBecomes
<1> QED BY <1>2, <1>3, <1>4 DEF Goes, Brings, Becomes, Same, SameInput, Grows

\* Neither does a step that goes on with what it has read.
LEMMA ContinueGoes ==
    ASSUME TypeOK, UpToDate, NEW r \in Requests, requests[r].answer = None,
           NEW at \in {"read", "write"}, NEW user \in Nat \cup {None}, NEW row \in User \cup {None},
           Continue(r, [requests[r] EXCEPT !.at = at, !.user = user, !.row = row]),
           UNCHANGED users
    PROVE  Goes(r, at, None) /\ Brings(r, requests[r].token, user, row)
<1> DEFINE rest == [requests[r] EXCEPT !.at = at, !.user = user, !.row = row]
<1>1. requests \in [Requests -> Request]
  BY DEF TypeOK
<1>2. SameInput(rest, requests[r]) /\ rest.at = at /\ rest.answer = None
        /\ rest.seen = requests[r].seen /\ rest.token = requests[r].token
        /\ rest.user = user /\ rest.row = row
  BY <1>1 DEF Request, SameInput
<1>6. rest \in Request
  <2>1. \A q \in Request : [q EXCEPT !.at = at] \in Request
    BY DEF Request
  <2>2. \A q \in Request : [q EXCEPT !.user = user] \in Request
    BY DEF Request
  <2>3. \A q \in Request : [q EXCEPT !.row = row] \in Request
    BY DEF Request
  <2>4. rest = [[[requests[r] EXCEPT !.at = at] EXCEPT !.user = user] EXCEPT !.row = row]
    BY <1>1 DEF Request
  <2> QED BY <1>1, <2>1, <2>2, <2>3, <2>4
<1>3. requests' = [requests EXCEPT ![r] = rest]
  BY DEF Continue
<1>4. Watching(rest) => StoredPassword(rest.email, users) \subseteq rest.seen
  BY <1>2 DEF UpToDate, Watching, SameInput
<1> HIDE DEF rest
<1>5. Becomes(r, rest)
  BY <1>1, <1>2, <1>3, <1>4, <1>6, ReadBecomes
<1> QED BY <1>2, <1>5 DEF Goes, Brings, Becomes, Same, SameInput, Grows

\* A commit ends a request, with an answer or with an error.
LEMMA CommitGoes ==
    ASSUME TypeOK, NEW r \in Requests, users' \in [DOMAIN users' -> User],
           NEW token \in Nat \cup {None}
    PROVE  /\ requests' = Watched([requests EXCEPT ![r] = Accepted(r, token)], users') =>
                 Goes(r, "reply", "ok") /\ requests'[r].token = token
           /\ requests' = Watched([requests EXCEPT ![r].at = "reply",
                                                   ![r].answer = "error"], users') =>
                 Goes(r, "reply", "error") /\ requests'[r].token = requests[r].token
<1> DEFINE failed == [requests[r] EXCEPT !.at = "reply", !.answer = "error"]
           ok     == Accepted(r, token)
<1>1. requests \in [Requests -> Request]
  BY DEF TypeOK
<1>0. "ok" \in Answers /\ "error" \in Answers /\ None # "ok" /\ None # "error"
  BY ConstantsAssumption DEF Answers
<1>a. ok \in Request
  BY <1>0, <1>1 DEF Accepted, Request
<1>b. failed \in Request
  BY <1>0, <1>1 DEF Request
<1>2. SameInput(ok, requests[r]) /\ ok.at = "reply" /\ ok.answer = "ok"
        /\ ok.seen = requests[r].seen /\ ok.token = token /\ ~Watching(ok)
  BY <1>0, <1>1 DEF Accepted, Request, SameInput, Watching
<1>3. SameInput(failed, requests[r]) /\ failed.at = "reply"
        /\ failed.answer = "error" /\ failed.seen = requests[r].seen
        /\ failed.token = requests[r].token /\ ~Watching(failed)
  BY <1>0, <1>1 DEF Request, SameInput, Watching
<1>4. [requests EXCEPT ![r].at = "reply", ![r].answer = "error"] = [requests EXCEPT ![r] = failed]
  BY <1>1
<1> HIDE DEF failed, ok
<1>5. ASSUME requests' = Watched([requests EXCEPT ![r] = ok], users')
      PROVE  Goes(r, "reply", "ok") /\ requests'[r].token = token
  <2>1. Becomes(r, ok)
    BY <1>a, <1>1, <1>2, <1>5, WatchedBecomes
  <2> QED BY <1>2, <2>1 DEF Goes, Becomes, Same, SameInput, Grows
<1>6. ASSUME requests' = Watched([requests EXCEPT ![r] = failed], users')
      PROVE  Goes(r, "reply", "error") /\ requests'[r].token = requests[r].token
  <2>1. Becomes(r, failed)
    BY <1>b, <1>1, <1>3, <1>6, WatchedBecomes
  <2> QED BY <1>3, <2>1 DEF Goes, Becomes, Same, SameInput, Grows
<1> QED BY <1>4, <1>5, <1>6 DEF ok

\* A row that can be read is a row.
LEMMA RowsTyped ==
    ASSUME TypeOK
    PROVE  /\ \A u \in DOMAIN users : u \in Nat /\ users[u] \in User
           /\ \A t \in DOMAIN sessions : t \in Nat /\ sessions[t] \in Session
           /\ \A r \in Requests : requests[r] \in Request
  BY DEF TypeOK, TablesTyped, Numbered

\* get_current_session finds the session's user, or refuses the request.
LEMMA ResolveDoes ==
    ASSUME TypeOK, UpToDate, RequestShape, NEW r \in Requests, ResolveSession(r)
    PROVE  /\ requests[r].at = "resolve" /\ Read
           /\ requests'[r].token = requests[r].token
           /\ \/ /\ Resolves(requests[r].token) /\ Goes(r, "read", None)
                 /\ requests'[r].user = sessions[requests[r].token].user
              \/ Goes(r, "reply", "not authenticated")
<1>1. requests[r].at = "resolve" /\ Read /\ UNCHANGED users /\ requests[r].answer = None
  BY DEF ResolveSession, Read, RequestShape, InProgress
<1>2. CASE Resolves(requests[r].token)
  <2> DEFINE user == sessions[requests[r].token].user
  <2>1. requests[r] \in Request /\ user \in Nat
    BY <1>2, RowsTyped DEF Resolves, Session
  <2>2. [requests[r] EXCEPT !.at = "read", !.user = user]
          = [requests[r] EXCEPT !.at = "read", !.user = user, !.row = requests[r].row]
    BY <2>1 DEF Request
  <2>3. Continue(r, [requests[r] EXCEPT !.at = "read", !.user = user, !.row = requests[r].row])
    BY <1>2, <2>2 DEF ResolveSession
  <2>4. requests[r].row \in User \cup {None}
    BY <2>1 DEF Request
  <2>5. Goes(r, "read", None) /\ Brings(r, requests[r].token, user, requests[r].row)
    BY <1>1, <2>1, <2>3, <2>4, ContinueGoes
  <2> QED BY <1>1, <1>2, <2>5 DEF Brings
<1>3. CASE ~Resolves(requests[r].token)
  <2>1. Answer(r, "not authenticated") /\ "not authenticated" \in Answers
    BY <1>3 DEF ResolveSession, Answers
  <2> QED BY <1>1, <2>1, AnswerGoes DEF Brings
<1> QED BY <1>2, <1>3

\* A registration goes on while the address is free.
LEMMA RegisterReadDoes ==
    ASSUME TypeOK, UpToDate, RequestShape, NEW r \in Requests, RegisterRead(r)
    PROVE  /\ At(r, "register", "read") /\ Read
           /\ Goes(r, "write", None) \/ Goes(r, "reply", "conflict")
<1>1. At(r, "register", "read") /\ Read /\ UNCHANGED users /\ requests[r].answer = None
  BY DEF RegisterRead, Read, RequestShape, InProgress, At
<1>2. Continue(r, Having(r, None, None)) => Goes(r, "write", None)
  BY <1>1, ContinueGoes DEF Having
<1>3. Answer(r, "conflict") => Goes(r, "reply", "conflict")
  BY <1>1, AnswerGoes DEF Answers
<1> QED BY <1>1, <1>2, <1>3 DEF RegisterRead

\* A login goes on with an account of its address that has its password.
LEMMA LoginReadDoes ==
    ASSUME TypeOK, UpToDate, RequestShape, NEW r \in Requests, LoginRead(r)
    PROVE  /\ At(r, "login", "read") /\ Read
           /\ \/ \E u \in Account(requests[r].email, users) :
                   /\ users[u].password = requests[r].password
                   /\ Goes(r, "write", None)
                   /\ Brings(r, requests[r].token, u, users[u])
              \/ /\ \A u \in Account(requests[r].email, users) :
                      users[u].password # requests[r].password
                 /\ Goes(r, "reply", "invalid credentials")
<1>1. At(r, "login", "read") /\ Read /\ UNCHANGED users /\ requests[r].answer = None
  BY DEF LoginRead, Read, RequestShape, InProgress, At
<1>2. ASSUME NEW u \in DOMAIN users, Continue(r, Having(r, u, users[u]))
      PROVE  Goes(r, "write", None) /\ Brings(r, requests[r].token, u, users[u])
  BY <1>1, <1>2, RowsTyped, ContinueGoes DEF Having
<1>3. Answer(r, "invalid credentials") => Goes(r, "reply", "invalid credentials")
  BY <1>1, AnswerGoes DEF Answers
<1> QED BY <1>1, <1>2, <1>3 DEF LoginRead, Verifies, Account

\* A logout goes on if there is a session row to revoke.
LEMMA LogoutReadDoes ==
    ASSUME TypeOK, UpToDate, RequestShape, NEW r \in Requests, LogoutRead(r)
    PROVE  /\ At(r, "logout", "read") /\ Read
           /\ requests'[r].token = requests[r].token
           /\ \/ requests[r].token \in DOMAIN sessions /\ Goes(r, "write", None)
              \/ Goes(r, "reply", "ok")
<1>1. At(r, "logout", "read") /\ Read /\ UNCHANGED users /\ requests[r].answer = None
  BY DEF LogoutRead, Read, RequestShape, InProgress, At
<1>2. ASSUME Continue(r, Having(r, None, None))
      PROVE  Goes(r, "write", None) /\ requests'[r].token = requests[r].token
  <2>1. Goes(r, "write", None) /\ Brings(r, requests[r].token, None, None)
    BY <1>1, <1>2, ContinueGoes DEF Having
  <2> QED BY <2>1 DEF Brings
<1>3. ASSUME Answer(r, "ok")
      PROVE  Goes(r, "reply", "ok") /\ requests'[r].token = requests[r].token
  BY <1>1, <1>3, AnswerGoes DEF Answers, Brings
<1> QED BY <1>1, <1>2, <1>3 DEF LogoutRead

\* The requests of a resolved session read their user's row.
LEMMA AuthenticatedReadDoes ==
    ASSUME TypeOK, UpToDate, RequestShape, NEW r \in Requests,
           GetProfile(r) \/ UpdateDisplayNameRead(r) \/ ChangePasswordRead(r)
    PROVE  /\ requests[r].op \in Authenticated /\ requests[r].at = "read" /\ Read
           /\ requests'[r].token = requests[r].token
           /\ \/ Goes(r, "write", None) /\ requests'[r].user = requests[r].user
              \/ \E status \in Answers \ {"not authenticated"} : Goes(r, "reply", status)
<1>1. /\ requests[r].op \in Authenticated /\ requests[r].at = "read" /\ Read
      /\ UNCHANGED users /\ requests[r].answer = None
  BY DEF GetProfile, UpdateDisplayNameRead, ChangePasswordRead, Authenticated, Read,
         RequestShape, InProgress, At
<1>2. requests[r].user \in DOMAIN users /\ requests[r].user \in Nat /\ users[requests[r].user] \in User
  BY <1>1, RowsTyped DEF RequestShape
<1>3. ASSUME Continue(r, Having(r, requests[r].user, users[requests[r].user]))
      PROVE  /\ Goes(r, "write", None) /\ requests'[r].user = requests[r].user
             /\ requests'[r].token = requests[r].token
  <2> DEFINE user == requests[r].user
  <2>1. Goes(r, "write", None) /\ Brings(r, requests[r].token, user, users[user])
    BY <1>1, <1>2, <1>3, ContinueGoes DEF Having
  <2> QED BY <2>1 DEF Brings
<1>4. ASSUME NEW status \in {"ok", "invalid credentials"}, Answer(r, status)
      PROVE  /\ Goes(r, "reply", status) /\ status \in Answers \ {"not authenticated"}
             /\ requests'[r].token = requests[r].token
  BY <1>1, <1>4, AnswerGoes DEF Answers, Brings
<1> QED BY <1>1, <1>3, <1>4 DEF GetProfile, UpdateDisplayNameRead, ChangePasswordRead

\* The transaction is over; its answer is not that of another step.
Ended(r) == \E status \in {"ok", "error"} : Goes(r, "reply", status)

NewUser(r, id) ==
    [email |-> Fold[requests[r].email], password |-> requests[r].password,
     name |-> CHOOSE n \in Names : TRUE, tenant |-> id]

NewSession(user, tenant) ==
    [user |-> user, tenant |-> tenant, expires_at |-> clock + Ttl, revoked |-> FALSE]

NewId == Cardinality(DOMAIN users) + 1

\* A session row of its own is issued.
LEMMA Issues ==
    ASSUME TypeOK, NEW user \in Nat, NEW tenant \in Nat, IssueSession(user, tenant)
    PROVE  /\ Token \in Nat
           /\ Appended(sessions, sessions', Token, NewSession(user, tenant))
           /\ sessions' \in [DOMAIN sessions' -> Session] /\ Numbered(sessions')
<1>1. NewSession(user, tenant) \in Session
  BY ConstantsAssumption DEF NewSession, Session, TypeOK
<1>2. sessions' = Insert(sessions, Cardinality(DOMAIN sessions) + 1, NewSession(user, tenant))
  BY DEF IssueSession, Token, NewSession
<1>3. sessions \in [DOMAIN sessions -> Session] /\ Numbered(sessions)
  BY DEF TypeOK, TablesTyped
<1>4. /\ Appended(sessions, sessions', Token, NewSession(user, tenant))
      /\ sessions' \in [DOMAIN sessions' -> Session] /\ Numbered(sessions')
  BY <1>1, <1>2, <1>3, InsertAppends DEF Token
<1> QED BY <1>4 DEF Appended

\* A commit takes effect, or not, and answers.
LEMMA CommitDoes ==
    ASSUME TypeOK, NEW r \in Requests, TablesTyped', NEW token \in Nat \cup {None},
           \/ requests' = Watched([requests EXCEPT ![r] = Accepted(r, token)], users')
           \/ requests' = Watched([requests EXCEPT ![r].at = "reply",
                                                   ![r].answer = "error"], users')
    PROVE  Ended(r) /\ requests'[r].token \in {token, requests[r].token}
<1>1. users' \in [DOMAIN users' -> User]
  BY DEF TablesTyped
<1> QED BY <1>1, CommitGoes DEF Ended

\* A registration commits all its rows under a free address, or none.
LEMMA RegisterCommitDoes ==
    ASSUME TypeOK, UpToDate, RequestShape, NEW r \in Requests, RegisterCommit(r)
    PROVE  /\ At(r, "register", "write") /\ UNCHANGED <<clock, cookie, loggedOut>>
           /\ TablesTyped' /\ Ended(r)
           /\ \/ UNCHANGED <<users, tenants, sessions>>
              \/ /\ ~AddressTaken(requests[r].email)
                 /\ tenants' = tenants \cup {NewId}
                 /\ Appended(users, users', NewId, NewUser(r, NewId))
                 /\ Appended(sessions, sessions', Token, NewSession(NewId, NewId))
<1>1. At(r, "register", "write") /\ requests[r].answer = None
  BY DEF RegisterCommit, RequestShape, InProgress, At
<1>2. CASE AddressTaken(requests[r].email)
  <2>1. Answer(r, "error") /\ Read
    BY <1>2 DEF RegisterCommit
  <2>2. Ended(r)
    BY <2>1, AnswerGoes DEF Ended, Read, Answers
  <2> QED BY <1>1, <2>1, <2>2 DEF Read, TypeOK, TablesTyped
<1>3. CASE ~AddressTaken(requests[r].email)
  <2> DEFINE effect == CreateTenant(NewId) /\ CreateUser(r, NewId) /\ IssueSession(NewId, NewId)
  <2>1. Commits(r, effect, Accepted(r, Token))
    BY <1>3 DEF RegisterCommit, NewId
  <2>2. effect \/ UNCHANGED <<users, tenants, sessions>>
    BY <2>1 DEF Commits
  <2>3. ASSUME effect
        PROVE  /\ TablesTyped' /\ tenants' = tenants \cup {NewId}
               /\ Appended(users, users', NewId, NewUser(r, NewId))
               /\ Appended(sessions, sessions', Token, NewSession(NewId, NewId))
    <3>1. users \in [DOMAIN users -> User] /\ Numbered(users) /\ NewId \in Nat
      <4>1. users \in [DOMAIN users -> User] /\ Numbered(users)
        BY DEF TypeOK, TablesTyped
      <4>2. PICK n \in Nat : DOMAIN users = 1 .. n
        BY <4>1 DEF Numbered
      <4> QED BY <4>1, <4>2, NumberedCounts DEF NewId
    <3>2. NewUser(r, NewId) \in User
      BY <1>1, <3>1, ConstantsAssumption DEF NewUser, User, RequestShape, At
    <3>3. users' = Insert(users, NewId, NewUser(r, NewId))
      BY <2>3 DEF CreateUser, NewUser
    <3>4. /\ Appended(users, users', NewId, NewUser(r, NewId))
          /\ users' \in [DOMAIN users' -> User] /\ Numbered(users')
      BY <3>1, <3>2, <3>3, InsertAppends DEF NewId
    <3>5. tenants' = tenants \cup {NewId} /\ tenants \subseteq Nat
      BY <2>3 DEF CreateTenant, TypeOK, TablesTyped
    <3>6. /\ Appended(sessions, sessions', Token, NewSession(NewId, NewId))
          /\ sessions' \in [DOMAIN sessions' -> Session] /\ Numbered(sessions')
      BY <2>3, <3>1, Issues
    <3> QED BY <3>1, <3>4, <3>5, <3>6 DEF TablesTyped
  <2> HIDE DEF effect
  <2>4. TablesTyped'
    <3>1. CASE effect
      BY <2>3, <3>1
    <3>2. CASE UNCHANGED <<users, tenants, sessions>>
      BY <3>2 DEF TypeOK, TablesTyped, Numbered
    <3> QED BY <2>2, <3>1, <3>2
  <2>5. Token \in Nat
    <3>1. PICK n \in Nat : DOMAIN sessions = 1 .. n
      BY DEF TypeOK, TablesTyped, Numbered
    <3> QED BY <3>1, NumberedCounts DEF Token
  <2>6. Ended(r)
    BY <2>1, <2>4, <2>5, CommitDoes DEF Commits
  <2>7. UNCHANGED <<clock, cookie, loggedOut>>
    BY <1>1, <2>1 DEF Commits, At
  <2> QED BY <1>1, <1>3, <2>2, <2>3, <2>4, <2>6, <2>7
<1> QED BY <1>2, <1>3

\* A login commits a session of its user, or nothing.
LEMMA LoginCommitDoes ==
    ASSUME TypeOK, RequestShape, NEW r \in Requests, LoginCommit(r)
    PROVE  /\ At(r, "login", "write") /\ UNCHANGED <<users, tenants, clock, cookie, loggedOut>>
           /\ TablesTyped' /\ Ended(r)
           /\ \/ UNCHANGED sessions
              \/ Appended(sessions, sessions', Token,
                          NewSession(requests[r].user, requests[r].row.tenant))
<1> DEFINE user   == requests[r].user
           tenant == requests[r].row.tenant
           effect == IssueSession(user, tenant) /\ UNCHANGED <<users, tenants>>
<1>1. At(r, "login", "write") /\ user \in Nat /\ tenant \in Nat
  BY RowsTyped DEF LoginCommit, RequestShape, At, User
<1>2. Commits(r, effect, Accepted(r, Token))
  BY DEF LoginCommit
<1>3. UNCHANGED <<users, tenants>> /\ (IssueSession(user, tenant) \/ UNCHANGED sessions)
  BY <1>2 DEF Commits
<1>4. UNCHANGED <<clock, cookie, loggedOut>>
  BY <1>1, <1>2 DEF Commits, At
<1>5. IssueSession(user, tenant) =>
        /\ Appended(sessions, sessions', Token, NewSession(user, tenant))
        /\ sessions' \in [DOMAIN sessions' -> Session] /\ Numbered(sessions')
  BY <1>1, Issues
<1>6. TablesTyped'
  BY <1>3, <1>5 DEF TypeOK, TablesTyped, Numbered
<1>7. Token \in Nat
  <2>1. PICK n \in Nat : DOMAIN sessions = 1 .. n
    BY DEF TypeOK, TablesTyped, Numbered
  <2> QED BY <2>1, NumberedCounts DEF Token
<1>8. Ended(r)
  BY <1>2, <1>6, <1>7, CommitDoes DEF Commits
<1> QED BY <1>1, <1>3, <1>4, <1>5, <1>6, <1>8

\* One column of one row changes.
OnlyRevoked(token) ==
    /\ DOMAIN sessions' = DOMAIN sessions
    /\ \A t \in DOMAIN sessions :
          /\ sessions'[t].user = sessions[t].user /\ sessions'[t].tenant = sessions[t].tenant
          /\ sessions'[t].expires_at = sessions[t].expires_at
          /\ sessions'[t].revoked <=> (sessions[t].revoked \/ t = token)

OnlyUpdated(id, password, name) ==
    /\ DOMAIN users' = DOMAIN users
    /\ \A u \in DOMAIN users \ {id} : users'[u] = users[u]
    /\ users'[id].email = users[id].email /\ users'[id].tenant = users[id].tenant
    /\ users'[id].password = password /\ users'[id].name = name

\* A logout revokes its session, and is remembered only if it says so.
LEMMA LogoutCommitDoes ==
    ASSUME TypeOK, RequestShape, NEW r \in Requests, LogoutCommit(r)
    PROVE  /\ At(r, "logout", "write") /\ UNCHANGED <<users, tenants, clock, cookie>>
           /\ TablesTyped' /\ Ended(r) /\ requests'[r].token = requests[r].token
           /\ \/ UNCHANGED <<sessions, loggedOut>>
              \/ /\ OnlyRevoked(requests[r].token)
                 /\ loggedOut' \subseteq loggedOut \cup {requests[r].token}
<1> DEFINE token  == requests[r].token
           effect == Revoke(token) /\ UNCHANGED <<users, tenants>>
<1>1. At(r, "logout", "write") /\ token \in DOMAIN sessions /\ token \in Nat
  BY RowsTyped DEF LogoutCommit, RequestShape, At
<1>2. Commits(r, effect, Accepted(r, token))
  BY DEF LogoutCommit
<1>3. UNCHANGED <<users, tenants, clock, cookie>> /\ (Revoke(token) \/ UNCHANGED sessions)
  BY <1>2 DEF Commits
<1>4. ASSUME Revoke(token)
      PROVE  OnlyRevoked(token) /\ sessions' \in [DOMAIN sessions' -> Session] /\ Numbered(sessions')
  <2>1. sessions \in [DOMAIN sessions -> Session]
    BY DEF TypeOK, TablesTyped
  <2>2. sessions' = [sessions EXCEPT ![token] = [sessions[token] EXCEPT !.revoked = TRUE]]
    BY <1>4 DEF Revoke
  <2>3. \A s \in Session :
          LET gone == [s EXCEPT !.revoked = TRUE] IN
          /\ gone \in Session /\ gone.user = s.user /\ gone.tenant = s.tenant
          /\ gone.expires_at = s.expires_at /\ gone.revoked
    BY DEF Session
  <2>4. /\ DOMAIN sessions' = DOMAIN sessions
        /\ \A t \in DOMAIN sessions \ {token} : sessions'[t] = sessions[t]
        /\ sessions'[token] = [sessions[token] EXCEPT !.revoked = TRUE]
    BY <1>1, <2>1, <2>2
  <2>5. \A t \in DOMAIN sessions : sessions[t] \in Session /\ sessions'[t] \in Session
    BY <1>1, <2>1, <2>3, <2>4
  <2>6. OnlyRevoked(token)
    <3>1. /\ sessions'[token].user = sessions[token].user
          /\ sessions'[token].tenant = sessions[token].tenant
          /\ sessions'[token].expires_at = sessions[token].expires_at
          /\ sessions'[token].revoked
      BY <1>1, <2>3, <2>4, <2>5
    <3>2. ASSUME NEW t \in DOMAIN sessions
          PROVE  /\ sessions'[t].user = sessions[t].user /\ sessions'[t].tenant = sessions[t].tenant
                 /\ sessions'[t].expires_at = sessions[t].expires_at
                 /\ sessions'[t].revoked <=> (sessions[t].revoked \/ t = token)
      BY <2>4, <3>1
    <3> QED BY <2>4, <3>2 DEF OnlyRevoked
  <2>7. sessions' \in [DOMAIN sessions' -> Session]
    BY <2>1, <2>2, <2>3, <1>1
  <2> QED BY <2>4, <2>6, <2>7 DEF TypeOK, TablesTyped, Numbered
<1>5. TablesTyped'
  BY <1>3, <1>4 DEF TypeOK, TablesTyped, Numbered
<1>6. Ended(r) /\ requests'[r].token = token
  BY <1>1, <1>2, <1>5, CommitDoes DEF Commits
<1>7. loggedOut' = loggedOut \/ (Revoke(token) /\ loggedOut' = loggedOut \cup {token})
  <2>1. CASE requests'[r].answer # "ok"
    BY <1>2, <2>1 DEF Commits
  <2>2. CASE requests'[r].answer = "ok"
    <3>1. requests' # Watched([requests EXCEPT ![r].at = "reply", ![r].answer = "error"], users')
      BY <1>5, <2>2, CommitGoes DEF TablesTyped, Goes
    <3>2. Revoke(token)
      BY <1>2, <3>1 DEF Commits
    <3> QED BY <1>2, <3>2 DEF Commits
  <2> QED BY <2>1, <2>2
<1>8. ASSUME ~Revoke(token)  PROVE UNCHANGED <<sessions, loggedOut>>
  BY <1>3, <1>7, <1>8
<1>9. ASSUME Revoke(token)  PROVE OnlyRevoked(token) /\ loggedOut' \subseteq loggedOut \cup {token}
  BY <1>4, <1>7, <1>9
<1> QED BY <1>1, <1>3, <1>5, <1>6, <1>8, <1>9

\* An update writes its own column of its user's row.
LEMMA UpdateTyped ==
    ASSUME TypeOK, NEW id \in DOMAIN users
    PROVE  /\ \A name \in Names : users' = [users EXCEPT ![id].name = name] =>
                 /\ OnlyUpdated(id, users[id].password, name)
                 /\ users' \in [DOMAIN users' -> User] /\ Numbered(users')
           /\ \A password \in Passwords : users' = [users EXCEPT ![id].password = password] =>
                 /\ OnlyUpdated(id, password, users[id].name)
                 /\ users' \in [DOMAIN users' -> User] /\ Numbered(users')
<1>1. users \in [DOMAIN users -> User] /\ Numbered(users)
  BY DEF TypeOK, TablesTyped
<1>2. ASSUME NEW row \in User, users' = [users EXCEPT ![id] = row]
      PROVE  /\ users' \in [DOMAIN users' -> User] /\ Numbered(users')
             /\ DOMAIN users' = DOMAIN users /\ users'[id] = row
             /\ \A u \in DOMAIN users \ {id} : users'[u] = users[u]
  BY <1>1, <1>2 DEF Numbered
<1>3. ASSUME NEW name \in Names, users' = [users EXCEPT ![id].name = name]
      PROVE  /\ OnlyUpdated(id, users[id].password, name)
             /\ users' \in [DOMAIN users' -> User] /\ Numbered(users')
  <2> DEFINE row == [users[id] EXCEPT !.name = name]
  <2>1. row \in User /\ row.email = users[id].email /\ row.tenant = users[id].tenant
          /\ row.password = users[id].password /\ row.name = name
    BY <1>1 DEF User
  <2>2. users' = [users EXCEPT ![id] = row]
    BY <1>3
  <2> HIDE DEF row
  <2> QED BY <1>2, <2>1, <2>2 DEF OnlyUpdated
<1>4. ASSUME NEW password \in Passwords, users' = [users EXCEPT ![id].password = password]
      PROVE  /\ OnlyUpdated(id, password, users[id].name)
             /\ users' \in [DOMAIN users' -> User] /\ Numbered(users')
  <2> DEFINE row == [users[id] EXCEPT !.password = password]
  <2>1. row \in User /\ row.email = users[id].email /\ row.tenant = users[id].tenant
          /\ row.password = password /\ row.name = users[id].name
    BY <1>1 DEF User
  <2>2. users' = [users EXCEPT ![id] = row]
    BY <1>4
  <2> HIDE DEF row
  <2> QED BY <1>2, <2>1, <2>2 DEF OnlyUpdated
<1> QED BY <1>3, <1>4

\* An update commits its column, or nothing.
LEMMA UpdateCommitDoes ==
    ASSUME TypeOK, RequestShape, NEW r \in Requests,
           UpdateDisplayNameCommit(r) \/ ChangePasswordCommit(r)
    PROVE  /\ requests[r].op \in Authenticated /\ requests[r].at = "write"
           /\ requests[r].user \in DOMAIN users
           /\ UNCHANGED <<tenants, sessions, clock, cookie, loggedOut>>
           /\ TablesTyped' /\ Ended(r) /\ requests'[r].token = requests[r].token
           /\ LET id == requests[r].user IN
              \/ UNCHANGED users
              \/ At(r, "profile", "write")
                   /\ OnlyUpdated(id, users[id].password, requests[r].name)
              \/ At(r, "change-password", "write")
                   /\ OnlyUpdated(id, requests[r].new, users[id].name)
<1> DEFINE id == requests[r].user
<1>1. requests[r].at = "write" /\ requests[r].op \in {"profile", "change-password"}
  BY DEF UpdateDisplayNameCommit, ChangePasswordCommit, At
<1>2. requests[r].op \in Authenticated /\ id \in DOMAIN users
  BY <1>1 DEF Authenticated, RequestShape
<1>3. requests[r].token \in Nat \cup {None}
  BY RowsTyped DEF Request
<1>4. CASE UpdateDisplayNameCommit(r)
  <2>1. At(r, "profile", "write") /\ requests[r].name \in Names
    BY <1>4 DEF UpdateDisplayNameCommit, RequestShape, At
  <2>2. Commits(r, UpdateDisplayName(r) /\ UNCHANGED <<tenants, sessions>>,
                Accepted(r, requests[r].token))
    BY <1>4 DEF UpdateDisplayNameCommit
  <2>3. /\ UNCHANGED <<tenants, sessions, clock, cookie, loggedOut>>
        /\ UpdateDisplayName(r) \/ UNCHANGED users
    BY <2>1, <2>2 DEF Commits, At
  <2>4. ASSUME UpdateDisplayName(r)
        PROVE  /\ OnlyUpdated(id, users[id].password, requests[r].name)
               /\ users' \in [DOMAIN users' -> User] /\ Numbered(users')
    BY <1>2, <2>1, <2>4, UpdateTyped DEF UpdateDisplayName
  <2>5. TablesTyped'
    BY <2>3, <2>4 DEF TypeOK, TablesTyped, Numbered
  <2>6. Ended(r) /\ requests'[r].token = requests[r].token
    BY <1>3, <2>2, <2>5, CommitDoes DEF Commits
  <2> QED BY <1>1, <1>2, <2>1, <2>3, <2>4, <2>5, <2>6
<1>5. CASE ChangePasswordCommit(r)
  <2>1. At(r, "change-password", "write") /\ requests[r].new \in Passwords
    BY <1>5 DEF ChangePasswordCommit, RequestShape, At
  <2>2. Commits(r, UpdatePasswordHash(r) /\ UNCHANGED <<tenants, sessions>>,
                Accepted(r, requests[r].token))
    BY <1>5 DEF ChangePasswordCommit
  <2>3. /\ UNCHANGED <<tenants, sessions, clock, cookie, loggedOut>>
        /\ UpdatePasswordHash(r) \/ UNCHANGED users
    BY <2>1, <2>2 DEF Commits, At
  <2>4. ASSUME UpdatePasswordHash(r)
        PROVE  /\ OnlyUpdated(id, requests[r].new, users[id].name)
               /\ users' \in [DOMAIN users' -> User] /\ Numbered(users')
    BY <1>2, <2>1, <2>4, UpdateTyped DEF UpdatePasswordHash
  <2>5. TablesTyped'
    BY <2>3, <2>4 DEF TypeOK, TablesTyped, Numbered
  <2>6. Ended(r) /\ requests'[r].token = requests[r].token
    BY <1>3, <2>2, <2>5, CommitDoes DEF Commits
  <2> QED BY <1>1, <1>2, <2>1, <2>3, <2>4, <2>5, <2>6
<1> QED BY <1>4, <1>5

-----------------------------------------------------------------------------
(* What the client and the clock do.                                       *)

\* A request that is sent has the input of its endpoint and nothing else yet.
Sent(q) ==
    /\ q.op \in Operations /\ q.answer = None
    /\ q.at = IF q.op \in Unauthenticated THEN "read" ELSE "resolve"
    /\ q.op \in {"register", "login"} => q.email \in Addresses /\ q.password \in Passwords
    /\ q.op = "change-password" => q.new \in Passwords
    /\ q.op = "profile" => q.name \in Names

\* Nothing has been asked of an idle request.
LEMMA IdleTyped == Idle \in Request /\ Idle.op = None /\ Idle.at = "idle"
  BY DEF Idle, Request

AsSent(body, token, dead) ==
    [body EXCEPT !.token = token, !.dead = dead,
                 !.at = IF body.op \in Unauthenticated THEN "read" ELSE "resolve"]

\* A field of a request can be set to any value of its type.
LEMMA FieldsTyped ==
    ASSUME NEW q \in Request
    PROVE  /\ \A op \in Operations : [q EXCEPT !.op = op] \in Request
           /\ \A a \in Addresses \cup {None} : [q EXCEPT !.email = a] \in Request
           /\ \A p \in Passwords \cup {None} : [q EXCEPT !.password = p] \in Request
           /\ \A p \in Passwords \cup {None} : [q EXCEPT !.new = p] \in Request
           /\ \A n \in Names \cup {None} : [q EXCEPT !.name = n] \in Request
           /\ \A token \in Nat \cup {None} : [q EXCEPT !.token = token] \in Request
           /\ \A dead \in BOOLEAN : [q EXCEPT !.dead = dead] \in Request
           /\ \A at \in {"read", "resolve"} : [q EXCEPT !.at = at] \in Request
<1> USE DEF Request
<1>1. \A op \in Operations : [q EXCEPT !.op = op] \in Request
  OBVIOUS
<1>2. \A a \in Addresses \cup {None} : [q EXCEPT !.email = a] \in Request
  OBVIOUS
<1>3. \A p \in Passwords \cup {None} : [q EXCEPT !.password = p] \in Request
  OBVIOUS
<1>4. \A p \in Passwords \cup {None} : [q EXCEPT !.new = p] \in Request
  OBVIOUS
<1>5. \A n \in Names \cup {None} : [q EXCEPT !.name = n] \in Request
  OBVIOUS
<1>6. \A token \in Nat \cup {None} : [q EXCEPT !.token = token] \in Request
  OBVIOUS
<1>7. \A dead \in BOOLEAN : [q EXCEPT !.dead = dead] \in Request
  OBVIOUS
<1>8. \A at \in {"read", "resolve"} : [q EXCEPT !.at = at] \in Request
  OBVIOUS
<1> HIDE DEF Request
<1> QED BY <1>1, <1>2, <1>3, <1>4, <1>5, <1>6, <1>7, <1>8

\* What is asked of an endpoint is a request of these fields.
LEMMA AskedTyped ==
    ASSUME NEW op \in Operations, NEW email \in Addresses \cup {None},
           NEW password \in Passwords \cup {None}, NEW new \in Passwords \cup {None},
           NEW name \in Names \cup {None},
           NEW body, body = Asked(op, email, password, new, name)
    PROVE  /\ body \in Request /\ body.op = op /\ body.answer = None
           /\ body.email = email /\ body.password = password
           /\ body.new = new /\ body.name = name
<1>1. body = [[[[[Idle EXCEPT !.op = op] EXCEPT !.email = email] EXCEPT !.password = password]
                 EXCEPT !.new = new] EXCEPT !.name = name]
  BY DEF Asked, Idle
<1>2. body \in Request
  <2>1. [Idle EXCEPT !.op = op] \in Request
    BY IdleTyped, FieldsTyped
  <2>2. [[Idle EXCEPT !.op = op] EXCEPT !.email = email] \in Request
    BY <2>1, FieldsTyped
  <2>3. [[[Idle EXCEPT !.op = op] EXCEPT !.email = email] EXCEPT !.password = password] \in Request
    BY <2>2, FieldsTyped
  <2>4. [[[[Idle EXCEPT !.op = op] EXCEPT !.email = email] EXCEPT !.password = password]
            EXCEPT !.new = new] \in Request
    BY <2>3, FieldsTyped
  <2> QED BY <1>1, <2>4, FieldsTyped
<1> QED BY <1>2 DEF Asked, Idle

\* A body has the fields of its schema.
LEMMA BodyTyped ==
    ASSUME NEW body \in Bodies
    PROVE  /\ body \in Request /\ body.op \in Operations /\ body.answer = None
           /\ body.op \in {"register", "login"} =>
                 body.email \in Addresses /\ body.password \in Passwords
           /\ body.op = "change-password" => body.new \in Passwords
           /\ body.op = "profile" => body.name \in Names
<1>1. /\ \A op \in {"register", "login", "logout", "me"} : op \in Operations
      /\ "profile" \in Operations /\ "change-password" \in Operations
  BY DEF Operations, Unauthenticated, Authenticated
<1>2. CASE body \in {Asked(op, a, Strip[p], None, None) :
                         op \in {"register", "login"}, a \in Addresses, p \in Passwords}
  <2>1. PICK op \in {"register", "login"} : \E a \in Addresses : \E p \in Passwords :
           body = Asked(op, a, Strip[p], None, None)
    BY <1>2
  <2>2. PICK a \in Addresses : \E p \in Passwords : body = Asked(op, a, Strip[p], None, None)
    BY <2>1
  <2>3. PICK password \in Passwords : body = Asked(op, a, password, None, None)
    BY <2>2, ConstantsAssumption
  <2>4. /\ op \in Operations /\ a \in Addresses \cup {None}
        /\ password \in Passwords \cup {None} /\ None \in Passwords \cup {None}
        /\ None \in Names \cup {None}
    BY <1>1
  <2>5. /\ body \in Request /\ body.op = op /\ body.answer = None
        /\ body.email = a /\ body.password = password
    BY <2>3, <2>4, AskedTyped
  <2> QED BY <2>4, <2>5
<1>3. CASE body \in {Asked(op, None, None, None, None) : op \in {"logout", "me"}}
  <2>1. PICK op \in {"logout", "me"} : body = Asked(op, None, None, None, None)
    BY <1>3
  <2>2. body \in Request /\ body.op = op /\ body.answer = None
    BY <1>1, <2>1, AskedTyped
  <2> QED BY <1>1, <2>2
<1>4. CASE body \in {Asked("profile", None, None, None, n) : n \in Names}
  <2>1. PICK n \in Names : body = Asked("profile", None, None, None, n)
    BY <1>4
  <2>2. /\ None \in Addresses \cup {None} /\ None \in Passwords \cup {None}
        /\ n \in Names \cup {None}
    OBVIOUS
  <2>3. body \in Request /\ body.op = "profile" /\ body.answer = None /\ body.name = n
    BY <1>1, <2>1, <2>2, AskedTyped
  <2> QED BY <1>1, <2>3
<1>5. CASE body \in {Asked("change-password", None, p, q, None) :
                         p \in Passwords, q \in Passwords}
  <2>1. PICK p \in Passwords : \E q \in Passwords :
           body = Asked("change-password", None, p, q, None)
    BY <1>5
  <2>2. PICK q \in Passwords : body = Asked("change-password", None, p, q, None)
    BY <2>1
  <2>3. /\ None \in Addresses \cup {None} /\ p \in Passwords \cup {None}
        /\ q \in Passwords \cup {None} /\ None \in Names \cup {None}
    OBVIOUS
  <2> QED BY <1>1, <2>2, <2>3, AskedTyped
<1> QED BY <1>2, <1>3, <1>4, <1>5 DEF Bodies

\* It is sent with the cookie's token.
LEMMA SentTyped ==
    ASSUME NEW body \in Bodies, NEW token \in Nat \cup {None}, NEW dead \in BOOLEAN
    PROVE  LET rest == AsSent(body, token, dead)
           IN  rest \in Request /\ Sent(rest) /\ rest.token = token /\ rest.dead = dead
<1> DEFINE rest == AsSent(body, token, dead)
           at   == IF body.op \in Unauthenticated THEN "read" ELSE "resolve"
<1>1. body \in Request
  BY BodyTyped
<1>2. rest = [[[body EXCEPT !.token = token] EXCEPT !.dead = dead] EXCEPT !.at = at]
  BY <1>1 DEF Request, AsSent
<1>3. rest \in Request
  <2>1. at \in {"read", "resolve"}
    OBVIOUS
  <2>2. [body EXCEPT !.token = token] \in Request
    BY <1>1, FieldsTyped
  <2>3. [[body EXCEPT !.token = token] EXCEPT !.dead = dead] \in Request
    BY <2>2, FieldsTyped
  <2> QED BY <1>2, <2>1, <2>3, FieldsTyped
<1>4. /\ rest.op = body.op /\ rest.answer = body.answer /\ rest.at = at
      /\ rest.email = body.email /\ rest.password = body.password /\ rest.new = body.new
      /\ rest.name = body.name /\ rest.token = token /\ rest.dead = dead
  BY <1>1 DEF Request, AsSent
<1> HIDE DEF rest
<1>5. Sent(rest)
  BY <1>4, BodyTyped DEF Sent
<1> QED BY <1>3, <1>4, <1>5 DEF rest

\* A request is sent with the cookie there is.
LEMMA SendDoes ==
    ASSUME TypeOK, NEW r \in Requests, Send(r)
    PROVE  /\ requests[r].at = "idle"
           /\ UNCHANGED <<users, tenants, sessions, clock, cookie, loggedOut>>
           /\ \E rest \in Request :
                 Becomes(r, rest) /\ Sent(rest) /\ (rest.dead <=> Dead(rest.token))
<1> DEFINE token == IF cookie = None THEN None ELSE cookie.token
<1>1. token \in Nat \cup {None} /\ Dead(token) \in BOOLEAN
  BY DEF TypeOK, Cookie, Dead
<1>2. UNCHANGED <<users, tenants, sessions, clock, cookie, loggedOut>> /\ requests[r].at = "idle"
  BY DEF Send
<1>3. PICK body \in Bodies :
        requests' = Watched([requests EXCEPT ![r] = AsSent(body, token, Dead(token))], users)
  BY DEF Send, AsSent
<1> DEFINE rest == AsSent(body, token, Dead(token))
<1>4. rest \in Request /\ Sent(rest) /\ rest.token = token /\ rest.dead = Dead(token)
  BY <1>1, SentTyped
<1>5. requests' = Watched([requests EXCEPT ![r] = rest], users')
  BY <1>2, <1>3
<1>6. requests \in [Requests -> Request] /\ users' \in [DOMAIN users' -> User]
  BY <1>2 DEF TypeOK, TablesTyped
<1> HIDE DEF rest, token
<1>7. Becomes(r, rest)
  BY <1>4, <1>5, <1>6, WatchedBecomes
<1>8. rest.dead <=> Dead(rest.token)
  BY <1>4
<1> QED BY <1>2, <1>4, <1>7, <1>8

\* A response frees its request, and may set or clear the cookie.
LEMMA ReceiveDoes ==
    ASSUME TypeOK, UpToDate, NEW r \in Requests, Receive(r)
    PROVE  /\ UNCHANGED <<users, tenants, sessions, clock, loggedOut>>
           /\ cookie' \in Cookie \cup {None}
           /\ Becomes(r, Idle)
<1>1. UNCHANGED <<users, tenants, sessions, clock, loggedOut>> /\ requests' = [requests EXCEPT ![r] = Idle]
  BY DEF Receive
<1>2. requests \in [Requests -> Request]
  BY DEF TypeOK
<1>3. ~Watching(Idle)
  BY IdleTyped, ConstantsAssumption DEF Watching, Operations, Unauthenticated
<1>4. Becomes(r, Idle)
  BY <1>1, <1>2, <1>3, IdleTyped, ReadBecomes
<1>5. cookie' \in Cookie \cup {None}
  <2>1. requests[r].token \in Nat \cup {None} /\ clock + Ttl \in Int
    BY <1>2, ConstantsAssumption DEF Request, TypeOK
  <2> QED BY <2>1 DEF Receive, Cookie, TypeOK
<1> QED BY <1>1, <1>4, <1>5

-----------------------------------------------------------------------------
(* What every step keeps.                                                  *)

\* Rows are never removed, a revoked session stays revoked, time does not go
\* back.
TablesGrow ==
    /\ DOMAIN users \subseteq DOMAIN users' /\ DOMAIN sessions \subseteq DOMAIN sessions'
    /\ \A t \in DOMAIN sessions : /\ sessions'[t].expires_at = sessions[t].expires_at
                                  /\ sessions[t].revoked => sessions'[t].revoked
    /\ clock \in Int /\ clock' \in Int /\ clock <= clock'

OthersSame(r) == \A q \in Requests \ {r} : Same(requests'[q], requests[q])

\* A step is one of these.
LEMMA NextIs ==
    ASSUME [Next]_vars
    PROVE  \/ UNCHANGED vars \/ Tick
           \/ \E r \in Requests :
                 \/ Send(r) \/ Receive(r) \/ ResolveSession(r) \/ RegisterRead(r)
                 \/ LoginRead(r) \/ LogoutRead(r)
                 \/ GetProfile(r) \/ UpdateDisplayNameRead(r) \/ ChangePasswordRead(r)
                 \/ RegisterCommit(r) \/ LoginCommit(r) \/ LogoutCommit(r)
                 \/ UpdateDisplayNameCommit(r) \/ ChangePasswordCommit(r)
  BY DEF Next, Reading, Committing

\* The clock moves, and may drop the cookie.
LEMMA TickDoes ==
    ASSUME TypeOK, Tick
    PROVE  /\ UNCHANGED <<users, tenants, sessions, requests, loggedOut>>
           /\ clock' \in Nat /\ clock <= clock' /\ cookie' \in Cookie \cup {None}
  BY DEF TypeOK, Tick

\* A step that leaves the tables and the clock.
LEMMA UnchangedGrow ==
    ASSUME TypeOK, UNCHANGED <<users, sessions, clock>>
    PROVE  TablesGrow
  BY DEF TypeOK, TablesGrow

\* A row that is appended leaves the others.
LEMMA AppendedGrow ==
    ASSUME TypeOK, UNCHANGED clock,
           users' = users \/ \E k, v : Appended(users, users', k, v),
           sessions' = sessions \/ \E k, v : Appended(sessions, sessions', k, v)
    PROVE  TablesGrow
<1>1. DOMAIN users \subseteq DOMAIN users'
  BY DEF Appended
<1>2. DOMAIN sessions \subseteq DOMAIN sessions' /\ \A t \in DOMAIN sessions : sessions'[t] = sessions[t]
  BY DEF Appended
<1> QED BY <1>1, <1>2 DEF TablesGrow, TypeOK

\* Every step keeps the rows, and time goes on.
LEMMA StepGrows ==
    ASSUME SessionsInv, [Next]_vars
    PROVE  TablesGrow
<1> USE DEF SessionsInv
<1>1. CASE UNCHANGED vars
  BY <1>1, UnchangedGrow DEF vars
<1>2. CASE Tick
  BY <1>2, TickDoes DEF TablesGrow, TypeOK
<1>3. ASSUME NEW r \in Requests, Send(r) \/ Receive(r)
      PROVE  TablesGrow
  BY <1>3, SendDoes, ReceiveDoes, UnchangedGrow
<1>4. ASSUME NEW r \in Requests,
             \/ ResolveSession(r) \/ RegisterRead(r) \/ LoginRead(r) \/ LogoutRead(r)
             \/ GetProfile(r) \/ UpdateDisplayNameRead(r) \/ ChangePasswordRead(r)
      PROVE  TablesGrow
  <2>1. Read
    BY <1>4 DEF ResolveSession, RegisterRead, LoginRead, LogoutRead, GetProfile,
                UpdateDisplayNameRead, ChangePasswordRead
  <2> QED BY <2>1, UnchangedGrow DEF Read
<1>5. ASSUME NEW r \in Requests, RegisterCommit(r)
      PROVE  TablesGrow
  <2>1. RegisterCommit(r) => /\ UNCHANGED clock
                             /\ users' = users \/ \E k, v : Appended(users, users', k, v)
                             /\ sessions' = sessions \/ \E k, v : Appended(sessions, sessions', k, v)
    BY RegisterCommitDoes
  <2> QED BY <1>5, <2>1, AppendedGrow
<1>6. ASSUME NEW r \in Requests, LoginCommit(r)
      PROVE  TablesGrow
  <2>1. /\ UNCHANGED <<users, clock>>
        /\ sessions' = sessions \/ \E k, v : Appended(sessions, sessions', k, v)
    BY <1>6, LoginCommitDoes
  <2> QED BY <2>1, AppendedGrow
<1>7. ASSUME NEW r \in Requests, LogoutCommit(r)
      PROVE  TablesGrow
  <2>1. /\ UNCHANGED <<users, clock>>
        /\ UNCHANGED sessions \/ OnlyRevoked(requests[r].token)
    BY <1>7, LogoutCommitDoes
  <2> QED BY <2>1 DEF OnlyRevoked, TablesGrow, TypeOK
<1>8. ASSUME NEW r \in Requests, UpdateDisplayNameCommit(r) \/ ChangePasswordCommit(r)
      PROVE  TablesGrow
  <2>1. UNCHANGED <<sessions, clock>> /\ DOMAIN users' = DOMAIN users
    BY <1>8, UpdateCommitDoes DEF OnlyUpdated
  <2> QED BY <2>1 DEF TablesGrow, TypeOK
<1> QED BY <1>1, <1>2, <1>3, <1>4, <1>5, <1>6, <1>7, <1>8, NextIs

-----------------------------------------------------------------------------
(* One conjunct at a time.                                                 *)

\* A step keeps the types.
LEMMA TypeOKPreserved ==
    ASSUME SessionsInv, [Next]_vars
    PROVE  TypeOK'
<1> USE DEF SessionsInv
<1>1. CASE UNCHANGED vars
  BY <1>1 DEF vars, TypeOK, TablesTyped, Numbered
<1>2. CASE Tick
  BY <1>2, TickDoes DEF TypeOK, TablesTyped, Numbered
<1>3. ASSUME NEW r \in Requests, Send(r)
      PROVE  TypeOK'
  BY <1>3, SendDoes DEF Becomes, TypeOK, TablesTyped, Numbered
<1>4. ASSUME NEW r \in Requests, Receive(r)
      PROVE  TypeOK'
  BY <1>4, ReceiveDoes DEF Becomes, TypeOK, TablesTyped, Numbered
<1>5. ASSUME NEW r \in Requests,
             \/ ResolveSession(r) \/ RegisterRead(r) \/ LoginRead(r) \/ LogoutRead(r)
             \/ GetProfile(r) \/ UpdateDisplayNameRead(r) \/ ChangePasswordRead(r)
      PROVE  TypeOK'
  <2>1. Read /\ \E at, answer : Goes(r, at, answer)
    BY <1>5, ResolveDoes, RegisterReadDoes, LoginReadDoes, LogoutReadDoes, AuthenticatedReadDoes
  <2> QED BY <2>1 DEF Goes, Read, TypeOK, TablesTyped, Numbered
<1>6. ASSUME NEW r \in Requests,
             \/ RegisterCommit(r) \/ LoginCommit(r) \/ LogoutCommit(r)
             \/ UpdateDisplayNameCommit(r) \/ ChangePasswordCommit(r)
      PROVE  TypeOK'
  <2>1. TablesTyped' /\ UNCHANGED <<clock, cookie>> /\ Ended(r)
    BY <1>6, RegisterCommitDoes, LoginCommitDoes, LogoutCommitDoes, UpdateCommitDoes
  <2> QED BY <2>1 DEF Ended, Goes, TypeOK
<1> QED BY <1>1, <1>2, <1>3, <1>4, <1>5, <1>6, NextIs

\* A step shows a login in flight the passwords it stores.
LEMMA UpToDatePreserved ==
    ASSUME SessionsInv, [Next]_vars
    PROVE  UpToDate'
<1> USE DEF SessionsInv
<1>1. CASE UNCHANGED vars \/ Tick
  <2>1. UNCHANGED <<users, requests>>
    BY <1>1, TickDoes DEF vars
  <2> QED BY <2>1 DEF UpToDate
<1>2. ASSUME NEW r \in Requests, Send(r) \/ Receive(r)
      PROVE  UpToDate'
  BY <1>2, SendDoes, ReceiveDoes DEF Becomes
<1>3. ASSUME NEW r \in Requests,
             \/ ResolveSession(r) \/ RegisterRead(r) \/ LoginRead(r) \/ LogoutRead(r)
             \/ GetProfile(r) \/ UpdateDisplayNameRead(r) \/ ChangePasswordRead(r)
      PROVE  UpToDate'
  <2>1. \E at, answer : Goes(r, at, answer)
    BY <1>3, ResolveDoes, RegisterReadDoes, LoginReadDoes, LogoutReadDoes, AuthenticatedReadDoes
  <2> QED BY <2>1 DEF Goes
<1>4. ASSUME NEW r \in Requests,
             \/ RegisterCommit(r) \/ LoginCommit(r) \/ LogoutCommit(r)
             \/ UpdateDisplayNameCommit(r) \/ ChangePasswordCommit(r)
      PROVE  UpToDate'
  <2>1. Ended(r)
    BY <1>4, RegisterCommitDoes, LoginCommitDoes, LogoutCommitDoes, UpdateCommitDoes
  <2> QED BY <2>1 DEF Ended, Goes
<1> QED BY <1>1, <1>2, <1>3, <1>4, NextIs

\* Only a registration and an update write users.
LEMMA UsersDo ==
    ASSUME SessionsInv, [Next]_vars
    PROVE  \/ UNCHANGED users
           \/ \E r \in Requests :
                 \/ /\ ~AddressTaken(requests[r].email) /\ At(r, "register", "write")
                    /\ Appended(users, users', NewId, NewUser(r, NewId))
                 \/ /\ At(r, "profile", "write") /\ requests[r].user \in DOMAIN users
                    /\ OnlyUpdated(requests[r].user, users[requests[r].user].password,
                                   requests[r].name)
                 \/ /\ At(r, "change-password", "write") /\ requests[r].user \in DOMAIN users
                    /\ OnlyUpdated(requests[r].user, requests[r].new,
                                   users[requests[r].user].name)
<1> USE DEF SessionsInv
<1>1. CASE UNCHANGED vars
  BY <1>1 DEF vars
<1>2. CASE Tick
  BY <1>2, TickDoes
<1>3. ASSUME NEW r \in Requests, Send(r) \/ Receive(r)
      PROVE  UNCHANGED users
  BY <1>3, SendDoes, ReceiveDoes
<1>4. ASSUME NEW r \in Requests,
             \/ ResolveSession(r) \/ RegisterRead(r) \/ LoginRead(r) \/ LogoutRead(r)
             \/ GetProfile(r) \/ UpdateDisplayNameRead(r) \/ ChangePasswordRead(r)
      PROVE  UNCHANGED users
  BY <1>4 DEF ResolveSession, RegisterRead, LoginRead, LogoutRead, GetProfile,
              UpdateDisplayNameRead, ChangePasswordRead, Read
<1>5. ASSUME NEW r \in Requests, LoginCommit(r) \/ LogoutCommit(r)
      PROVE  UNCHANGED users
  BY <1>5, LoginCommitDoes, LogoutCommitDoes
<1>6. ASSUME NEW r \in Requests, RegisterCommit(r)
      PROVE  \/ UNCHANGED users
             \/ /\ ~AddressTaken(requests[r].email) /\ At(r, "register", "write")
                /\ Appended(users, users', NewId, NewUser(r, NewId))
  BY <1>6, RegisterCommitDoes
<1>7. ASSUME NEW r \in Requests, UpdateDisplayNameCommit(r) \/ ChangePasswordCommit(r)
      PROVE  \/ UNCHANGED users
             \/ /\ At(r, "profile", "write") /\ requests[r].user \in DOMAIN users
                /\ OnlyUpdated(requests[r].user, users[requests[r].user].password,
                               requests[r].name)
             \/ /\ At(r, "change-password", "write") /\ requests[r].user \in DOMAIN users
                /\ OnlyUpdated(requests[r].user, requests[r].new,
                               users[requests[r].user].name)
  BY <1>7, UpdateCommitDoes
<1> QED BY <1>1, <1>2, <1>3, <1>4, <1>5, <1>6, <1>7, NextIs

\* A step stores an address folded, and once.
LEMMA StoredFoldedPreserved ==
    ASSUME SessionsInv, [Next]_vars
    PROVE  StoredFolded'
<1> USE DEF SessionsInv
<1>1. CASE UNCHANGED users
  BY <1>1 DEF StoredFolded
<1>2. ASSUME NEW r \in Requests, ~AddressTaken(requests[r].email), At(r, "register", "write"),
             Appended(users, users', NewId, NewUser(r, NewId))
      PROVE  StoredFolded'
  <2>1. requests[r].email \in Addresses
    BY <1>2 DEF RequestShape, At
  <2>2. /\ users'[NewId].email = Fold[requests[r].email]
        /\ Fold[users'[NewId].email] = users'[NewId].email
    BY <1>2, <2>1, ConstantsAssumption DEF Appended, NewUser
  <2>3. \A u \in DOMAIN users : users'[u] = users[u] /\ users'[u].email # users'[NewId].email
    BY <1>2, <2>2 DEF Appended, AddressTaken, Account
  <2> QED BY <1>2, <2>2, <2>3 DEF StoredFolded, Appended
<1>3. ASSUME NEW id \in DOMAIN users, NEW password, NEW name, OnlyUpdated(id, password, name)
      PROVE  StoredFolded'
  <2>1. DOMAIN users' = DOMAIN users /\ \A u \in DOMAIN users : users'[u].email = users[u].email
    BY <1>3 DEF OnlyUpdated
  <2> QED BY <2>1 DEF StoredFolded
<1> QED BY <1>1, <1>2, <1>3, UsersDo

\* A step leaves an account whole, and a session in its tenant.
LEMMA RegisteredWholePreserved ==
    ASSUME SessionsInv, [Next]_vars
    PROVE  RegisteredWhole'
<1> USE DEF SessionsInv
<1>1. ASSUME UNCHANGED <<users, tenants, sessions>>
      PROVE  RegisteredWhole'
  BY <1>1 DEF RegisteredWhole
<1>2. CASE UNCHANGED vars \/ Tick
  BY <1>1, <1>2, TickDoes DEF vars
<1>3. ASSUME NEW r \in Requests, Send(r) \/ Receive(r)
      PROVE  RegisteredWhole'
  BY <1>1, <1>3, SendDoes, ReceiveDoes
<1>4. ASSUME NEW r \in Requests,
             \/ ResolveSession(r) \/ RegisterRead(r) \/ LoginRead(r) \/ LogoutRead(r)
             \/ GetProfile(r) \/ UpdateDisplayNameRead(r) \/ ChangePasswordRead(r)
      PROVE  RegisteredWhole'
  BY <1>1, <1>4 DEF ResolveSession, RegisterRead, LoginRead, LogoutRead, GetProfile,
                    UpdateDisplayNameRead, ChangePasswordRead, Read
<1>5. ASSUME NEW r \in Requests, RegisterCommit(r)
      PROVE  RegisteredWhole'
  <2>1. CASE /\ tenants' = tenants \cup {NewId}
             /\ Appended(users, users', NewId, NewUser(r, NewId))
             /\ Appended(sessions, sessions', Token, NewSession(NewId, NewId))
    <3>1. tenants' = DOMAIN users'
      BY <2>1 DEF RegisteredWhole, Appended
    <3>2. users'[NewId].tenant = NewId /\ \A u \in DOMAIN users : users'[u] = users[u]
      BY <2>1 DEF Appended, NewUser
    <3>3. /\ sessions'[Token].user = NewId /\ sessions'[Token].tenant = NewId
          /\ Token \in DOMAIN sessions'
          /\ \A t \in DOMAIN sessions : sessions'[t] = sessions[t] /\ t \in DOMAIN sessions'
      BY <2>1 DEF Appended, NewSession
    <3>4. DOMAIN users' = DOMAIN users \cup {NewId}
            /\ DOMAIN sessions' = DOMAIN sessions \cup {Token}
      BY <2>1 DEF Appended
    <3> QED BY <3>1, <3>2, <3>3, <3>4 DEF RegisteredWhole
  <2> QED BY <1>1, <1>5, <2>1, RegisterCommitDoes
<1>6. ASSUME NEW r \in Requests, LoginCommit(r)
      PROVE  RegisteredWhole'
  <2>1. CASE /\ UNCHANGED <<users, tenants>> /\ At(r, "login", "write")
             /\ Appended(sessions, sessions', Token,
                         NewSession(requests[r].user, requests[r].row.tenant))
    <3>1. /\ requests[r].user \in DOMAIN users
          /\ requests[r].row.tenant = requests[r].user
      BY <2>1 DEF RequestShape, At
    <3>2. /\ DOMAIN sessions' = DOMAIN sessions \cup {Token}
          /\ \A t \in DOMAIN sessions : sessions'[t] = sessions[t]
          /\ sessions'[Token].user = requests[r].user
          /\ sessions'[Token].tenant = requests[r].row.tenant
      BY <2>1 DEF Appended, NewSession
    <3> QED BY <2>1, <3>1, <3>2 DEF RegisteredWhole
  <2> QED BY <1>1, <1>6, <2>1, LoginCommitDoes
<1>7. ASSUME NEW r \in Requests, LogoutCommit(r)
      PROVE  RegisteredWhole'
  <2>1. CASE UNCHANGED <<users, tenants>> /\ OnlyRevoked(requests[r].token)
    BY <2>1 DEF OnlyRevoked, RegisteredWhole
  <2> QED BY <1>1, <1>7, <2>1, LogoutCommitDoes
<1>8. ASSUME NEW r \in Requests, UpdateDisplayNameCommit(r) \/ ChangePasswordCommit(r)
      PROVE  RegisteredWhole'
  <2>1. /\ UNCHANGED <<tenants, sessions>> /\ DOMAIN users' = DOMAIN users
        /\ \A u \in DOMAIN users : users'[u].tenant = users[u].tenant
    BY <1>8, UpdateCommitDoes DEF OnlyUpdated
  <2> QED BY <2>1 DEF RegisteredWhole
<1> QED BY <1>2, <1>3, <1>4, <1>5, <1>6, <1>7, <1>8, NextIs

\* What RequestShape says of one request, beside its input.
Located(q, theUsers, theSessions) ==
    /\ q.at \in InProgress => q.answer = None
    /\ q.at = "resolve" => q.op \in Authenticated
    /\ q.op \in Authenticated /\ q.at \in {"read", "write"} => q.user \in DOMAIN theUsers
    /\ q.op = "login" /\ q.at = "write" =>
          q.user \in DOMAIN theUsers /\ q.row \in User /\ q.row.tenant = q.user
    /\ q.op = "logout" /\ q.at = "write" => q.token \in DOMAIN theSessions

HasInput(q) ==
    /\ q.op \in {"register", "login"} => q.email \in Addresses /\ q.password \in Passwords
    /\ q.op = "change-password" => q.new \in Passwords
    /\ q.op = "profile" => q.name \in Names

\* RequestShape, request by request.
LEMMA ShapeIs ==
    /\ RequestShape <=> \A r \in Requests :
          HasInput(requests[r]) /\ Located(requests[r], users, sessions)
    /\ RequestShape' <=> \A r \in Requests :
          HasInput(requests'[r]) /\ Located(requests'[r], users', sessions')
  BY DEF RequestShape, HasInput, Located

\* The requests that did not move are where they were.
LEMMA SameShape ==
    ASSUME RequestShape, TablesGrow, NEW q \in Requests, Same(requests'[q], requests[q])
    PROVE  HasInput(requests'[q]) /\ Located(requests'[q], users', sessions')
<1>1. HasInput(requests[q]) /\ Located(requests[q], users, sessions)
  BY ShapeIs
<1> QED BY <1>1 DEF Same, SameInput, TablesGrow, HasInput, Located

\* A request that moves keeps its input.
LEMMA InputKept ==
    ASSUME RequestShape, NEW r \in Requests, SameInput(requests'[r], requests[r])
    PROVE  HasInput(requests'[r])
<1>1. HasInput(requests[r])
  BY ShapeIs
<1> QED BY <1>1 DEF SameInput, HasInput

\* A request that has its answer is nowhere.
LEMMA RepliedShape ==
    ASSUME RequestShape, TablesGrow, NEW r \in Requests, NEW answer, Goes(r, "reply", answer)
    PROVE  RequestShape'
<1>1. HasInput(requests'[r])
  BY InputKept DEF Goes
<1>2. Located(requests'[r], users', sessions')
  BY DEF Goes, Located, InProgress
<1>3. \A q \in Requests \ {r} : HasInput(requests'[q]) /\ Located(requests'[q], users', sessions')
  BY SameShape DEF Goes
<1> QED BY <1>1, <1>2, <1>3, ShapeIs

\* A request that goes on is where its operation says.
LEMMA WentOnShape ==
    ASSUME RequestShape, TablesGrow, NEW r \in Requests, NEW at \in {"read", "write"},
           Goes(r, at, None),
           requests[r].op \in Authenticated => requests'[r].user \in DOMAIN users',
           requests[r].op = "login" =>
              at = "write" /\ requests'[r].user \in DOMAIN users' /\ requests'[r].row \in User
                /\ requests'[r].row.tenant = requests'[r].user,
           requests[r].op = "logout" => requests'[r].token \in DOMAIN sessions'
    PROVE  RequestShape'
<1>1. HasInput(requests'[r])
  BY InputKept DEF Goes
<1>2. Located(requests'[r], users', sessions')
  BY DEF Goes, SameInput, Located, InProgress
<1>3. \A q \in Requests \ {r} : HasInput(requests'[q]) /\ Located(requests'[q], users', sessions')
  BY SameShape DEF Goes
<1> QED BY <1>1, <1>2, <1>3, ShapeIs

\* A step leaves a request with what its next one needs.
LEMMA RequestShapePreserved ==
    ASSUME SessionsInv, [Next]_vars
    PROVE  RequestShape'
<1> USE DEF SessionsInv
<1>0. TablesGrow
  BY StepGrows
<1>1. CASE UNCHANGED vars \/ Tick
  <2>1. UNCHANGED <<users, sessions, requests>>
    BY <1>1, TickDoes DEF vars
  <2> QED BY <2>1 DEF RequestShape
<1>2. ASSUME NEW r \in Requests, NEW rest \in Request, Becomes(r, rest), Sent(rest) \/ rest = Idle
      PROVE  RequestShape'
  <2>1. \A q \in Requests \ {r} : HasInput(requests'[q]) /\ Located(requests'[q], users', sessions')
    BY <1>0, <1>2, SameShape DEF Becomes
  <2>2. HasInput(rest) /\ Located(rest, users', sessions')
    <3>1. CASE Sent(rest)
      BY <3>1 DEF Sent, HasInput, Located, Operations, Unauthenticated, Authenticated
    <3>2. CASE rest = Idle
      BY <3>2, IdleTyped, ConstantsAssumption DEF HasInput, Located, InProgress,
                                                  Operations, Unauthenticated, Authenticated
    <3> QED BY <1>2, <3>1, <3>2
  <2>3. HasInput(requests'[r]) /\ Located(requests'[r], users', sessions')
    BY <1>2, <2>2 DEF Becomes, Same, SameInput, HasInput, Located
  <2> QED BY <2>1, <2>3, ShapeIs
<1>3. ASSUME NEW r \in Requests, Send(r) \/ Receive(r)
      PROVE  RequestShape'
  BY <1>2, <1>3, SendDoes, ReceiveDoes, IdleTyped
<1>4. ASSUME NEW r \in Requests, ResolveSession(r)
      PROVE  RequestShape'
  <2>1. CASE /\ requests[r].at = "resolve" /\ Read
             /\ Resolves(requests[r].token) /\ Goes(r, "read", None)
             /\ requests'[r].user = sessions[requests[r].token].user
    <3>1. requests'[r].user \in DOMAIN users'
      BY <2>1 DEF Resolves, RegisteredWhole, Read
    <3>2. requests[r].op \in Authenticated
      BY <2>1 DEF RequestShape
    <3>3. requests[r].op # "login" /\ requests[r].op # "logout"
      BY <3>2 DEF Authenticated
    <3> QED BY <1>0, <2>1, <3>1, <3>3, WentOnShape
  <2> QED BY <1>0, <1>4, <2>1, ResolveDoes, RepliedShape
<1>5. ASSUME NEW r \in Requests, RegisterRead(r)
      PROVE  RequestShape'
  <2>1. /\ requests[r].op \notin Authenticated
        /\ requests[r].op # "login" /\ requests[r].op # "logout"
    BY <1>5, RegisterReadDoes DEF At, Authenticated
  <2>2. Goes(r, "write", None) \/ Goes(r, "reply", "conflict")
    BY <1>5, RegisterReadDoes
  <2> QED BY <1>0, <2>1, <2>2, WentOnShape, RepliedShape
<1>6. ASSUME NEW r \in Requests, LoginRead(r)
      PROVE  RequestShape'
  <2>1. At(r, "login", "read") /\ Read
    BY <1>6, LoginReadDoes
  <2>2. requests[r].op = "login" /\ requests[r].op \notin Authenticated
    BY <2>1 DEF At, Authenticated
  <2>3. ASSUME NEW u \in Account(requests[r].email, users),
               Goes(r, "write", None), Brings(r, requests[r].token, u, users[u])
        PROVE  RequestShape'
    <3>1. u \in DOMAIN users' /\ users[u] \in User /\ users[u].tenant = u
      BY <2>1, RowsTyped DEF Read, Account, RegisteredWhole
    <3> QED BY <1>0, <2>2, <2>3, <3>1, WentOnShape DEF Brings
  <2> QED BY <1>0, <1>6, <2>3, LoginReadDoes, RepliedShape
<1>7. ASSUME NEW r \in Requests, LogoutRead(r)
      PROVE  RequestShape'
  <2>1. /\ requests[r].op \notin Authenticated /\ requests[r].op # "login"
        /\ UNCHANGED sessions /\ requests'[r].token = requests[r].token
    BY <1>7, LogoutReadDoes DEF At, Read, Authenticated
  <2>2. \/ requests[r].token \in DOMAIN sessions /\ Goes(r, "write", None)
        \/ Goes(r, "reply", "ok")
    BY <1>7, LogoutReadDoes
  <2> QED BY <1>0, <2>1, <2>2, WentOnShape, RepliedShape
<1>8. ASSUME NEW r \in Requests,
             GetProfile(r) \/ UpdateDisplayNameRead(r) \/ ChangePasswordRead(r)
      PROVE  RequestShape'
  <2>1. requests[r].op \in Authenticated /\ requests[r].at = "read" /\ UNCHANGED users
    BY <1>8, AuthenticatedReadDoes DEF Read
  <2>2. requests[r].user \in DOMAIN users /\ requests[r].op # "login" /\ requests[r].op # "logout"
    BY <2>1 DEF RequestShape, Authenticated
  <2>3. \/ Goes(r, "write", None) /\ requests'[r].user = requests[r].user
        \/ \E status \in Answers : Goes(r, "reply", status)
    BY <1>8, AuthenticatedReadDoes
  <2> QED BY <1>0, <2>1, <2>2, <2>3, WentOnShape, RepliedShape
<1>9. ASSUME NEW r \in Requests,
             \/ RegisterCommit(r) \/ LoginCommit(r) \/ LogoutCommit(r)
             \/ UpdateDisplayNameCommit(r) \/ ChangePasswordCommit(r)
      PROVE  RequestShape'
  <2>1. Ended(r)
    BY <1>9, RegisterCommitDoes, LoginCommitDoes, LogoutCommitDoes, UpdateCommitDoes
  <2> QED BY <1>0, <2>1, RepliedShape DEF Ended
<1> QED BY <1>1, <1>3, <1>4, <1>5, <1>6, <1>7, <1>8, <1>9, NextIs

\* A step that remembers a logout has revoked its session.
LEMMA LoggedOutIsRevokedPreserved ==
    ASSUME SessionsInv, [Next]_vars
    PROVE  LoggedOutIsRevoked'
<1> USE DEF SessionsInv
<1>0. TablesGrow
  BY StepGrows
<1>1. ASSUME loggedOut' = loggedOut
      PROVE  LoggedOutIsRevoked'
  BY <1>0, <1>1 DEF TablesGrow, LoggedOutIsRevoked
<1>2. CASE UNCHANGED vars \/ Tick
  BY <1>1, <1>2, TickDoes DEF vars
<1>3. ASSUME NEW r \in Requests, Send(r) \/ Receive(r)
      PROVE  LoggedOutIsRevoked'
  BY <1>1, <1>3, SendDoes, ReceiveDoes
<1>4. ASSUME NEW r \in Requests,
             \/ ResolveSession(r) \/ RegisterRead(r) \/ LoginRead(r) \/ LogoutRead(r)
             \/ GetProfile(r) \/ UpdateDisplayNameRead(r) \/ ChangePasswordRead(r)
      PROVE  LoggedOutIsRevoked'
  BY <1>1, <1>4 DEF ResolveSession, RegisterRead, LoginRead, LogoutRead, GetProfile,
                    UpdateDisplayNameRead, ChangePasswordRead, Read
<1>5. ASSUME NEW r \in Requests,
             \/ RegisterCommit(r) \/ LoginCommit(r)
             \/ UpdateDisplayNameCommit(r) \/ ChangePasswordCommit(r)
      PROVE  LoggedOutIsRevoked'
  BY <1>1, <1>5, RegisterCommitDoes, LoginCommitDoes, UpdateCommitDoes
<1>6. ASSUME NEW r \in Requests, LogoutCommit(r)
      PROVE  LoggedOutIsRevoked'
  <2>1. CASE /\ OnlyRevoked(requests[r].token)
             /\ loggedOut' \subseteq loggedOut \cup {requests[r].token}
    <3>1. requests[r].token \in DOMAIN sessions
      BY <1>6, LogoutCommitDoes DEF RequestShape, At
    <3> QED BY <2>1, <3>1 DEF OnlyRevoked, LoggedOutIsRevoked
  <2> QED BY <1>1, <1>6, <2>1, LogoutCommitDoes
<1> QED BY <1>2, <1>3, <1>4, <1>5, <1>6, NextIs

\* What has run out or was revoked stays so.
LEMMA RefusedStays ==
    ASSUME TypeOK, TablesGrow, NEW token, Refused(token, sessions, clock)
    PROVE  Refused(token, sessions', clock')
<1>1. token \in DOMAIN sessions /\ sessions[token].expires_at \in Int
  BY RowsTyped DEF Refused, Session
<1> QED BY <1>1 DEF Refused, TablesGrow

\* A request in flight keeps its input, and its token if it needs a session.
Keeps(r) ==
    /\ \A q \in Requests \ {r} : Same(requests'[q], requests[q])
    /\ SameInput(requests'[r], requests[r])
    /\ requests[r].op \in Authenticated => requests'[r].token = requests[r].token

\* A step does not revive a token.
LEMMA DeadStaysDeadPreserved ==
    ASSUME SessionsInv, [Next]_vars
    PROVE  DeadStaysDead'
<1> USE DEF SessionsInv
<1>0. TablesGrow
  BY StepGrows
<1>1. CASE UNCHANGED vars \/ Tick
  <2>1. UNCHANGED requests
    BY <1>1, TickDoes DEF vars
  <2> QED BY <1>0, <2>1, RefusedStays DEF DeadStaysDead
<1>2. ASSUME NEW r \in Requests, Keeps(r)
      PROVE  DeadStaysDead'
  <2>1. ASSUME NEW q \in Requests, requests'[q].op \in Authenticated, requests'[q].dead
        PROVE  Refused(requests'[q].token, sessions', clock')
    <3>1. /\ requests[q].op \in Authenticated /\ requests[q].dead
          /\ requests'[q].token = requests[q].token
      BY <1>2, <2>1 DEF Keeps, Same, SameInput
    <3> QED BY <1>0, <3>1, RefusedStays DEF DeadStaysDead
  <2> QED BY <2>1 DEF DeadStaysDead
<1>3. ASSUME NEW r \in Requests, NEW rest \in Request, Becomes(r, rest),
             rest.op \in Authenticated /\ rest.dead => Refused(rest.token, sessions', clock')
      PROVE  DeadStaysDead'
  <2>1. ASSUME NEW q \in Requests \ {r}, requests'[q].op \in Authenticated, requests'[q].dead
        PROVE  Refused(requests'[q].token, sessions', clock')
    <3>1. /\ requests[q].op \in Authenticated /\ requests[q].dead
          /\ requests'[q].token = requests[q].token
      BY <1>3, <2>1 DEF Becomes, Same, SameInput
    <3> QED BY <1>0, <3>1, RefusedStays DEF DeadStaysDead
  <2>2. requests'[r].op = rest.op /\ requests'[r].dead = rest.dead /\ requests'[r].token = rest.token
    BY <1>3 DEF Becomes, Same, SameInput
  <2>3. requests'[r].op \in Authenticated /\ requests'[r].dead => Refused(requests'[r].token, sessions', clock')
    BY <1>3, <2>2 DEF Refused
  <2> QED BY <2>1, <2>3 DEF DeadStaysDead
<1>4. ASSUME NEW r \in Requests, Send(r)
      PROVE  DeadStaysDead'
  <2>1. PICK rest \in Request : Becomes(r, rest) /\ Sent(rest) /\ (rest.dead <=> Dead(rest.token))
    BY <1>4, SendDoes
  <2>2. Dead(rest.token) => Refused(rest.token, sessions, clock)
    BY DEF Dead, Refused, LoggedOutIsRevoked
  <2> QED BY <1>0, <1>3, <2>1, <2>2, RefusedStays
<1>5. ASSUME NEW r \in Requests, Receive(r)
      PROVE  DeadStaysDead'
  BY <1>3, <1>5, ReceiveDoes, IdleTyped, ConstantsAssumption DEF Operations
<1>6. ASSUME NEW r \in Requests, ResolveSession(r)
      PROVE  DeadStaysDead'
  BY <1>2, <1>6, ResolveDoes DEF Goes, Keeps
<1>7. ASSUME NEW r \in Requests, RegisterRead(r) \/ LoginRead(r) \/ LogoutRead(r)
      PROVE  DeadStaysDead'
  <2>1. (\E at, answer : Goes(r, at, answer)) /\ requests[r].op \notin Authenticated
    BY <1>7, RegisterReadDoes, LoginReadDoes, LogoutReadDoes DEF At, Authenticated
  <2> QED BY <1>2, <2>1 DEF Goes, Keeps
<1>8. ASSUME NEW r \in Requests,
             GetProfile(r) \/ UpdateDisplayNameRead(r) \/ ChangePasswordRead(r)
      PROVE  DeadStaysDead'
  BY <1>2, <1>8, AuthenticatedReadDoes DEF Goes, Keeps
<1>9. ASSUME NEW r \in Requests, RegisterCommit(r) \/ LoginCommit(r) \/ LogoutCommit(r)
      PROVE  DeadStaysDead'
  <2>1. Ended(r) /\ requests[r].op \notin Authenticated
    BY <1>9, RegisterCommitDoes, LoginCommitDoes, LogoutCommitDoes DEF At, Authenticated
  <2> QED BY <1>2, <2>1 DEF Ended, Goes, Keeps
<1>10. ASSUME NEW r \in Requests, UpdateDisplayNameCommit(r) \/ ChangePasswordCommit(r)
      PROVE  DeadStaysDead'
  BY <1>2, <1>10, UpdateCommitDoes DEF Ended, Goes, Keeps
<1> QED BY <1>1, <1>4, <1>5, <1>6, <1>7, <1>8, <1>9, <1>10, NextIs

\* What DeadTokensAreRefused says of one request.
NotServed(q) ==
    q.op \in Authenticated /\ q.dead => q.at = "resolve" \/ q.answer = "not authenticated"

\* A step does not serve a request with a dead token.
LEMMA DeadTokensAreRefusedPreserved ==
    ASSUME SessionsInv, [Next]_vars
    PROVE  DeadTokensAreRefused'
<1> USE DEF SessionsInv
<1>0. /\ \A q \in Requests : NotServed(requests[q])
      /\ (\A q \in Requests : NotServed(requests'[q])) => DeadTokensAreRefused'
  BY DEF DeadTokensAreRefused, NotServed
<1>1. CASE UNCHANGED vars \/ Tick
  <2>1. UNCHANGED requests
    BY <1>1, TickDoes DEF vars
  <2> QED BY <1>0, <2>1
<1>2. ASSUME NEW r \in Requests, \A q \in Requests \ {r} : Same(requests'[q], requests[q]),
             NotServed(requests'[r])
      PROVE  DeadTokensAreRefused'
  <2>1. \A q \in Requests \ {r} : NotServed(requests'[q])
    BY <1>0, <1>2 DEF Same, SameInput, NotServed
  <2> QED BY <1>0, <1>2, <2>1
<1>3. ASSUME NEW r \in Requests, Send(r)
      PROVE  DeadTokensAreRefused'
  <2>1. PICK rest \in Request : Becomes(r, rest) /\ Sent(rest)
    BY <1>3, SendDoes
  <2>2. NotServed(requests'[r])
    BY <2>1 DEF Becomes, Same, SameInput, Sent, NotServed, Unauthenticated, Authenticated
  <2> QED BY <1>2, <2>1, <2>2 DEF Becomes
<1>4. ASSUME NEW r \in Requests, Receive(r)
      PROVE  DeadTokensAreRefused'
  <2>1. Becomes(r, Idle) /\ Idle.op \notin Authenticated
    BY <1>4, ReceiveDoes, IdleTyped, ConstantsAssumption DEF Operations
  <2> QED BY <1>2, <2>1 DEF Becomes, Same, SameInput, NotServed
<1>5. ASSUME NEW r \in Requests, ResolveSession(r)
      PROVE  DeadTokensAreRefused'
  <2>1. CASE Resolves(requests[r].token) /\ Goes(r, "read", None)
    <3>1. ~Refused(requests[r].token, sessions, clock)
      <4>1. sessions[requests[r].token].expires_at \in Int /\ clock \in Int
        BY <2>1, RowsTyped DEF Resolves, Session, TypeOK
      <4> QED BY <2>1, <4>1 DEF Resolves, Refused
    <3> QED BY <1>2, <2>1, <3>1 DEF DeadStaysDead, Goes, SameInput, NotServed
  <2>2. CASE Goes(r, "reply", "not authenticated")
    BY <1>2, <2>2 DEF Goes, NotServed
  <2> QED BY <1>5, <2>1, <2>2, ResolveDoes
<1>6. ASSUME NEW r \in Requests, \E at, answer : Goes(r, at, answer),
             requests[r].op \notin Authenticated \/ requests[r].at \in {"read", "write"}
      PROVE  DeadTokensAreRefused'
  <2>1. requests[r].op \notin Authenticated \/ ~requests[r].dead
    BY <1>0, <1>6, ConstantsAssumption DEF RequestShape, InProgress, NotServed, Answers
  <2> QED BY <1>2, <1>6, <2>1 DEF Goes, SameInput, NotServed
<1>7. ASSUME NEW r \in Requests, RegisterRead(r) \/ LoginRead(r) \/ LogoutRead(r)
      PROVE  DeadTokensAreRefused'
  BY <1>6, <1>7, RegisterReadDoes, LoginReadDoes, LogoutReadDoes DEF At
<1>8. ASSUME NEW r \in Requests,
             GetProfile(r) \/ UpdateDisplayNameRead(r) \/ ChangePasswordRead(r)
      PROVE  DeadTokensAreRefused'
  BY <1>6, <1>8, AuthenticatedReadDoes
<1>9. ASSUME NEW r \in Requests,
             \/ RegisterCommit(r) \/ LoginCommit(r) \/ LogoutCommit(r)
             \/ UpdateDisplayNameCommit(r) \/ ChangePasswordCommit(r)
      PROVE  DeadTokensAreRefused'
  <2>1. Ended(r) /\ requests[r].at = "write"
    BY <1>9, RegisterCommitDoes, LoginCommitDoes, LogoutCommitDoes, UpdateCommitDoes DEF At
  <2> QED BY <1>6, <2>1 DEF Ended
<1> QED BY <1>1, <1>3, <1>4, <1>5, <1>7, <1>8, <1>9, NextIs

\* What VerifiedIsSeen and LoginIsDecidedByThePassword say of one login.
Decided(q) ==
    q.op = "login" =>
       /\ q.answer = None /\ q.at = "write" => q.password \in q.seen
       /\ q.answer = "ok" => q.password \in q.seen
       /\ q.answer = "invalid credentials" => q.seen # {q.password}

\* A step grants and refuses a login by what it has seen.
LEMMA LoginsAreDecided ==
    ASSUME SessionsInv, [Next]_vars
    PROVE  VerifiedIsSeen' /\ LoginIsDecidedByThePassword'
<1> USE DEF SessionsInv
<1> DEFINE Goal == VerifiedIsSeen' /\ LoginIsDecidedByThePassword'
<1>0. /\ \A q \in Requests : Decided(requests[q])
      /\ (\A q \in Requests : Decided(requests'[q])) => Goal
  BY DEF VerifiedIsSeen, Watching, LoginIsDecidedByThePassword, Decided
<1> HIDE DEF Goal
<1>1. CASE UNCHANGED vars \/ Tick
  <2>1. UNCHANGED requests
    BY <1>1, TickDoes DEF vars
  <2> QED BY <1>0, <2>1 DEF Goal
<1>2. ASSUME NEW r \in Requests, \A q \in Requests \ {r} : Same(requests'[q], requests[q]),
             Decided(requests'[r])
      PROVE  Goal
  <2>1. ASSUME NEW q \in Requests \ {r}  PROVE Decided(requests'[q])
    <3>1. Decided(requests[q]) /\ Same(requests'[q], requests[q])
      BY <1>0, <1>2
    <3>2. CASE Watching(requests[q])
      BY <3>1, <3>2, ConstantsAssumption DEF Same, SameInput, Grows, Decided, Watching, Answers
    <3>3. CASE ~Watching(requests[q])
      BY <3>1, <3>3 DEF Same, SameInput, Grows, Decided, Watching
    <3> QED BY <3>2, <3>3
  <2> QED BY <1>0, <1>2, <2>1
<1>3. ASSUME NEW r \in Requests, NEW rest \in Request, Becomes(r, rest), Sent(rest) \/ rest = Idle
      PROVE  Goal
  <2>1. Decided(requests'[r])
    <3>1. CASE Sent(rest)
      BY <1>3, <3>1, ConstantsAssumption DEF Becomes, Same, SameInput, Sent, Decided,
                                             Unauthenticated, Answers
    <3>2. CASE rest = Idle
      BY <1>3, <3>2, IdleTyped, ConstantsAssumption DEF Becomes, Same, SameInput, Decided,
                                                        Operations, Unauthenticated
    <3> QED BY <1>3, <3>1, <3>2
  <2> QED BY <1>2, <1>3, <2>1 DEF Becomes
<1>4. ASSUME NEW r \in Requests, Send(r) \/ Receive(r)
      PROVE  Goal
  BY <1>3, <1>4, SendDoes, ReceiveDoes, IdleTyped
<1>5. ASSUME NEW r \in Requests, LoginRead(r)
      PROVE  Goal
  <2>1. At(r, "login", "read") /\ requests[r].answer = None /\ requests[r].password \in Passwords
    BY <1>5, LoginReadDoes DEF At, RequestShape, InProgress
  <2>2. StoredPassword(requests[r].email, users) \subseteq requests[r].seen
    BY <2>1 DEF At, UpToDate, Watching
  <2>3. ASSUME NEW u \in Account(requests[r].email, users),
               users[u].password = requests[r].password, Goes(r, "write", None)
        PROVE  Decided(requests'[r])
    <3>1. requests[r].password \in StoredPassword(requests[r].email, users)
      BY <2>3 DEF StoredPassword
    <3> QED BY <2>2, <2>3, <3>1, ConstantsAssumption DEF Goes, SameInput, Decided, Answers
  <2>4. ASSUME \A u \in Account(requests[r].email, users) :
                  users[u].password # requests[r].password,
               Goes(r, "reply", "invalid credentials")
        PROVE  Decided(requests'[r])
    <3>1. \E p \in StoredPassword(requests[r].email, users) : p # requests[r].password
      <4>1. CASE Account(requests[r].email, users) = {}
        BY <2>1, <4>1, ConstantsAssumption DEF StoredPassword
      <4>2. CASE Account(requests[r].email, users) # {}
        <5>1. PICK u \in Account(requests[r].email, users) : TRUE
          BY <4>2
        <5>2. users[u].password \in StoredPassword(requests[r].email, users)
          BY <4>2, <5>1 DEF StoredPassword
        <5> QED BY <2>4, <5>1, <5>2
      <4> QED BY <4>1, <4>2
    <3>2. requests[r].seen # {requests[r].password}
      BY <2>2, <3>1
    <3>3. requests'[r].seen = requests[r].seen
      BY <2>4, ConstantsAssumption DEF Goes, Answers
    <3> QED BY <2>4, <3>2, <3>3, ConstantsAssumption DEF Goes, SameInput, Decided, Answers
  <2>5. Decided(requests'[r]) /\ \A q \in Requests \ {r} : Same(requests'[q], requests[q])
    BY <1>5, <2>3, <2>4, LoginReadDoes DEF Goes
  <2> QED BY <1>2, <2>5
<1>6. ASSUME NEW r \in Requests, LoginCommit(r)
      PROVE  Goal
  <2>1. Ended(r) /\ At(r, "login", "write") /\ requests[r].answer = None
    BY <1>6, LoginCommitDoes DEF At, RequestShape, InProgress
  <2>2. requests[r].password \in requests[r].seen
    BY <2>1 DEF VerifiedIsSeen, Watching, At
  <2>3. Decided(requests'[r])
    BY <2>1, <2>2, ConstantsAssumption DEF Ended, Goes, SameInput, Decided, Answers
  <2> QED BY <1>2, <2>1, <2>3 DEF Ended, Goes
<1>7. ASSUME NEW r \in Requests, requests[r].op # "login", \E at, answer : Goes(r, at, answer)
      PROVE  Goal
  BY <1>2, <1>7 DEF Goes, SameInput, Decided
<1>8. ASSUME NEW r \in Requests, ResolveSession(r) \/ RegisterRead(r) \/ LogoutRead(r)
      PROVE  Goal
  BY <1>7, <1>8, ResolveDoes, RegisterReadDoes, LogoutReadDoes DEF At, RequestShape, Authenticated
<1>9. ASSUME NEW r \in Requests,
             GetProfile(r) \/ UpdateDisplayNameRead(r) \/ ChangePasswordRead(r)
      PROVE  Goal
  BY <1>7, <1>9, AuthenticatedReadDoes DEF Authenticated
<1>10. ASSUME NEW r \in Requests,
              \/ RegisterCommit(r) \/ LogoutCommit(r)
              \/ UpdateDisplayNameCommit(r) \/ ChangePasswordCommit(r)
      PROVE  Goal
  <2>1. Ended(r) /\ requests[r].op # "login"
    BY <1>10, RegisterCommitDoes, LogoutCommitDoes, UpdateCommitDoes DEF At, Authenticated
  <2> QED BY <1>7, <2>1 DEF Ended
<1> QED BY <1>1, <1>4, <1>5, <1>6, <1>8, <1>9, <1>10, NextIs DEF Goal

-----------------------------------------------------------------------------
(* The theorems.                                                           *)

\* It holds when nothing has happened.
LEMMA InitInv ==
    ASSUME Init
    PROVE  SessionsInv
<1>1. requests = [r \in Requests |-> Idle] /\ Idle \in Request /\ Idle.op \notin Operations
  BY IdleTyped, ConstantsAssumption DEF Init
<1>2. DOMAIN users = {} /\ DOMAIN sessions = {} /\ tenants = {} /\ loggedOut = {}
  BY DEF Init
<1>3. TypeOK
  <2>1. Numbered(users) /\ Numbered(sessions)
    <3>1. 0 \in Nat /\ 1 .. 0 = {}
      OBVIOUS
    <3> QED BY <1>2, <3>1 DEF Numbered
  <2>2. users \in [DOMAIN users -> User] /\ sessions \in [DOMAIN sessions -> Session]
    BY DEF Init
  <2> QED BY <1>1, <1>2, <2>1, <2>2 DEF Init, TypeOK, TablesTyped
<1>4. StoredFolded /\ RegisteredWhole /\ LoggedOutIsRevoked
  BY <1>2 DEF StoredFolded, RegisteredWhole, LoggedOutIsRevoked
<1>5. RequestShape
  BY <1>1, IdleTyped DEF RequestShape, InProgress, Operations, Unauthenticated, Authenticated
<1>6. DeadStaysDead /\ DeadTokensAreRefused
  BY <1>1 DEF DeadStaysDead, DeadTokensAreRefused, Operations
<1>7. UpToDate /\ VerifiedIsSeen /\ LoginIsDecidedByThePassword
  BY <1>1 DEF UpToDate, VerifiedIsSeen, LoginIsDecidedByThePassword, Watching,
              Operations, Unauthenticated
<1> QED BY <1>3, <1>4, <1>5, <1>6, <1>7 DEF SessionsInv

\* Every reachable state has the invariant: what the rows and the requests hold,
\* and how a session's end and an address's passwords reach the requests in flight.
THEOREM Invariance == Spec => []SessionsInv
<1>1. SessionsInv /\ [Next]_vars => SessionsInv'
  BY TypeOKPreserved, StoredFoldedPreserved, RegisteredWholePreserved, RequestShapePreserved,
     LoggedOutIsRevokedPreserved, DeadStaysDeadPreserved, DeadTokensAreRefusedPreserved,
     UpToDatePreserved, LoginsAreDecided DEF SessionsInv
<1> QED BY <1>1, InitInv, PTL DEF Spec

\* An address, however it is typed, has one account with its tenant and a
\* session, and no session crosses tenants, whoever registers it at the same
\* time and wherever a commit fails (service.py: register; uq_users_email).
THEOREM OneAccount == Spec => []OneAccountPerAddress
<1>1. SessionsInv => OneAccountPerAddress
  <2> SUFFICES ASSUME SessionsInv PROVE OneAccountPerAddress
    OBVIOUS
  <2>1. \A u, v \in DOMAIN users : Fold[users[u].email] = Fold[users[v].email] => u = v
    BY DEF SessionsInv, StoredFolded
  <2>2. tenants = {users[u].tenant : u \in DOMAIN users}
    BY DEF SessionsInv, RegisteredWhole
  <2>3. \A t \in DOMAIN sessions :
           /\ sessions[t].user \in DOMAIN users
           /\ sessions[t].tenant = users[sessions[t].user].tenant
    BY DEF SessionsInv, RegisteredWhole
  <2>4. \A u \in DOMAIN users : \E t \in DOMAIN sessions : sessions[t].user = u
    BY DEF SessionsInv, RegisteredWhole
  <2> QED BY <2>1, <2>2, <2>3, <2>4 DEF OneAccountPerAddress
<1> QED BY <1>1, Invariance, PTL

\* A token whose logout was answered, or that had run out when the request was
\* sent, serves no request (service.py: resolve_session, logout).
THEOREM LogoutIsFinal == Spec => []DeadTokensAreRefused
<1>1. SessionsInv => DeadTokensAreRefused
  BY DEF SessionsInv
<1> QED BY <1>1, Invariance, PTL

\* A login is granted for a password its address had while it was in flight, and
\* refused only if it had another one, or none, at some moment (service.py:
\* authenticate).
THEOREM LoginIsFair == Spec => []LoginIsDecidedByThePassword
<1>1. SessionsInv => LoginIsDecidedByThePassword
  BY DEF SessionsInv
<1> QED BY <1>1, Invariance, PTL

\* A name and a password change only by the commit of their own update, to its
\* value, whatever else is committed between its read and its write (tenants.py:
\* update_display_name, update_password_hash).
THEOREM UpdatesAreKept == Spec => UpdatesAreNotLost
<1> DEFINE Kept(u) ==
      /\ users'[u].password # users[u].password =>
            \E r \in Requests : /\ At(r, "change-password", "write")
                                /\ requests[r].user = u
                                /\ users'[u].password = requests[r].new
      /\ users'[u].name # users[u].name =>
            \E r \in Requests : /\ At(r, "profile", "write")
                                /\ requests[r].user = u
                                /\ users'[u].name = requests[r].name
<1>1. ASSUME SessionsInv, [Next]_vars, NEW u \in DOMAIN users
      PROVE  Kept(u)
  <2>1. CASE users'[u] = users[u]
    BY <2>1
  <2>2. ASSUME NEW r \in Requests, At(r, "profile", "write"), requests[r].user \in DOMAIN users,
               OnlyUpdated(requests[r].user, users[requests[r].user].password, requests[r].name)
        PROVE  Kept(u)
    BY <2>1, <2>2 DEF OnlyUpdated
  <2>3. ASSUME NEW r \in Requests, At(r, "change-password", "write"),
               requests[r].user \in DOMAIN users,
               OnlyUpdated(requests[r].user, requests[r].new, users[requests[r].user].name)
        PROVE  Kept(u)
    BY <2>1, <2>3 DEF OnlyUpdated
  <2>4. ASSUME NEW r \in Requests, Appended(users, users', NewId, NewUser(r, NewId))
        PROVE  users'[u] = users[u]
    BY <2>4 DEF Appended
  <2> HIDE DEF Kept
  <2> QED BY <1>1, <2>1, <2>2, <2>3, <2>4, UsersDo
<1>2. SessionsInv /\ [Next]_vars => [\A u \in DOMAIN users : Kept(u)]_vars
  BY <1>1
<1> QED BY <1>2, Invariance, PTL DEF Spec, UpdatesAreNotLost
=============================================================================
