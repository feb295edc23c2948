------------------------------ MODULE Accounts ------------------------------
(***************************************************************************)
(* Accounts and sessions (internal/user, internal/auth): requests that     *)
(* register, log in, or present a token to the middleware.  Registration   *)
(* is decided by the unique login of table users.  A token carries the     *)
(* user and the moment it expires; the server keeps nothing of it, so a    *)
(* restart does not end a session.                                         *)
(*                                                                         *)
(*   register  new -> insert -> token -> done                              *)
(*   log in    new -> select -> compare -> token -> done                   *)
(*   call      new -> done                                                 *)
(*                                                                         *)
(* External: bcrypt, whose hash matches the password it was made of (and   *)
(* others that begin with the same 72 bytes: the model has none), and the  *)
(* signature of a token, which only the server can make.  Time is a number *)
(* of ticks, a second has several.                                         *)
(*                                                                         *)
(* A definition marked "Variant" is a faulty form of the one after it, to  *)
(* show that a property notices the difference.  Nothing uses it.          *)
(***************************************************************************)
EXTENDS Integers

CONSTANTS
  Requests,
  Logins,
  Passwords,
  LongPasswords,  \* more than 72 bytes, which bcrypt does not hash
  Empty,          \* the empty login and the empty password
  Nothing,        \* a row, request or token that is not there
  TTL,            \* auth.ttl, in ticks
  Second,         \* ticks of a second
  MaxTime,        \* bound: the end of time
  MaxFaults       \* bound: failed calls and restarts of a behaviour

ASSUME TimeAssumption ==
  /\ TTL \in Nat /\ Second \in Nat \ {0} /\ MaxTime \in Nat /\ MaxFaults \in Nat
ASSUME PasswordsAssumption == LongPasswords \subseteq Passwords

AuthUserReq == [op : {"register", "login"}, login : Logins, password : Passwords]

\* The primary key of a row is named after the request that inserted it.  A
\* password stands for its hash.
User  == [id : Requests, login : Logins \ {Empty},
          password : Passwords \ (LongPasswords \union {Empty})]
Token == [sub : Requests, expires : Int]

ASSUME NothingAssumption == Nothing \notin AuthUserReq \union User \union Token

VARIABLES
  users,      \* the table, by login
  now,
  asked,      \* what a request that registers or logs in asks for
  bearer,     \* the token another request presents
  pc,
  row,        \* the user a request has inserted or read
  token,      \* the token it was answered with
  code,       \* the status it was answered with, 0 before
  at,         \* when
  faults

vars == <<users, now, asked, bearer, pc, row, token, code, at, faults>>

Reply(r, c) ==
  /\ pc'   = [pc EXCEPT ![r] = "done"]
  /\ code' = [code EXCEPT ![r] = c]
  /\ at'   = [at EXCEPT ![r] = now]

Continue(r, l) ==
  /\ pc' = [pc EXCEPT ![r] = l]
  /\ UNCHANGED <<code, at>>

Fail == faults < MaxFaults /\ faults' = faults + 1

Stored(l) == users[l] # Nothing

-----------------------------------------------------------------------------
\* Service.CreateUser and Service.GetByLogin look first for what is missing;
\* the password is hashed before the INSERT.
Incomplete(q) == q.login = Empty \/ q.password = Empty

\* Variant: without the check.
CreateUserUnchecked(r, q) ==
  /\ pc[r] = "new" /\ q.op = "register"
  /\ asked' = [asked EXCEPT ![r] = q]
  /\ IF q.password \in LongPasswords THEN Reply(r, 500) ELSE Continue(r, "insert")
  /\ UNCHANGED <<users, now, bearer, row, token, faults>>

CreateUser(r, q) ==
  /\ pc[r] = "new" /\ q.op = "register"
  /\ asked' = [asked EXCEPT ![r] = q]
  /\ IF Incomplete(q) THEN Reply(r, 400)
     ELSE IF q.password \in LongPasswords THEN Reply(r, 500)
     ELSE Continue(r, "insert")
  /\ UNCHANGED <<users, now, bearer, row, token, faults>>

AuthUser(r, q) ==
  /\ pc[r] = "new" /\ q.op = "login"
  /\ asked' = [asked EXCEPT ![r] = q]
  /\ IF Incomplete(q) THEN Reply(r, 401) ELSE Continue(r, "select")
  /\ UNCHANGED <<users, now, bearer, row, token, faults>>

NewUser(r) ==
  [id |-> r, login |-> asked[r].login, password |-> asked[r].password]

\* Variant: an upsert in the place of the INSERT.
InsertUserUnchecked(r) ==
  /\ pc[r] = "insert"
  /\ users' = [users EXCEPT ![asked[r].login] = NewUser(r)]
  /\ row' = [row EXCEPT ![r] = NewUser(r)]
  /\ Continue(r, "token")
  /\ UNCHANGED <<now, asked, bearer, token, faults>>

\* The INSERT adds the row, or violates the unique login.
InsertUser(r) ==
  /\ pc[r] = "insert"
  /\ IF Stored(asked[r].login)
     THEN Reply(r, 409) /\ UNCHANGED <<users, row>>
     ELSE /\ users' = [users EXCEPT ![asked[r].login] = NewUser(r)]
          /\ row' = [row EXCEPT ![r] = NewUser(r)]
          /\ Continue(r, "token")
  /\ UNCHANGED <<now, asked, bearer, token, faults>>

\* The INSERT fails, or takes effect and the service sees an error.
InsertFails(r) ==
  /\ pc[r] = "insert"
  /\ Fail
  /\ \/ UNCHANGED users
     \/ /\ ~Stored(asked[r].login)
        /\ users' = [users EXCEPT ![asked[r].login] = NewUser(r)]
  /\ Reply(r, 500)
  /\ UNCHANGED <<now, asked, bearer, row, token>>

SelectUser(r) ==
  /\ pc[r] = "select"
  /\ IF Stored(asked[r].login)
     THEN row' = [row EXCEPT ![r] = users[asked[r].login]] /\ Continue(r, "compare")
     ELSE Reply(r, 401) /\ UNCHANGED row
  /\ UNCHANGED <<users, now, asked, bearer, token, faults>>

\* Variant: the result of Compare is dropped.
CompareUnread(r) ==
  /\ pc[r] = "compare"
  /\ Continue(r, "token")
  /\ UNCHANGED <<users, now, asked, bearer, row, token, faults>>

Compare(r) ==
  /\ pc[r] = "compare"
  /\ IF row[r].password = asked[r].password THEN Continue(r, "token") ELSE Reply(r, 401)
  /\ UNCHANGED <<users, now, asked, bearer, row, token, faults>>

-----------------------------------------------------------------------------
\* jwt.NewNumericDate cuts a moment to whole seconds.
NumericDate(t) == t - (t % Second)

\* Variant: counted from the claim iat, which is cut already.
ExpiresAtFromClaim(t) == NumericDate(NumericDate(t) + TTL)

ExpiresAt(t) == NumericDate(t + TTL)

Generate(r) ==
  /\ pc[r] = "token"
  /\ token' = [token EXCEPT ![r] = [sub |-> row[r].id, expires |-> ExpiresAt(now)]]
  /\ Reply(r, 200)
  /\ UNCHANGED <<users, now, asked, bearer, row, faults>>

\* The SELECT or the signature fails.
SelectOrGenerateFails(r) ==
  /\ pc[r] \in {"select", "token"}
  /\ Fail
  /\ Reply(r, 500)
  /\ UNCHANGED <<users, now, asked, bearer, row, token>>

\* Variant: the expiry is not looked at.
ParseUntimed(t) == TRUE

Parse(t) == now < t.expires

\* The middleware, with a token that an earlier answer gave to a client.
Authenticate(r, t) ==
  /\ pc[r] = "new"
  /\ bearer' = [bearer EXCEPT ![r] = t]
  /\ Reply(r, IF Parse(t) THEN 200 ELSE 401)
  /\ UNCHANGED <<users, now, asked, row, token, faults>>

-----------------------------------------------------------------------------
Tick ==
  /\ now < MaxTime
  /\ now' = now + 1
  /\ UNCHANGED <<users, asked, bearer, pc, row, token, code, at, faults>>

\* Requests under way are never answered; rows and tokens stay good.
Restart ==
  /\ Fail
  /\ pc' = [r \in Requests |-> IF pc[r] = "new" THEN "new" ELSE "done"]
  /\ UNCHANGED <<users, now, asked, bearer, row, token, code, at>>

Init ==
  /\ users  = [l \in Logins |-> Nothing]
  /\ now    = 0
  /\ asked  = [r \in Requests |-> Nothing]
  /\ bearer = [r \in Requests |-> Nothing]
  /\ pc     = [r \in Requests |-> "new"]
  /\ row    = [r \in Requests |-> Nothing]
  /\ token  = [r \in Requests |-> Nothing]
  /\ code   = [r \in Requests |-> 0]
  /\ at     = [r \in Requests |-> 0]
  /\ faults = 0

Serve(r) ==
  \/ \E q \in AuthUserReq : CreateUser(r, q) \/ AuthUser(r, q)
  \/ InsertUser(r) \/ SelectUser(r) \/ Compare(r) \/ Generate(r)
  \/ \E q \in Requests : token[q] # Nothing /\ Authenticate(r, token[q])

Next ==
  \/ \E r \in Requests : Serve(r) \/ InsertFails(r) \/ SelectOrGenerateFails(r)
  \/ Tick
  \/ Restart

Spec == Init /\ [][Next]_vars

-----------------------------------------------------------------------------
\* Every variable has its type.
TypeOK ==
  /\ users  \in [Logins -> User \union {Nothing}]
  /\ now    \in 0 .. MaxTime
  /\ asked  \in [Requests -> AuthUserReq \union {Nothing}]
  /\ bearer \in [Requests -> Token \union {Nothing}]
  /\ pc     \in [Requests -> {"new", "insert", "select", "compare", "token", "done"}]
  /\ row    \in [Requests -> User \union {Nothing}]
  /\ token  \in [Requests -> Token \union {Nothing}]
  /\ code   \in [Requests -> {0, 200, 400, 401, 409, 500}]
  /\ at     \in [Requests -> Nat]
  /\ faults \in 0 .. MaxFaults

Matches(r, u) == asked[r].login = u.login /\ asked[r].password = u.password

Ended(r, op, c) == asked[r] # Nothing /\ asked[r].op = op /\ code[r] = c

\* Two registrations of a login never both succeed, at whatever time they run.
RegisteredOnce ==
  \A q, r \in Requests :
    Ended(q, "register", 200) /\ Ended(r, "register", 200)
      /\ asked[q].login = asked[r].login => q = r

\* An answer 200 brings a token of the user with the login and the password
\* given, also when the login was registered meanwhile by somebody else; 409
\* is told of a login that is taken; a user whose row was read is told 401
\* for another password only.
AnswersAreTrue ==
  \A r \in Requests : asked[r] # Nothing =>
    LET user == users[asked[r].login]
    IN  /\ code[r] = 200 => user # Nothing /\ Matches(r, user) /\ token[r].sub = user.id
        /\ code[r] = 409 => user # Nothing
        /\ code[r] = 401 /\ row[r] # Nothing => user # Nothing /\ ~Matches(r, user)

\* A request is served for a user only if that user's login and password were
\* given less than TTL before, whatever was restarted since.
ServedAfterLogin ==
  \A r \in Requests : bearer[r] # Nothing /\ code[r] = 200 =>
    \E q \in Requests :
      /\ asked[q] # Nothing /\ code[q] = 200
      /\ Stored(asked[q].login)
      /\ Matches(q, users[asked[q].login])
      /\ users[asked[q].login].id = bearer[r].sub
      /\ at[r] < at[q] + TTL

\* A token is refused a second before the end of its TTL at the earliest:
\* its expiry is a whole second.
SessionLasts ==
  \A q, r \in Requests :
    token[q] # Nothing /\ bearer[r] = token[q] /\ code[r] = 401 =>
      at[r] > at[q] + TTL - Second

-----------------------------------------------------------------------------
(* The inductive invariant.                                                  *)

\* What a request carries at each step.
RequestOK ==
  \A r \in Requests :
    /\ pc[r] = "new" => asked[r] = Nothing /\ bearer[r] = Nothing
    /\ pc[r] # "new" => (asked[r] = Nothing <=> bearer[r] # Nothing)
    /\ pc[r] \in {"insert", "select", "compare", "token"} => asked[r] # Nothing
    /\ pc[r] = "insert" => asked[r].op = "register" /\ NewUser(r) \in User
    /\ pc[r] \in {"select", "compare"} => asked[r].op = "login"
    /\ pc[r] # "done" => code[r] = 0
    /\ pc[r] \in {"compare", "token"} => row[r] # Nothing
    /\ row[r] # Nothing => asked[r] # Nothing
    /\ token[r] # Nothing <=> asked[r] # Nothing /\ code[r] = 200

\* A row that was inserted or read is still the row of its login.
RowIsCurrent ==
  /\ \A l \in Logins : Stored(l) => users[l].login = l
  /\ \A r \in Requests : row[r] # Nothing => row[r] = users[asked[r].login]
  /\ \A r \in Requests : pc[r] = "token" => row[r].password = asked[r].password

\* The one request that inserted a row.
Inserter(r) ==
  asked[r] # Nothing /\ asked[r].op = "register" /\ (pc[r] = "token" \/ code[r] = 200)

OneInserter ==
  \A r \in Requests : Inserter(r) => Stored(asked[r].login) /\ users[asked[r].login].id = r

\* A token expires within the second before its TTL is over.
TokenIsTimed ==
  \A r \in Requests :
    /\ token[r] # Nothing =>
         /\ token[r].expires =< at[r] + TTL
         /\ token[r].expires > at[r] + TTL - Second
    /\ bearer[r] # Nothing =>
         /\ \E q \in Requests : token[q] = bearer[r]
         /\ code[r] = IF at[r] < bearer[r].expires THEN 200 ELSE 401

IInv ==
  /\ TypeOK /\ RequestOK /\ AnswersAreTrue /\ RowIsCurrent /\ OneInserter /\ TokenIsTimed
=============================================================================
