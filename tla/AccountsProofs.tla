--------------------------- MODULE AccountsProofs ---------------------------
(***************************************************************************)
(* For any users, requests and times: a login is registered once, answers  *)
(* are true, and a session begins with its user's password and lasts for   *)
(* TTL, less a second at most.                                             *)
(***************************************************************************)
EXTENDS Accounts, TLAPS

\* Cutting to seconds takes less than a second away.
LEMMA NumericDateBounds ==
  ASSUME NEW t \in Int
  PROVE  NumericDate(t) \in Int /\ NumericDate(t) =< t /\ NumericDate(t) > t - Second
  BY TimeAssumption DEF NumericDate

-----------------------------------------------------------------------------
(* The invariant, request by request.                                        *)

Carries(r) ==
  /\ pc[r] = "new" => asked[r] = Nothing /\ bearer[r] = Nothing
  /\ pc[r] # "new" => (asked[r] = Nothing <=> bearer[r] # Nothing)
  /\ pc[r] \in {"insert", "select", "compare", "token"} => asked[r] # Nothing
  /\ pc[r] = "insert" => asked[r].op = "register" /\ NewUser(r) \in User
  /\ pc[r] \in {"select", "compare"} => asked[r].op = "login"
  /\ pc[r] # "done" => code[r] = 0
  /\ pc[r] \in {"compare", "token"} => row[r] # Nothing
  /\ row[r] # Nothing => asked[r] # Nothing
  /\ token[r] # Nothing <=> asked[r] # Nothing /\ code[r] = 200

AnswerIsTrue(r) == asked[r] # Nothing =>
  LET user == users[asked[r].login]
  IN  /\ code[r] = 200 => user # Nothing /\ Matches(r, user) /\ token[r].sub = user.id
      /\ code[r] = 409 => user # Nothing
      /\ code[r] = 401 /\ row[r] # Nothing => user # Nothing /\ ~Matches(r, user)

HasRow(r) ==
  /\ row[r] # Nothing => row[r] = users[asked[r].login]
  /\ pc[r] = "token" => row[r].password = asked[r].password
  /\ Inserter(r) => Stored(asked[r].login) /\ users[asked[r].login].id = r

IsTimed(r) ==
  /\ token[r] # Nothing =>
       /\ token[r].expires =< at[r] + TTL
       /\ token[r].expires > at[r] + TTL - Second
  /\ bearer[r] # Nothing =>
       /\ \E q \in Requests : token[q] = bearer[r]
       /\ code[r] = IF at[r] < bearer[r].expires THEN 200 ELSE 401

Good(r) == Carries(r) /\ AnswerIsTrue(r) /\ HasRow(r) /\ IsTimed(r)

RowsOK == \A l \in Logins : Stored(l) => users[l].login = l

LEMMA InvariantByRequest ==
  IInv <=> TypeOK /\ RowsOK /\ \A r \in Requests : Good(r)
  BY DEF IInv, RequestOK, AnswersAreTrue, RowIsCurrent, OneInserter, TokenIsTimed,
         RowsOK, Good, Carries, AnswerIsTrue, HasRow, IsTimed

THEOREM InitInvariant == Init => IInv
<1> SUFFICES ASSUME Init PROVE IInv
  OBVIOUS
<1>1. TypeOK
  BY TimeAssumption DEF Init, TypeOK
<1>2. RowsOK
  BY DEF Init, RowsOK, Stored
<1>3. ASSUME NEW r \in Requests PROVE Good(r)
  BY DEF Init, Good, Carries, AnswerIsTrue, HasRow, IsTimed, Inserter
<1>. QED  BY <1>1, <1>2, <1>3, InvariantByRequest

-----------------------------------------------------------------------------
\* No step changes a row or a token that is there.
Kept ==
  /\ \A l \in Logins : Stored(l) => users'[l] = users[l]
  /\ \A r \in Requests : token[r] # Nothing => token'[r] = token[r]

\* A request that a step leaves alone stays good.
Untouched(q) ==
  /\ asked'[q] = asked[q] /\ bearer'[q] = bearer[q] /\ pc'[q] = pc[q]
  /\ row'[q] = row[q] /\ token'[q] = token[q]
  /\ code'[q] = code[q] /\ at'[q] = at[q]

LEMMA Frame ==
  ASSUME IInv, Kept, NEW q \in Requests, Untouched(q)
  PROVE  Good(q)'
<1>1. Good(q)
  BY InvariantByRequest
<1>2. Carries(q)'
  BY <1>1 DEF Untouched, Good, Carries, NewUser
<1>3. asked[q] # Nothing => asked[q].login \in Logins
  BY DEF IInv, TypeOK, AuthUserReq
<1>4. AnswerIsTrue(q)'
  BY <1>1, <1>3 DEF Untouched, Good, AnswerIsTrue, Matches, Kept, Stored
<1>5. HasRow(q)'
  BY <1>1, <1>3 DEF Untouched, Good, Carries, HasRow, Inserter, Kept, Stored, IInv, TypeOK
<1>6. IsTimed(q)'
  BY <1>1 DEF Untouched, Good, IsTimed, Kept
<1>. QED  BY <1>2, <1>4, <1>5, <1>6 DEF Good

LEMMA Assemble ==
  ASSUME IInv, TypeOK', RowsOK', Kept, NEW r \in Requests, Good(r)',
         \A q \in Requests \ {r} : Untouched(q)
  PROVE  IInv'
<1>1. ASSUME NEW q \in Requests PROVE Good(q)'
  <2>1. CASE q = r  BY <2>1
  <2>2. CASE q # r  BY <2>2, Frame
  <2>. QED  BY <2>1, <2>2
<1>. QED
  BY <1>1 DEF IInv, RequestOK, AnswersAreTrue, RowIsCurrent, OneInserter, TokenIsTimed,
              RowsOK, Good, Carries, AnswerIsTrue, HasRow, IsTimed

\* What a step of request r may do besides: end it or continue it.
Moves(r) ==
  /\ \A q \in Requests \ {r} : Untouched(q)
  /\ UNCHANGED users \/ \E u \in User : ~Stored(u.login) /\ users' = [users EXCEPT ![u.login] = u]
  /\ UNCHANGED token \/ (token[r] = Nothing /\ \E t \in Token : token' = [token EXCEPT ![r] = t])

LEMMA MovesKeep ==
  ASSUME IInv, NEW r \in Requests, Moves(r)
  PROVE  Kept /\ RowsOK'
<1>1. ASSUME NEW l \in Logins, Stored(l) PROVE users'[l] = users[l]
  BY <1>1 DEF IInv, TypeOK, Moves, Stored
<1>2. ASSUME NEW q \in Requests, token[q] # Nothing PROVE token'[q] = token[q]
  BY <1>2 DEF IInv, TypeOK, Moves
<1>3. RowsOK
  BY InvariantByRequest
<1>4. ASSUME NEW l \in Logins, users'[l] # Nothing PROVE users'[l].login = l
  <2>1. CASE UNCHANGED users  BY <1>3, <1>4, <2>1 DEF RowsOK, Stored
  <2>2. ASSUME NEW u \in User, users' = [users EXCEPT ![u.login] = u] PROVE users'[l].login = l
    <3>1. users \in [Logins -> User \union {Nothing}] /\ u.login \in Logins
      BY DEF IInv, TypeOK, User
    <3>2. CASE l = u.login  BY <2>2, <3>1, <3>2
    <3>3. CASE l # u.login  BY <1>3, <1>4, <2>2, <3>1, <3>3 DEF RowsOK, Stored
    <3>. QED  BY <3>2, <3>3
  <2>. QED  BY <2>1, <2>2 DEF Moves
<1>. QED  BY <1>1, <1>2, <1>4 DEF Kept, RowsOK, Stored

-----------------------------------------------------------------------------
(* One lemma per action.                                                     *)

LEMMA CreateUserKeeps ==
  ASSUME IInv, NEW r \in Requests, NEW q \in AuthUserReq, CreateUser(r, q)
  PROVE  IInv'
<1>1. TypeOK'
  BY DEF IInv, TypeOK, CreateUser, Reply, Continue
<1>2. Moves(r)
  BY DEF IInv, TypeOK, CreateUser, Reply, Continue, Moves, Untouched
<1>3. /\ asked[r] = Nothing /\ bearer[r] = Nothing /\ code[r] = 0
      /\ row[r] = Nothing /\ token[r] = Nothing
  BY DEF IInv, RequestOK, CreateUser
<1>4. /\ asked'[r] = q /\ q # Nothing /\ q.op = "register"
      /\ UNCHANGED <<users, bearer, row, token>>
  BY NothingAssumption DEF IInv, TypeOK, CreateUser
<1>5. \/ pc'[r] = "done" /\ code'[r] \in {400, 500}
      \/ pc'[r] = "insert" /\ code'[r] = 0 /\ NewUser(r)' \in User
  <2>1. CASE Incomplete(q)
    BY <2>1 DEF IInv, TypeOK, CreateUser, Reply
  <2>2. CASE ~Incomplete(q) /\ q.password \in LongPasswords
    BY <2>2 DEF IInv, TypeOK, CreateUser, Reply
  <2>3. CASE ~Incomplete(q) /\ q.password \notin LongPasswords
    <3>1. pc'[r] = "insert" /\ code'[r] = 0
      BY <1>3, <2>3 DEF IInv, TypeOK, CreateUser, Continue
    <3>2. NewUser(r)' \in User
      BY <1>4, <2>3 DEF NewUser, User, AuthUserReq, Incomplete
    <3>. QED  BY <3>1, <3>2
  <2>. QED  BY <2>1, <2>2, <2>3
<1>6. Good(r)'
  BY <1>3, <1>4, <1>5 DEF Good, Carries, AnswerIsTrue, HasRow, IsTimed, Inserter
<1>. QED  BY <1>1, <1>2, <1>6, MovesKeep, Assemble DEF Moves

LEMMA AuthUserKeeps ==
  ASSUME IInv, NEW r \in Requests, NEW q \in AuthUserReq, AuthUser(r, q)
  PROVE  IInv'
<1>1. TypeOK'
  BY DEF IInv, TypeOK, AuthUser, Reply, Continue
<1>2. Moves(r)
  BY DEF IInv, TypeOK, AuthUser, Reply, Continue, Moves, Untouched
<1>3. /\ asked[r] = Nothing /\ bearer[r] = Nothing /\ code[r] = 0
      /\ row[r] = Nothing /\ token[r] = Nothing
  BY DEF IInv, RequestOK, AuthUser
<1>4. /\ asked'[r] = q /\ q # Nothing /\ q.op = "login"
      /\ UNCHANGED <<users, bearer, row, token>>
  BY NothingAssumption DEF IInv, TypeOK, AuthUser
<1>5. \/ pc'[r] = "done" /\ code'[r] = 401
      \/ pc'[r] = "select" /\ code'[r] = 0
  BY <1>3 DEF IInv, TypeOK, AuthUser, Reply, Continue
<1>6. Good(r)'
  BY <1>3, <1>4, <1>5 DEF Good, Carries, AnswerIsTrue, HasRow, IsTimed, Inserter
<1>. QED  BY <1>1, <1>2, <1>6, MovesKeep, Assemble DEF Moves

LEMMA InsertUserKeeps ==
  ASSUME IInv, NEW r \in Requests, InsertUser(r)
  PROVE  IInv'
<1>1. /\ asked[r] # Nothing /\ asked[r] \in AuthUserReq /\ asked[r].op = "register"
      /\ bearer[r] = Nothing /\ token[r] = Nothing /\ code[r] = 0
  BY DEF IInv, TypeOK, RequestOK, InsertUser
<1>2. NewUser(r) \in User /\ NewUser(r) # Nothing
  BY NothingAssumption DEF IInv, RequestOK, InsertUser
<1>3. /\ NewUser(r).login = asked[r].login /\ NewUser(r).password = asked[r].password
      /\ NewUser(r).id = r /\ asked[r].login \in Logins
  BY <1>1 DEF NewUser, AuthUserReq
<1>4. Good(r)
  BY InvariantByRequest
<1>5. UNCHANGED <<asked, bearer, token>>
  BY DEF InsertUser
<1>6. CASE Stored(asked[r].login)
  <2>1. /\ UNCHANGED <<users, row>>
        /\ pc' = [pc EXCEPT ![r] = "done"] /\ code' = [code EXCEPT ![r] = 409]
        /\ at' = [at EXCEPT ![r] = now] /\ UNCHANGED <<now, faults>>
    BY <1>6 DEF InsertUser, Reply
  <2>2. TypeOK'
    BY <1>5, <2>1 DEF IInv, TypeOK
  <2>3. Moves(r)
    BY <1>5, <2>1 DEF IInv, TypeOK, Moves, Untouched
  <2>4. pc'[r] = "done" /\ code'[r] = 409
    BY <2>1 DEF IInv, TypeOK
  <2>5. Good(r)'
    BY <1>1, <1>4, <1>5, <1>6, <2>1, <2>4
    DEF Good, Carries, AnswerIsTrue, HasRow, IsTimed, Inserter, Stored
  <2>. QED  BY <2>2, <2>3, <2>5, MovesKeep, Assemble DEF Moves
<1>7. CASE ~Stored(asked[r].login)
  <2>1. /\ users' = [users EXCEPT ![asked[r].login] = NewUser(r)]
        /\ row' = [row EXCEPT ![r] = NewUser(r)]
        /\ pc' = [pc EXCEPT ![r] = "token"] /\ UNCHANGED <<code, at, now, faults>>
    BY <1>7 DEF InsertUser, Continue
  <2>2. TypeOK'
    BY <1>2, <1>3, <1>5, <2>1 DEF IInv, TypeOK
  <2>3. \A q \in Requests \ {r} : Untouched(q)
    BY <1>5, <2>1 DEF IInv, TypeOK, Untouched
  <2>4. users' = [users EXCEPT ![NewUser(r).login] = NewUser(r)] /\ ~Stored(NewUser(r).login)
    BY <1>3, <1>7, <2>1
  <2>5. Moves(r)
    BY <1>2, <1>5, <2>3, <2>4 DEF Moves
  <2>6. /\ pc'[r] = "token" /\ code'[r] = 0 /\ row'[r] = NewUser(r)
        /\ users'[asked[r].login] = NewUser(r)
    BY <1>1, <1>3, <2>1 DEF IInv, TypeOK
  <2>7. Good(r)'
    BY <1>1, <1>2, <1>3, <1>5, <2>6
    DEF Good, Carries, AnswerIsTrue, HasRow, IsTimed, Inserter, Stored
  <2>. QED  BY <2>2, <2>5, <2>7, MovesKeep, Assemble DEF Moves
<1>. QED  BY <1>6, <1>7

LEMMA InsertFailsKeeps ==
  ASSUME IInv, NEW r \in Requests, InsertFails(r)
  PROVE  IInv'
<1>1. asked[r] # Nothing /\ asked[r] \in AuthUserReq /\ bearer[r] = Nothing /\ token[r] = Nothing
  BY DEF IInv, TypeOK, RequestOK, InsertFails
<1>2. /\ NewUser(r) \in User /\ NewUser(r).login = asked[r].login
      /\ asked[r].login \in Logins
  BY <1>1 DEF IInv, RequestOK, InsertFails, NewUser, AuthUserReq
<1>3. /\ pc' = [pc EXCEPT ![r] = "done"] /\ code' = [code EXCEPT ![r] = 500]
      /\ at' = [at EXCEPT ![r] = now] /\ UNCHANGED <<now, asked, bearer, row, token>>
  BY DEF InsertFails, Reply
<1>4. faults' \in 0 .. MaxFaults
  BY TimeAssumption DEF IInv, TypeOK, InsertFails, Fail
<1>5. \/ UNCHANGED users
      \/ ~Stored(asked[r].login) /\ users' = [users EXCEPT ![asked[r].login] = NewUser(r)]
  BY DEF InsertFails
<1>6. users' \in [Logins -> User \union {Nothing}]
  BY <1>2, <1>5 DEF IInv, TypeOK
<1>7. TypeOK'
  BY <1>3, <1>4, <1>6 DEF IInv, TypeOK
<1>8. \A q \in Requests \ {r} : Untouched(q)
  BY <1>3 DEF IInv, TypeOK, Untouched
<1>9. Moves(r)
  BY <1>2, <1>3, <1>5, <1>8 DEF Moves
<1>10. pc'[r] = "done" /\ code'[r] = 500
  BY <1>3 DEF IInv, TypeOK
<1>11. Kept /\ RowsOK'
  BY <1>9, MovesKeep
<1>12. HasRow(r)'
  <2>1. HasRow(r)
    BY InvariantByRequest DEF Good
  <2>2. row[r] # Nothing => Stored(asked[r].login)
    BY <2>1 DEF HasRow, Stored
  <2>. QED  BY <1>2, <1>3, <1>10, <1>11, <2>1, <2>2 DEF HasRow, Kept, Inserter
<1>13. Good(r)'
  BY <1>1, <1>3, <1>10, <1>12, InvariantByRequest DEF Good, Carries, AnswerIsTrue, IsTimed
<1>. QED  BY <1>7, <1>8, <1>11, <1>13, Assemble

LEMMA SelectUserKeeps ==
  ASSUME IInv, NEW r \in Requests, SelectUser(r)
  PROVE  IInv'
<1>1. /\ asked[r] # Nothing /\ asked[r] \in AuthUserReq /\ asked[r].op = "login"
      /\ bearer[r] = Nothing /\ token[r] = Nothing /\ code[r] = 0
      /\ asked[r].login \in Logins
  BY DEF IInv, TypeOK, RequestOK, SelectUser, AuthUserReq
<1>2. UNCHANGED <<users, now, asked, bearer, token, faults>>
  BY DEF SelectUser
<1>3. Good(r)
  BY InvariantByRequest
<1>4. CASE Stored(asked[r].login)
  <2>1. /\ row' = [row EXCEPT ![r] = users[asked[r].login]]
        /\ pc' = [pc EXCEPT ![r] = "compare"] /\ UNCHANGED <<code, at>>
    BY <1>4 DEF SelectUser, Continue
  <2>2. TypeOK'
    BY <1>1, <1>2, <2>1 DEF IInv, TypeOK
  <2>3. Moves(r)
    BY <1>2, <2>1 DEF IInv, TypeOK, Moves, Untouched
  <2>4. pc'[r] = "compare" /\ row'[r] = users[asked[r].login] /\ row'[r] # Nothing
    BY <1>4, <2>1 DEF IInv, TypeOK, Stored
  <2>5. Good(r)'
    BY <1>1, <1>2, <2>1, <2>4
    DEF Good, Carries, AnswerIsTrue, HasRow, IsTimed, Inserter
  <2>. QED  BY <2>2, <2>3, <2>5, MovesKeep, Assemble DEF Moves
<1>5. CASE ~Stored(asked[r].login)
  <2>1. /\ UNCHANGED row /\ pc' = [pc EXCEPT ![r] = "done"]
        /\ code' = [code EXCEPT ![r] = 401] /\ at' = [at EXCEPT ![r] = now]
    BY <1>5 DEF SelectUser, Reply
  <2>2. TypeOK'
    BY <1>2, <2>1 DEF IInv, TypeOK
  <2>3. Moves(r)
    BY <1>2, <2>1 DEF IInv, TypeOK, Moves, Untouched
  <2>4. pc'[r] = "done" /\ code'[r] = 401
    BY <2>1 DEF IInv, TypeOK
  <2>5. row[r] = Nothing
    BY <1>3, <1>5 DEF Good, HasRow, Stored
  <2>6. Good(r)'
    BY <1>1, <1>2, <2>1, <2>4, <2>5
    DEF Good, Carries, AnswerIsTrue, HasRow, IsTimed, Inserter
  <2>. QED  BY <2>2, <2>3, <2>6, MovesKeep, Assemble DEF Moves
<1>. QED  BY <1>4, <1>5

LEMMA CompareKeeps ==
  ASSUME IInv, NEW r \in Requests, Compare(r)
  PROVE  IInv'
<1>1. /\ asked[r] # Nothing /\ asked[r] \in AuthUserReq /\ asked[r].op = "login"
      /\ bearer[r] = Nothing /\ token[r] = Nothing /\ code[r] = 0 /\ row[r] # Nothing
  BY DEF IInv, TypeOK, RequestOK, Compare
<1>2. UNCHANGED <<users, now, asked, bearer, row, token, faults>>
  BY DEF Compare
<1>3. row[r] = users[asked[r].login]
  BY <1>1 DEF IInv, RowIsCurrent
<1>4. CASE row[r].password = asked[r].password
  <2>1. pc' = [pc EXCEPT ![r] = "token"] /\ UNCHANGED <<code, at>>
    BY <1>4 DEF Compare, Continue
  <2>2. TypeOK'
    BY <1>2, <2>1 DEF IInv, TypeOK
  <2>3. Moves(r)
    BY <1>2, <2>1 DEF IInv, TypeOK, Moves, Untouched
  <2>4. pc'[r] = "token"
    BY <2>1 DEF IInv, TypeOK
  <2>5. Good(r)'
    BY <1>1, <1>2, <1>3, <1>4, <2>1, <2>4
    DEF Good, Carries, AnswerIsTrue, HasRow, IsTimed, Inserter
  <2>. QED  BY <2>2, <2>3, <2>5, MovesKeep, Assemble DEF Moves
<1>5. CASE row[r].password # asked[r].password
  <2>1. /\ pc' = [pc EXCEPT ![r] = "done"] /\ code' = [code EXCEPT ![r] = 401]
        /\ at' = [at EXCEPT ![r] = now]
    BY <1>5 DEF Compare, Reply
  <2>2. TypeOK'
    BY <1>2, <2>1 DEF IInv, TypeOK
  <2>3. Moves(r)
    BY <1>2, <2>1 DEF IInv, TypeOK, Moves, Untouched
  <2>4. pc'[r] = "done" /\ code'[r] = 401
    BY <2>1 DEF IInv, TypeOK
  <2>5. Good(r)'
    BY <1>1, <1>2, <1>3, <1>5, <2>1, <2>4
    DEF Good, Carries, AnswerIsTrue, HasRow, IsTimed, Inserter, Matches
  <2>. QED  BY <2>2, <2>3, <2>5, MovesKeep, Assemble DEF Moves
<1>. QED  BY <1>4, <1>5

LEMMA GenerateKeeps ==
  ASSUME IInv, NEW r \in Requests, Generate(r)
  PROVE  IInv'
<1> DEFINE t == [sub |-> row[r].id, expires |-> ExpiresAt(now)]
<1>1. /\ asked[r] # Nothing /\ asked[r] \in AuthUserReq
      /\ bearer[r] = Nothing /\ token[r] = Nothing /\ code[r] = 0
      /\ row[r] # Nothing /\ row[r] \in User
  BY DEF IInv, TypeOK, RequestOK, Generate
<1>2. /\ row[r] = users[asked[r].login] /\ row[r].password = asked[r].password
      /\ asked[r].login \in Logins /\ row[r].login = asked[r].login
  BY <1>1 DEF IInv, RowIsCurrent, Generate, AuthUserReq, Stored
<1>3. /\ ExpiresAt(now) \in Int /\ ExpiresAt(now) =< now + TTL
      /\ ExpiresAt(now) > now + TTL - Second
  BY NumericDateBounds, TimeAssumption DEF IInv, TypeOK, ExpiresAt
<1>4. t \in Token /\ t # Nothing /\ t.sub = row[r].id /\ t.expires = ExpiresAt(now)
  BY <1>1, <1>3, NothingAssumption DEF Token, User
<1>5. /\ token' = [token EXCEPT ![r] = t]
      /\ pc' = [pc EXCEPT ![r] = "done"] /\ code' = [code EXCEPT ![r] = 200]
      /\ at' = [at EXCEPT ![r] = now]
      /\ UNCHANGED <<users, now, asked, bearer, row, faults>>
  BY DEF Generate, Reply
<1> HIDE DEF t
<1>6. TypeOK'
  BY <1>4, <1>5 DEF IInv, TypeOK
<1>7. \A q \in Requests \ {r} : Untouched(q)
  BY <1>5 DEF IInv, TypeOK, Untouched
<1>8. Moves(r)
  BY <1>1, <1>4, <1>5, <1>7 DEF Moves
<1>9. pc'[r] = "done" /\ code'[r] = 200 /\ token'[r] = t /\ at'[r] = now
  BY <1>5 DEF IInv, TypeOK
<1>10. Carries(r)' /\ AnswerIsTrue(r)'
  BY <1>1, <1>2, <1>4, <1>5, <1>9 DEF Carries, AnswerIsTrue, Matches
<1>11. HasRow(r)'
  <2>1. Inserter(r)' => Inserter(r)
    BY <1>5 DEF Inserter, Generate
  <2>. QED  BY <1>5, <1>9, <2>1, InvariantByRequest DEF Good, HasRow, Stored
<1>12. IsTimed(r)'
  BY <1>1, <1>3, <1>4, <1>5, <1>9 DEF IsTimed
<1>. QED  BY <1>6, <1>8, <1>10, <1>11, <1>12, MovesKeep, Assemble DEF Moves, Good

LEMMA SelectOrGenerateFailsKeeps ==
  ASSUME IInv, NEW r \in Requests, SelectOrGenerateFails(r)
  PROVE  IInv'
<1>1. /\ asked[r] # Nothing /\ asked[r] \in AuthUserReq
      /\ bearer[r] = Nothing /\ token[r] = Nothing /\ code[r] = 0
  BY DEF IInv, TypeOK, RequestOK, SelectOrGenerateFails
<1>2. /\ pc' = [pc EXCEPT ![r] = "done"] /\ code' = [code EXCEPT ![r] = 500]
      /\ at' = [at EXCEPT ![r] = now]
      /\ UNCHANGED <<users, now, asked, bearer, row, token>>
  BY DEF SelectOrGenerateFails, Reply
<1>3. faults' \in 0 .. MaxFaults
  BY TimeAssumption DEF IInv, TypeOK, SelectOrGenerateFails, Fail
<1>4. TypeOK'
  BY <1>2, <1>3 DEF IInv, TypeOK
<1>5. Moves(r)
  BY <1>2 DEF IInv, TypeOK, Moves, Untouched
<1>6. pc'[r] = "done" /\ code'[r] = 500
  BY <1>2 DEF IInv, TypeOK
<1>7. Good(r)'
  BY <1>1, <1>2, <1>6, InvariantByRequest
  DEF Good, Carries, AnswerIsTrue, HasRow, IsTimed, Inserter
<1>. QED  BY <1>4, <1>5, <1>7, MovesKeep, Assemble DEF Moves

LEMMA AuthenticateKeeps ==
  ASSUME IInv, NEW r \in Requests, NEW q \in Requests, token[q] # Nothing,
         Authenticate(r, token[q])
  PROVE  IInv'
<1>1. asked[r] = Nothing /\ bearer[r] = Nothing /\ token[r] = Nothing /\ row[r] = Nothing
  BY DEF IInv, RequestOK, Authenticate
<1>2. token[q] \in Token /\ token[q].expires \in Int
  BY DEF IInv, TypeOK, Token
<1>3. /\ bearer' = [bearer EXCEPT ![r] = token[q]]
      /\ pc' = [pc EXCEPT ![r] = "done"]
      /\ code' = [code EXCEPT ![r] = IF now < token[q].expires THEN 200 ELSE 401]
      /\ at' = [at EXCEPT ![r] = now]
      /\ UNCHANGED <<users, now, asked, row, token, faults>>
  BY DEF Authenticate, Reply, Parse
<1>4. TypeOK'
  BY <1>2, <1>3 DEF IInv, TypeOK
<1>5. Moves(r)
  BY <1>3 DEF IInv, TypeOK, Moves, Untouched
<1>6. /\ pc'[r] = "done" /\ bearer'[r] = token[q] /\ at'[r] = now
      /\ code'[r] = IF now < token[q].expires THEN 200 ELSE 401
  BY <1>3 DEF IInv, TypeOK
<1>7. Good(r)'
  BY <1>1, <1>3, <1>6 DEF Good, Carries, AnswerIsTrue, HasRow, IsTimed, Inserter
<1>. QED  BY <1>4, <1>5, <1>7, MovesKeep, Assemble DEF Moves

LEMMA RestartKeeps ==
  ASSUME IInv, Restart
  PROVE  IInv'
<1>1. /\ pc' = [r \in Requests |-> IF pc[r] = "new" THEN "new" ELSE "done"]
      /\ UNCHANGED <<users, now, asked, bearer, row, token, code, at>>
  BY DEF Restart
<1>2. faults' \in 0 .. MaxFaults
  BY TimeAssumption DEF IInv, TypeOK, Restart, Fail
<1>3. TypeOK'
  BY <1>1, <1>2 DEF IInv, TypeOK
<1>4. RowsOK'
  BY <1>1, InvariantByRequest DEF RowsOK, Stored
<1>5. ASSUME NEW r \in Requests PROVE Good(r)'
  <2>1. Good(r)
    BY InvariantByRequest
  <2>2. pc'[r] = IF pc[r] = "new" THEN "new" ELSE "done"
    BY <1>1
  <2>3. Carries(r)'
    <3>1. CASE pc[r] = "new"  BY <1>1, <2>1, <2>2, <3>1 DEF Good, Carries
    <3>2. CASE pc[r] # "new"  BY <1>1, <2>1, <2>2, <3>2 DEF Good, Carries
    <3>. QED  BY <3>1, <3>2
  <2>4. AnswerIsTrue(r)' /\ IsTimed(r)'
    BY <1>1, <2>1 DEF Good, AnswerIsTrue, IsTimed, Matches
  <2>5. HasRow(r)'
    BY <1>1, <2>1, <2>2 DEF Good, HasRow, Inserter, Stored
  <2>. QED  BY <2>3, <2>4, <2>5 DEF Good
<1>. QED
  BY <1>3, <1>4, <1>5 DEF IInv, RequestOK, AnswersAreTrue, RowIsCurrent, OneInserter,
     TokenIsTimed, RowsOK, Good, Carries, AnswerIsTrue, HasRow, IsTimed

\* A step that moves no request.
LEMMA IdleKeeps ==
  ASSUME IInv, TypeOK', UNCHANGED <<users, asked, bearer, pc, row, token, code, at>>
  PROVE  IInv'
<1>1. Kept /\ \A r \in Requests : Untouched(r)
  BY DEF Kept, Untouched
<1>2. RowsOK'
  BY InvariantByRequest DEF RowsOK, Stored
<1>3. \A r \in Requests : Good(r)'
  BY <1>1, Frame
<1>. QED
  BY <1>2, <1>3 DEF IInv, RequestOK, AnswersAreTrue, RowIsCurrent, OneInserter,
     TokenIsTimed, RowsOK, Good, Carries, AnswerIsTrue, HasRow, IsTimed

THEOREM StepInvariant == IInv /\ [Next]_vars => IInv'
<1> SUFFICES ASSUME IInv, [Next]_vars PROVE IInv'
  OBVIOUS
<1>1. ASSUME NEW r \in Requests, Serve(r) PROVE IInv'
  BY <1>1, CreateUserKeeps, AuthUserKeeps, InsertUserKeeps, SelectUserKeeps, CompareKeeps,
     GenerateKeeps, AuthenticateKeeps DEF Serve
<1>2. ASSUME NEW r \in Requests, InsertFails(r) \/ SelectOrGenerateFails(r) PROVE IInv'
  BY <1>2, InsertFailsKeeps, SelectOrGenerateFailsKeeps
<1>3. CASE Tick
  <2>1. TypeOK'
    BY <1>3, TimeAssumption DEF IInv, TypeOK, Tick
  <2>. QED  BY <1>3, <2>1, IdleKeeps DEF Tick
<1>4. CASE Restart
  BY <1>4, RestartKeeps
<1>5. CASE UNCHANGED vars
  <2>1. TypeOK'
    BY <1>5 DEF IInv, TypeOK, vars
  <2>. QED  BY <1>5, <2>1, IdleKeeps DEF vars
<1>. QED  BY <1>1, <1>2, <1>3, <1>4, <1>5 DEF Next

-----------------------------------------------------------------------------
\* The invariant holds in every state, whatever fails or is restarted.
THEOREM Invariance == Spec => []IInv
  BY InitInvariant, StepInvariant, PTL DEF Spec

\* Every variable keeps its type.
THEOREM TypeCorrect == Spec => []TypeOK
<1>1. IInv => TypeOK
  BY DEF IInv
<1>. QED  BY <1>1, Invariance, PTL

\* Of the registrations of a login, in any interleaving of InsertUser, at most
\* one is answered 200: both would have to be the inserter of the same row.
THEOREM RegistrationIsUnique == Spec => []RegisteredOnce
<1>1. IInv => RegisteredOnce
  <2> SUFFICES ASSUME IInv, NEW q \in Requests, NEW r \in Requests,
                      Ended(q, "register", 200), Ended(r, "register", 200),
                      asked[q].login = asked[r].login
               PROVE  q = r
    BY DEF RegisteredOnce
  <2>1. users[asked[q].login].id = q /\ users[asked[r].login].id = r
    BY DEF IInv, OneInserter, Inserter, Ended
  <2>. QED  BY <2>1
<1>. QED  BY <1>1, Invariance, PTL

\* 200, 401 and 409 say the truth about the row of the login that was asked for.
THEOREM AnswersCorrect == Spec => []AnswersAreTrue
<1>1. IInv => AnswersAreTrue
  BY DEF IInv
<1>. QED  BY <1>1, Invariance, PTL

\* The middleware serves nobody whose password was not given less than TTL ago.
THEOREM LoginComesFirst == Spec => []ServedAfterLogin
<1>1. IInv => ServedAfterLogin
  <2> SUFFICES ASSUME IInv, NEW r \in Requests, bearer[r] # Nothing, code[r] = 200
               PROVE  \E q \in Requests :
                        /\ asked[q] # Nothing /\ code[q] = 200
                        /\ Stored(asked[q].login)
                        /\ Matches(q, users[asked[q].login])
                        /\ users[asked[q].login].id = bearer[r].sub
                        /\ at[r] < at[q] + TTL
    BY DEF ServedAfterLogin
  <2>1. PICK q \in Requests : token[q] = bearer[r]
    BY DEF IInv, TokenIsTimed
  <2>2. asked[q] # Nothing /\ code[q] = 200
    BY <2>1 DEF IInv, RequestOK
  <2>3. /\ Stored(asked[q].login) /\ Matches(q, users[asked[q].login])
        /\ users[asked[q].login].id = bearer[r].sub
    BY <2>1, <2>2 DEF IInv, AnswersAreTrue, Stored
  <2>4. bearer[r].expires \in Int /\ at[q] \in Nat /\ at[r] \in Nat /\ TTL \in Nat
    BY TimeAssumption DEF IInv, TypeOK, Token
  <2>5. at[r] < bearer[r].expires
    BY DEF IInv, TokenIsTimed
  <2>6. bearer[r].expires =< at[q] + TTL
    BY <2>1 DEF IInv, TokenIsTimed
  <2>7. at[r] < at[q] + TTL
    BY <2>4, <2>5, <2>6
  <2>. QED  BY <2>2, <2>3, <2>7
<1>. QED  BY <1>1, Invariance, PTL

\* A session lasts for TTL but for the part of a second that NumericDate cuts off.
THEOREM SessionsLast == Spec => []SessionLasts
<1>1. IInv => SessionLasts
  <2> SUFFICES ASSUME IInv, NEW q \in Requests, NEW r \in Requests,
                      token[q] # Nothing, bearer[r] = token[q], code[r] = 401
               PROVE  at[r] > at[q] + TTL - Second
    BY DEF SessionLasts
  <2>1. /\ token[q].expires \in Int /\ at[q] \in Nat /\ at[r] \in Nat
        /\ TTL \in Nat /\ Second \in Nat
    BY TimeAssumption DEF IInv, TypeOK, Token
  <2>2. token[q].expires > at[q] + TTL - Second
    BY DEF IInv, TokenIsTimed
  <2>3. ~(at[r] < token[q].expires)
    BY DEF IInv, TokenIsTimed
  <2>. QED  BY <2>1, <2>2, <2>3
<1>. QED  BY <1>1, Invariance, PTL
=============================================================================
