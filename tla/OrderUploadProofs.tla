------------------------- MODULE OrderUploadProofs -------------------------
(***************************************************************************)
(* For any users, numbers and requests: every answer to an upload is true  *)
(* and a number is accepted once.                                          *)
(***************************************************************************)
EXTENDS OrderUpload, TLAPS

THEOREM InitInvariant == Init => IInv
  BY FaultsAssumption, UsersAssumption
  DEF Init, IInv, TypeOK, RequestOK, AnswersAreTrue, EnqueuedIsStored, Decided,
      OneInserter, Inserter, Order, Stored

\* What a step may do to a number that has a row: nothing.
Kept == \A n \in Numbers : Stored(n) => owner'[n] = owner[n]

\* The order of a request that has one.
LEMMA OrderOf ==
  ASSUME IInv, NEW r \in Requests, pc[r] # "new"
  PROVE  /\ asked[r].user \in Users
         /\ asked[r].user # NoUser
         /\ asked[r].number \in Numbers
  BY UsersAssumption DEF IInv, TypeOK, RequestOK, Order

\* The row a request inserts belongs to its user, other rows stay.
LEMMA InsertedRow ==
  ASSUME IInv, NEW r \in Requests, pc[r] = "insert",
         ~Stored(asked[r].number), InsertRow(r)
  PROVE  /\ Kept
         /\ owner' \in [Numbers -> Users \union {NoUser}]
         /\ owner'[asked[r].number] = asked[r].user
  BY OrderOf DEF IInv, TypeOK, InsertRow, Stored, Kept

\* A step that keeps the rows and moves a request r that has its order to
\* label l, with code c; what it says about the row of the order is right.
Moves(r, l, c) ==
  /\ pc[r] \in {"insert", "lookup", "enqueue"}
  /\ Kept /\ owner' \in [Numbers -> Users \union {NoUser}]
  /\ asked' = asked
  /\ pc'   = [pc EXCEPT ![r] = l]
  /\ code' = [code EXCEPT ![r] = c]
  /\ \/ enqueued' = enqueued
     \/ enqueued' = enqueued \union {asked[r].number} /\ c = 202
  /\ faults' \in 0 .. MaxFaults
  /\ l # "done" => c = 0
  /\ l = "lookup" => owner'[asked[r].number] # NoUser
  /\ l = "enqueue" => ~Stored(asked[r].number)
  /\ l = "enqueue" \/ c \in {200, 202} => owner'[asked[r].number] = asked[r].user
  /\ c = 409 => owner'[asked[r].number] \notin {NoUser, asked[r].user}
  /\ c = 202 => pc[r] = "enqueue"

\* Such a step preserves the invariant.
LEMMA Move ==
  ASSUME IInv,
         NEW r \in Requests,
         NEW l \in {"lookup", "enqueue", "done"},
         NEW c \in {0, 200, 202, 409, 500},
         Moves(r, l, c)
  PROVE  IInv'
<1> USE DEF Moves
<1>1. TypeOK'
  BY OrderOf DEF IInv, TypeOK
<1>2. RequestOK'
  BY OrderOf DEF IInv, TypeOK, RequestOK
<1>3. ASSUME NEW q \in Requests, q # r
      PROVE  pc'[q] = pc[q] /\ code'[q] = code[q]
  BY <1>3 DEF IInv, TypeOK
<1>4. pc'[r] = l /\ code'[r] = c
  BY DEF IInv, TypeOK
<1>5. ASSUME NEW q \in Requests, pc[q] # "new", Stored(asked[q].number)
      PROVE  owner'[asked[q].number] = owner[asked[q].number]
  BY <1>5, OrderOf DEF Kept
<1>6. ASSUME NEW q \in Requests, owner[asked[q].number] = asked[q].user, pc[q] # "new"
      PROVE  Stored(asked[q].number)
  BY <1>6, OrderOf DEF Stored
<1>7. AnswersAreTrue'
  <2> SUFFICES ASSUME NEW q \in Requests
               PROVE  /\ code'[q] \in {200, 202} => owner'[asked[q].number] = asked[q].user
                      /\ code'[q] = 409 => owner'[asked[q].number] \notin {NoUser, asked[q].user}
    BY DEF AnswersAreTrue, Stored
  <2>1. CASE q = r
    BY <2>1, <1>4
  <2>2. CASE q # r
    <3>1. code[q] # 0 => pc[q] # "new"
      BY DEF IInv, RequestOK
    <3> QED BY <2>2, <3>1, <1>3, <1>5, <1>6 DEF IInv, AnswersAreTrue, Stored
  <2> QED BY <2>1, <2>2
<1>8. Decided'
  <2> SUFFICES ASSUME NEW q \in Requests
               PROVE  /\ pc'[q] = "lookup"  => owner'[asked[q].number] # NoUser
                      /\ pc'[q] = "enqueue" => owner'[asked[q].number] = asked[q].user
    BY DEF Decided, Stored
  <2>1. CASE q = r
    BY <2>1, <1>4
  <2>2. CASE q # r
    BY <2>2, <1>3, <1>5, <1>6 DEF IInv, Decided, Stored
  <2> QED BY <2>1, <2>2
<1>9. EnqueuedIsStored'
  <2>1. ASSUME NEW n \in enqueued'
        PROVE  owner'[n] # NoUser
    <3>1. CASE n \in enqueued
      BY <3>1 DEF IInv, TypeOK, EnqueuedIsStored, Kept, Stored
    <3>2. CASE n = asked[r].number /\ c = 202
      BY <3>2, OrderOf
    <3> QED BY <2>1, <3>1, <3>2
  <2>2. ASSUME NEW q \in Requests, pc'[q] = "enqueue"
        PROVE  owner'[asked[q].number] # NoUser
    <3>1. pc[q] # "new"
      BY <2>2, <1>3
    <3> QED BY <2>2, <3>1, <1>8, OrderOf DEF Decided
  <2> QED BY <2>1, <2>2 DEF EnqueuedIsStored, Stored
<1>10. OneInserter'
  <2>1. ASSUME NEW q \in Requests, q # r, Inserter(q),
               asked[q].number = asked[r].number,
               pc'[r] = "enqueue" \/ code'[r] = 202
        PROVE  FALSE
    <3>1. pc[q] # "new" /\ Stored(asked[q].number)
      BY <2>1, <1>6 DEF IInv, RequestOK, Inserter, AnswersAreTrue, EnqueuedIsStored
    <3>2. l # "enqueue"
      BY <2>1, <3>1
    <3>3. pc[r] = "enqueue"
      BY <2>1, <3>2, <1>4
    <3> QED BY <2>1, <3>3 DEF IInv, OneInserter, Inserter
  <2>2. ASSUME NEW q \in Requests, q # r
        PROVE  (pc'[q] = "enqueue" \/ code'[q] = 202) <=> Inserter(q)
    BY <2>2, <1>3 DEF Inserter
  <2> QED BY <2>1, <2>2 DEF IInv, OneInserter, Inserter
<1> QED BY <1>1, <1>2, <1>7, <1>8, <1>9, <1>10 DEF IInv

\* A request that gets its order has no claim on any row yet.
LEMMA Created ==
  ASSUME IInv, NEW r \in Requests, NEW o \in Order, CreateOrder(r, o)
  PROVE  IInv'
<1>1. /\ pc[r] = "new" /\ code[r] = 0 /\ asked[r] = NoUser
      /\ asked' = [asked EXCEPT ![r] = o]
      /\ UNCHANGED <<owner, enqueued, faults>>
      /\ o.number \in Numbers /\ o # NoUser
  BY UsersAssumption DEF CreateOrder, IInv, RequestOK, Order
<1>2. PICK l \in {"insert", "done"}, c \in {0, 422} :
        /\ pc'   = [pc EXCEPT ![r] = l]
        /\ code' = [code EXCEPT ![r] = c]
        /\ l = "insert" => c = 0 /\ o.number \in ValidNumbers
  <2>1. CASE o.number \in ValidNumbers
    <3>1. pc' = [pc EXCEPT ![r] = "insert"] /\ code' = code
      BY <2>1 DEF CreateOrder, Goto
    <3>2. code' = [code EXCEPT ![r] = 0]
      BY <3>1, <1>1 DEF IInv, TypeOK
    <3> QED BY <2>1, <3>1, <3>2
  <2>2. CASE o.number \notin ValidNumbers
    <3>1. pc' = [pc EXCEPT ![r] = "done"] /\ code' = [code EXCEPT ![r] = 422]
      BY <2>2 DEF CreateOrder, Reply, Goto
    <3> QED BY <3>1
  <2> QED BY <2>1, <2>2
<1>3. ASSUME NEW q \in Requests, q # r
      PROVE  pc'[q] = pc[q] /\ code'[q] = code[q] /\ asked'[q] = asked[q]
  BY <1>1, <1>2, <1>3 DEF IInv, TypeOK
<1>4. pc'[r] = l /\ code'[r] = c /\ asked'[r] = o
  BY <1>1, <1>2 DEF IInv, TypeOK
<1>5. TypeOK'
  BY <1>1, <1>2 DEF IInv, TypeOK
<1>6. RequestOK'
  BY <1>1, <1>2, <1>3, <1>4 DEF IInv, RequestOK
<1>7. AnswersAreTrue'
  BY <1>1, <1>2, <1>3, <1>4 DEF IInv, AnswersAreTrue, Stored
<1>8. EnqueuedIsStored'
  BY <1>1, <1>2, <1>3, <1>4 DEF IInv, EnqueuedIsStored, Stored
<1>9. Decided'
  BY <1>1, <1>2, <1>3, <1>4 DEF IInv, Decided, Stored
<1>10. OneInserter'
  BY <1>1, <1>2, <1>3, <1>4 DEF IInv, OneInserter, Inserter
<1> QED BY <1>5, <1>6, <1>7, <1>8, <1>9, <1>10 DEF IInv

\* A step that leaves the table alone keeps its rows.
LEMMA RowsUnchanged ==
  ASSUME IInv, UNCHANGED owner
  PROVE  Kept /\ owner' \in [Numbers -> Users \union {NoUser}]
  BY DEF IInv, TypeOK, Kept

\* One step preserves the invariant and keeps the owner of every number.
LEMMA StepInvariant ==
  ASSUME IInv, [Next]_vars
  PROVE  IInv' /\ Kept
<1>1. ASSUME NEW r \in Requests, NEW o \in Order, CreateOrder(r, o)
      PROVE  IInv' /\ Kept
  BY <1>1, Created, RowsUnchanged DEF CreateOrder
<1>2. ASSUME NEW r \in Requests, InsertOrder(r)
      PROVE  IInv' /\ Kept
  <2>1. pc[r] = "insert" /\ UNCHANGED <<asked, enqueued, faults>>
    BY <1>2 DEF InsertOrder
  <2>2. code' = [code EXCEPT ![r] = 0]
    <3>1. code' = code /\ code[r] = 0
      BY <1>2 DEF InsertOrder, IInv, RequestOK
    <3> QED BY <3>1 DEF IInv, TypeOK
  <2>5. faults' \in 0 .. MaxFaults
    BY <2>1 DEF IInv, TypeOK
  <2>3. CASE Stored(asked[r].number)
    <3>1. pc' = [pc EXCEPT ![r] = "lookup"] /\ UNCHANGED owner
      BY <1>2, <2>3 DEF InsertOrder, Goto
    <3>2. owner'[asked[r].number] # NoUser
      BY <2>3, <3>1 DEF Stored
    <3>9. Moves(r, "lookup", 0)
      BY <2>1, <2>2, <2>5, <3>1, <3>2, RowsUnchanged DEF Moves
    <3>10. Kept
      BY <3>9 DEF Moves
    <3> QED BY <3>9, <3>10, Move
  <2>4. CASE ~Stored(asked[r].number)
    <3>1. pc' = [pc EXCEPT ![r] = "enqueue"] /\ InsertRow(r)
      BY <1>2, <2>4 DEF InsertOrder, Goto
    <3>9. Moves(r, "enqueue", 0)
      BY <2>1, <2>2, <2>4, <2>5, <3>1, InsertedRow DEF Moves
    <3>10. Kept
      BY <3>9 DEF Moves
    <3> QED BY <3>9, <3>10, Move
  <2> QED BY <2>3, <2>4
<1>3. ASSUME NEW r \in Requests, GetOrderByNumber(r)
      PROVE  IInv' /\ Kept
  <2>1. /\ pc[r] = "lookup" /\ pc' = [pc EXCEPT ![r] = "done"]
        /\ UNCHANGED <<asked, owner, enqueued, faults>>
        /\ owner[asked[r].number] # NoUser
    BY <1>3 DEF GetOrderByNumber, Reply, Goto, IInv, Decided, Stored
  <2>2. faults' \in 0 .. MaxFaults
    BY <2>1 DEF IInv, TypeOK
  <2>3. CASE owner[asked[r].number] = asked[r].user
    <3>1. code' = [code EXCEPT ![r] = 200]
      BY <1>3, <2>3 DEF GetOrderByNumber, Reply
    <3>9. Moves(r, "done", 200)
      BY <2>1, <2>2, <2>3, <3>1, RowsUnchanged DEF Moves
    <3>10. Kept
      BY <3>9 DEF Moves
    <3> QED BY <3>9, <3>10, Move
  <2>4. CASE owner[asked[r].number] # asked[r].user
    <3>1. code' = [code EXCEPT ![r] = 409]
      BY <1>3, <2>4 DEF GetOrderByNumber, Reply
    <3>9. Moves(r, "done", 409)
      BY <2>1, <2>2, <2>4, <3>1, RowsUnchanged DEF Moves
    <3>10. Kept
      BY <3>9 DEF Moves
    <3> QED BY <3>9, <3>10, Move
  <2> QED BY <2>3, <2>4
<1>4. ASSUME NEW r \in Requests, Enqueue(r)
      PROVE  IInv' /\ Kept
  <2>1. /\ pc[r] = "enqueue" /\ pc' = [pc EXCEPT ![r] = "done"]
        /\ code' = [code EXCEPT ![r] = 202]
        /\ enqueued' = enqueued \union {asked[r].number}
        /\ UNCHANGED <<asked, owner, faults>>
        /\ owner[asked[r].number] = asked[r].user
    BY <1>4 DEF Enqueue, Reply, Goto, IInv, Decided
  <2>2. faults' \in 0 .. MaxFaults
    BY <2>1 DEF IInv, TypeOK
  <2>9. Moves(r, "done", 202)
    BY <2>1, <2>2, RowsUnchanged DEF Moves
  <2>10. Kept
    BY <2>9 DEF Moves
  <2> QED BY <2>9, <2>10, Move
<1>5. ASSUME NEW r \in Requests, InsertFails(r)
      PROVE  IInv' /\ Kept
  <2>1. /\ pc[r] = "insert" /\ pc' = [pc EXCEPT ![r] = "done"]
        /\ code' = [code EXCEPT ![r] = 500]
        /\ UNCHANGED <<asked, enqueued>> /\ Fail
        /\ UNCHANGED owner \/ (~Stored(asked[r].number) /\ InsertRow(r))
    BY <1>5 DEF InsertFails, Reply, Goto
  <2>2. faults' \in 0 .. MaxFaults
    BY <2>1, FaultsAssumption DEF IInv, TypeOK, Fail
  <2>3. Kept /\ owner' \in [Numbers -> Users \union {NoUser}]
    BY <2>1, RowsUnchanged, InsertedRow
  <2>9. Moves(r, "done", 500)
    BY <2>1, <2>2, <2>3 DEF Moves
  <2>10. Kept
    BY <2>9 DEF Moves
  <2> QED BY <2>9, <2>10, Move
<1>6. ASSUME NEW r \in Requests, LookupFails(r)
      PROVE  IInv' /\ Kept
  <2>1. /\ pc[r] = "lookup" /\ pc' = [pc EXCEPT ![r] = "done"]
        /\ code' = [code EXCEPT ![r] = 500]
        /\ UNCHANGED <<asked, owner, enqueued>> /\ Fail
    BY <1>6 DEF LookupFails, Reply, Goto
  <2>2. faults' \in 0 .. MaxFaults
    BY <2>1, FaultsAssumption DEF IInv, TypeOK, Fail
  <2>9. Moves(r, "done", 500)
    BY <2>1, <2>2, RowsUnchanged DEF Moves
  <2>10. Kept
    BY <2>9 DEF Moves
  <2> QED BY <2>9, <2>10, Move
<1>7. ASSUME Restart
      PROVE  IInv' /\ Kept
  <2>1. /\ pc' = [r \in Requests |-> IF pc[r] = "new" THEN "new" ELSE "done"]
        /\ UNCHANGED <<asked, code, owner, enqueued>> /\ Fail
    BY <1>7 DEF Restart
  <2>2. faults' \in 0 .. MaxFaults
    BY <2>1, FaultsAssumption DEF IInv, TypeOK, Fail
  <2>3. TypeOK'
    BY <2>1, <2>2 DEF IInv, TypeOK
  <2>4. RequestOK' /\ Decided'
    BY <2>1 DEF IInv, RequestOK, Decided
  <2>5. AnswersAreTrue'
    BY <2>1 DEF IInv, AnswersAreTrue, Stored
  <2>6. EnqueuedIsStored'
    BY <2>1 DEF IInv, EnqueuedIsStored, Stored
  <2>7. OneInserter'
    BY <2>1 DEF IInv, OneInserter, Inserter
  <2> QED BY <2>1, <2>3, <2>4, <2>5, <2>6, <2>7, RowsUnchanged DEF IInv
<1>8. ASSUME UNCHANGED vars
      PROVE  IInv' /\ Kept
  BY <1>8 DEF vars, IInv, TypeOK, RequestOK, AnswersAreTrue, EnqueuedIsStored,
              Decided, OneInserter, Inserter, Stored, Kept
<1> QED BY <1>1, <1>2, <1>3, <1>4, <1>5, <1>6, <1>7, <1>8 DEF Next, Handle

THEOREM Invariance == Spec => []IInv
  BY InitInvariant, StepInvariant, PTL DEF Spec

\* Every variable of the upload keeps its type.
THEOREM TypeCorrect == Spec => []TypeOK
  BY Invariance, PTL DEF IInv

\* 200, 202 and 409 say the truth about whose the number is, whatever was
\* uploaded between the INSERT and the SELECT of getOrderByNumber.
THEOREM AnswersCorrect == Spec => []AnswersAreTrue
  BY Invariance, PTL DEF IInv

\* One request per number is answered 202.
THEOREM AcceptedAtMostOnce == Spec => []AcceptedOnce
<1>1. IInv => AcceptedOnce
  BY DEF IInv, OneInserter, Inserter, AcceptedOnce
<1> QED BY <1>1, Invariance, PTL

\* Only orders with a row reach the pool.
THEOREM PoolFindsItsOrders == Spec => []EnqueuedIsStored
  BY Invariance, PTL DEF IInv

\* A number keeps the owner its first upload gave it.
THEOREM OwnerIsKept == Spec => OwnerIsFinal
<1>1. IInv /\ [Next]_vars =>
        [\A n \in Numbers : Stored(n) => owner'[n] = owner[n]]_vars
  BY StepInvariant DEF Kept
<1> QED BY <1>1, Invariance, PTL DEF Spec, OwnerIsFinal
=============================================================================
