---------------------------- MODULE OrderUpload ----------------------------
(***************************************************************************)
(* POST /api/user/orders: the handler, the service and InsertOrder of      *)
(* internal/order, for requests of several users that may name the same    *)
(* order number.  InsertOrder is two statements without a transaction:     *)
(* the INSERT, which the unique number decides, and after a violation a    *)
(* SELECT that says whose row it is.                                       *)
(*                                                                         *)
(*   new -> insert -> enqueue -> done   202                                *)
(*                 -> lookup  -> done   200 | 409                          *)
(*                                                                         *)
(* Each request runs once; a client that tries again makes another one.    *)
(* What the pool does with an order that is enqueued is in AccrualPool.    *)
(*                                                                         *)
(* A definition marked "Variant" is a faulty form of the one after it, to  *)
(* show that a property notices the difference.  Nothing uses it.          *)
(***************************************************************************)
EXTENDS Naturals

CONSTANTS
  Requests, Users,
  Numbers,        \* order numbers, trimmed
  ValidNumbers,   \* those with a Luhn check digit
  NoUser,         \* owner of a number without a row
  MaxFaults       \* bound: failed statements and restarts of a behaviour

ASSUME NumbersAssumption == ValidNumbers \subseteq Numbers
ASSUME FaultsAssumption == MaxFaults \in Nat

Order == [user : Users, number : Numbers]

ASSUME UsersAssumption == NoUser \notin Users \union Order

VARIABLES
  asked,        \* the order of each request
  pc,
  code,         \* the status answered, 0 without an answer
  owner,        \* orders.user_id, by number
  enqueued,     \* the numbers Enqueue was called for
  faults

vars == <<asked, pc, code, owner, enqueued, faults>>

Goto(r, l) == pc' = [pc EXCEPT ![r] = l]

Reply(r, c) == Goto(r, "done") /\ code' = [code EXCEPT ![r] = c]

Fail == faults < MaxFaults /\ faults' = faults + 1

Stored(n) == owner[n] # NoUser

-----------------------------------------------------------------------------
\* The handler reads the number, the service checks it.
CreateOrder(r, o) ==
  /\ pc[r] = "new"
  /\ asked' = [asked EXCEPT ![r] = o]
  /\ IF o.number \in ValidNumbers
     THEN Goto(r, "insert") /\ UNCHANGED code
     ELSE Reply(r, 422)
  /\ UNCHANGED <<owner, enqueued, faults>>

InsertRow(r) == owner' = [owner EXCEPT ![asked[r].number] = asked[r].user]

\* Variant: number is not unique.
InsertOrderUnchecked(r) ==
  /\ pc[r] = "insert"
  /\ InsertRow(r)
  /\ Goto(r, "enqueue")
  /\ UNCHANGED <<asked, code, enqueued, faults>>

\* The INSERT.
InsertOrder(r) ==
  /\ pc[r] = "insert"
  /\ IF Stored(asked[r].number)
     THEN Goto(r, "lookup") /\ UNCHANGED owner
     ELSE Goto(r, "enqueue") /\ InsertRow(r)
  /\ UNCHANGED <<asked, code, enqueued, faults>>

\* Variant: every number that has a row is somebody else's.
GetOrderByNumberUnread(r) ==
  /\ pc[r] = "lookup"
  /\ Reply(r, 409)
  /\ UNCHANGED <<asked, owner, enqueued, faults>>

\* Variant: nothing to say is 204.
GetOrderByNumberEmpty(r) ==
  /\ pc[r] = "lookup"
  /\ Reply(r, IF owner[asked[r].number] = asked[r].user THEN 204 ELSE 409)
  /\ UNCHANGED <<asked, owner, enqueued, faults>>

\* getOrderByNumber, and the choice of the answer.
GetOrderByNumber(r) ==
  /\ pc[r] = "lookup"
  /\ Reply(r, IF owner[asked[r].number] = asked[r].user THEN 200 ELSE 409)
  /\ UNCHANGED <<asked, owner, enqueued, faults>>

\* Enqueue, and the handler's answer.
Enqueue(r) ==
  /\ pc[r] = "enqueue"
  /\ enqueued' = enqueued \union {asked[r].number}
  /\ Reply(r, 202)
  /\ UNCHANGED <<asked, owner, faults>>

\* Variant: the service goes on after an error.
InsertFailsUnnoticed(r) ==
  /\ pc[r] = "insert"
  /\ Fail
  /\ UNCHANGED owner \/ (~Stored(asked[r].number) /\ InsertRow(r))
  /\ Goto(r, "enqueue")
  /\ UNCHANGED <<asked, code, enqueued>>

\* The INSERT fails, or takes effect and the handler sees an error.
InsertFails(r) ==
  /\ pc[r] = "insert"
  /\ Fail
  /\ UNCHANGED owner \/ (~Stored(asked[r].number) /\ InsertRow(r))
  /\ Reply(r, 500)
  /\ UNCHANGED <<asked, enqueued>>

LookupFails(r) ==
  /\ pc[r] = "lookup"
  /\ Fail
  /\ Reply(r, 500)
  /\ UNCHANGED <<asked, owner, enqueued>>

\* The process stops: what it was working on is never answered.
Restart ==
  /\ Fail
  /\ pc' = [r \in Requests |-> IF pc[r] = "new" THEN "new" ELSE "done"]
  /\ UNCHANGED <<asked, code, owner, enqueued>>

Init ==
  /\ asked    \in [Requests -> {NoUser}]
  /\ pc       = [r \in Requests |-> "new"]
  /\ code     = [r \in Requests |-> 0]
  /\ owner    = [n \in Numbers |-> NoUser]
  /\ enqueued = {}
  /\ faults   = 0

Handle(r) == InsertOrder(r) \/ GetOrderByNumber(r) \/ Enqueue(r)

Next ==
  \/ \E r \in Requests :
       \/ \E o \in Order : CreateOrder(r, o)
       \/ Handle(r) \/ InsertFails(r) \/ LookupFails(r)
  \/ Restart

Spec == Init /\ [][Next]_vars

-----------------------------------------------------------------------------
\* Every variable has its type.
TypeOK ==
  /\ asked    \in [Requests -> Order \union {NoUser}]
  /\ pc       \in [Requests -> {"new", "insert", "lookup", "enqueue", "done"}]
  /\ code     \in [Requests -> {0, 200, 202, 409, 422, 500}]
  /\ owner    \in [Numbers -> Users \union {NoUser}]
  /\ enqueued \in SUBSET Numbers
  /\ faults   \in 0 .. MaxFaults

\* Whatever else was uploaded between the INSERT and the SELECT, an answer is
\* true: 202 and 200 say that the number is the user's, 409 that it is another
\* user's.  A retry after an error is told 200, never 409.
AnswersAreTrue ==
  \A r \in Requests :
    /\ code[r] \in {200, 202} => owner[asked[r].number] = asked[r].user
    /\ code[r] = 409 => /\ Stored(asked[r].number)
                        /\ owner[asked[r].number] # asked[r].user

\* A number is accepted once, whoever uploads it how often.
AcceptedOnce ==
  \A q, r \in Requests :
    code[q] = 202 /\ code[r] = 202 /\ asked[q].number = asked[r].number => q = r

\* A number keeps its owner.
OwnerIsFinal == [][\A n \in Numbers : Stored(n) => owner'[n] = owner[n]]_vars

\* The pool gets no order that the table does not hold: its worker would find
\* nothing to update.
EnqueuedIsStored ==
  /\ \A n \in enqueued : Stored(n)
  /\ \A r \in Requests : pc[r] = "enqueue" => Stored(asked[r].number)

-----------------------------------------------------------------------------
(* The inductive invariant.                                                  *)

\* A request past its first step has an order, with a valid number.
RequestOK ==
  \A r \in Requests :
    /\ pc[r] = "new" <=> asked[r] = NoUser
    /\ pc[r] \in {"insert", "lookup", "enqueue"} =>
         code[r] = 0 /\ asked[r].number \in ValidNumbers
    /\ pc[r] = "new" => code[r] = 0

\* The INSERT has decided before anything is answered.
Decided ==
  \A r \in Requests :
    /\ pc[r] = "lookup"  => Stored(asked[r].number)
    /\ pc[r] = "enqueue" => owner[asked[r].number] = asked[r].user

\* The one request that inserted a number.
Inserter(r) == pc[r] = "enqueue" \/ code[r] = 202

OneInserter ==
  \A q, r \in Requests :
    Inserter(q) /\ Inserter(r) /\ asked[q].number = asked[r].number => q = r

IInv ==
  /\ TypeOK /\ RequestOK /\ AnswersAreTrue /\ EnqueuedIsStored
  /\ Decided /\ OneInserter
=============================================================================
