---------------------------- MODULE BalanceRepo ----------------------------
(***************************************************************************)
(* The transactions of internal/balance/repo.go on PostgreSQL at READ      *)
(* COMMITTED: handlers that run WithdrawBalance and workers that run       *)
(* CreditAccrual, any number of each at a time.                            *)
(*                                                                         *)
(*   WithdrawBalance  UPDATE user_balance ... WHERE current >= sum         *)
(*                    INSERT withdrawals, unique (user_id, order_number)   *)
(*   CreditAccrual    INSERT balance_accruals, primary key order_id        *)
(*                    INSERT user_balance ... ON CONFLICT DO UPDATE        *)
(*                                                                         *)
(* One action is one statement, as far as it gets without waiting.  The    *)
(* variables of the tables hold what is committed; what a transaction has  *)
(* written and not committed follows from its pc, and the row of           *)
(* user_balance it has written is locked.  The database is the external    *)
(* part of this module: an UPDATE picks its row by the committed version,  *)
(* waits for the row's lock and looks at the row again; an INSERT waits    *)
(* for a transaction that holds the same key and fails when that commits.  *)
(*                                                                         *)
(* A definition marked "Variant" is a faulty form of the one after it, to  *)
(* show that a property notices the difference.  Nothing uses it.          *)
(***************************************************************************)
EXTENDS Integers, FiniteSets, Functions

CONSTANTS
  Users, Orders, Owner, Reward, Numbers, Sums, Handlers, Workers,   \* as in Ledger
  NoOne,        \* the holder of a free lock, the request of an idle caller
  MaxFaults     \* bound: failed statements and commits of a behaviour

Procs == Handlers \union Workers

ASSUME ProcsAssumption == Handlers \intersect Workers = {} /\ NoOne \notin Procs
\* CreditAccrual is called for amounts above 0 (worker.go:228).
ASSUME OrdersAssumption ==
  /\ NoOne \notin Orders
  /\ Owner \in [Orders -> Users]
  /\ Reward \in [Orders -> Nat \ {0}]
\* Nothing between the request's JSON and the UPDATE looks at a sum's sign.
ASSUME SumsAssumption == Sums \subseteq Int
ASSUME FaultsAssumption == MaxFaults \in Nat

WithdrawOpt == [user : Users, order : Numbers, sum : Sums]

ASSUME RequestsAssumption == NoOne \notin WithdrawOpt

VARIABLES
  hasRow,               \* users with a row in user_balance
  current, withdrawn,   \* its columns, 0 without a row
  withdrawals,          \* rows of withdrawals
  accruals,             \* order_ids of balance_accruals
  lock,                 \* the transaction that has written a row of user_balance
  pc,
  opt,                  \* argument of WithdrawBalance, while it runs
  order,                \* argument of CreditAccrual, while it runs
  answer,               \* result of each caller's last call
  faults

tables   == <<hasRow, current, withdrawn, withdrawals, accruals>>
requests == <<opt, order>>
vars     == <<tables, requests, lock, pc, answer, faults>>

Goto(p, l) == pc' = [pc EXCEPT ![p] = l]

Fail == faults < MaxFaults /\ faults' = faults + 1

\* Variant: the row stays locked.
ReturnWithoutUnlock(p, result) ==
  /\ Goto(p, "idle")
  /\ opt'    = [h \in Handlers |-> IF h = p THEN NoOne ELSE opt[h]]
  /\ order'  = [w \in Workers |-> IF w = p THEN NoOne ELSE order[w]]
  /\ answer' = [answer EXCEPT ![p] = result]
  /\ UNCHANGED lock

\* The transaction ends, its locks go, and the caller gets its result.
Return(p, result) ==
  /\ Goto(p, "idle")
  /\ lock'   = [u \in Users |-> IF lock[u] = p THEN NoOne ELSE lock[u]]
  /\ opt'    = [h \in Handlers |-> IF h = p THEN NoOne ELSE opt[h]]
  /\ order'  = [w \in Workers |-> IF w = p THEN NoOne ELSE order[w]]
  /\ answer' = [answer EXCEPT ![p] = result]

-----------------------------------------------------------------------------
\* WithdrawBalance.
Qualifies(r) == r.user \in hasRow /\ current[r.user] >= r.sum

BeginWithdraw(h, r) ==
  /\ pc[h] = "idle"
  /\ opt' = [opt EXCEPT ![h] = r]
  /\ answer' = [answer EXCEPT ![h] = "none"]
  /\ Goto(h, "update")
  /\ UNCHANGED <<tables, order, lock, faults>>

\* The UPDATE looks for its row.
UpdateBalance(h) ==
  /\ pc[h] = "update"
  /\ IF Qualifies(opt[h])
     THEN Goto(h, "lock") /\ UNCHANGED <<lock, answer, requests>>
     ELSE Return(h, "insufficient")
  /\ UNCHANGED <<tables, faults>>

\* Variant: a SELECT checks the balance, the UPDATE has no condition.
LockBalanceUnchecked(h) ==
  /\ pc[h] = "lock"
  /\ lock[opt[h].user] = NoOne
  /\ lock' = [lock EXCEPT ![opt[h].user] = h]
  /\ Goto(h, "insert")
  /\ UNCHANGED <<tables, requests, answer, faults>>

\* The UPDATE has the row to itself and looks again.
LockBalance(h) ==
  /\ pc[h] = "lock"
  /\ lock[opt[h].user] = NoOne
  /\ IF Qualifies(opt[h])
     THEN /\ lock' = [lock EXCEPT ![opt[h].user] = h]
          /\ Goto(h, "insert")
          /\ UNCHANGED <<answer, requests>>
     ELSE Return(h, "insufficient")
  /\ UNCHANGED <<tables, faults>>

Exists(r) == \E w \in withdrawals : w.user = r.user /\ w.order = r.order

\* Variant: a violation of the unique key reported as too little balance.
InsertWithdrawalMisreported(h) ==
  /\ pc[h] = "insert"
  /\ IF Exists(opt[h])
     THEN Return(h, "insufficient")
     ELSE Goto(h, "commit") /\ UNCHANGED <<lock, answer, requests>>
  /\ UNCHANGED <<tables, faults>>

\* Another transaction with the same key would hold the lock of the user.
InsertWithdrawal(h) ==
  /\ pc[h] = "insert"
  /\ IF Exists(opt[h])
     THEN Return(h, "exists")
     ELSE Goto(h, "commit") /\ UNCHANGED <<lock, answer, requests>>
  /\ UNCHANGED <<tables, faults>>

\* Variant: the withdrawal is recorded as a negative amount.
WithdrawalCommittedNegated(h) ==
  /\ pc[h] = "commit"
  /\ current'     = [current   EXCEPT ![opt[h].user] = @ - opt[h].sum]
  /\ withdrawn'   = [withdrawn EXCEPT ![opt[h].user] = @ + opt[h].sum]
  /\ withdrawals' = withdrawals \union {[opt[h] EXCEPT !.sum = -1 * @]}
  /\ UNCHANGED <<hasRow, accruals>>

WithdrawalCommitted(h) ==
  /\ pc[h] = "commit"
  /\ current'     = [current   EXCEPT ![opt[h].user] = @ - opt[h].sum]
  /\ withdrawn'   = [withdrawn EXCEPT ![opt[h].user] = @ + opt[h].sum]
  /\ withdrawals' = withdrawals \union {opt[h]}
  /\ UNCHANGED <<hasRow, accruals>>

\* Variant: the error of the commit is dropped.
CommitWithdrawUnchecked(h) ==
  /\ pc[h] = "commit"
  /\ WithdrawalCommitted(h) \/ UNCHANGED tables
  /\ Return(h, "ok")
  /\ UNCHANGED faults

CommitWithdraw(h) ==
  WithdrawalCommitted(h) /\ Return(h, "ok") /\ UNCHANGED faults

-----------------------------------------------------------------------------
\* CreditAccrual.
BeginCredit(w, o) ==
  /\ pc[w] = "idle"
  /\ order' = [order EXCEPT ![w] = o]
  /\ answer' = [answer EXCEPT ![w] = "none"]
  /\ Goto(w, "insert")
  /\ UNCHANGED <<tables, opt, lock, faults>>

\* Transactions that have inserted the order and not committed.
Inserting(o) == {w \in Workers : pc[w] \in {"upsert", "commit"} /\ order[w] = o}

\* Variant: the row of balance_accruals is not asked for, as if its key were
\* not unique.
InsertAccrualAgain(w) ==
  /\ pc[w] = "insert"
  /\ Inserting(order[w]) = {}
  /\ Goto(w, "upsert")
  /\ UNCHANGED <<tables, requests, lock, answer, faults>>

\* An order that has its row was credited before, the rest is skipped.
InsertAccrual(w) ==
  /\ pc[w] = "insert"
  /\ Inserting(order[w]) = {}
  /\ IF order[w] \in accruals
     THEN Return(w, "ok")
     ELSE Goto(w, "upsert") /\ UNCHANGED <<lock, answer, requests>>
  /\ UNCHANGED <<tables, faults>>

UpsertBalance(w) ==
  /\ pc[w] = "upsert"
  /\ lock[Owner[order[w]]] = NoOne
  /\ lock' = [lock EXCEPT ![Owner[order[w]]] = w]
  /\ Goto(w, "commit")
  /\ UNCHANGED <<tables, requests, answer, faults>>

\* Variant: DO UPDATE SET current = EXCLUDED.current.
CreditCommittedOverwrites(w) ==
  /\ pc[w] = "commit"
  /\ hasRow'   = hasRow \union {Owner[order[w]]}
  /\ current'  = [current EXCEPT ![Owner[order[w]]] = Reward[order[w]]]
  /\ accruals' = accruals \union {order[w]}
  /\ UNCHANGED <<withdrawn, withdrawals>>

CreditCommitted(w) ==
  /\ pc[w] = "commit"
  /\ hasRow'   = hasRow \union {Owner[order[w]]}
  /\ current'  = [current EXCEPT ![Owner[order[w]]] = @ + Reward[order[w]]]
  /\ accruals' = accruals \union {order[w]}
  /\ UNCHANGED <<withdrawn, withdrawals>>

CommitCredit(w) ==
  CreditCommitted(w) /\ Return(w, "ok") /\ UNCHANGED faults

-----------------------------------------------------------------------------
\* A statement or the commit fails, the context is cancelled or the process
\* stops: the transaction is rolled back.
Rollback(p) ==
  /\ pc[p] # "idle"
  /\ Fail
  /\ Return(p, "error")
  /\ UNCHANGED tables

\* The commit takes effect and the caller gets an error all the same.
CommitUnseen(p) ==
  /\ Fail
  /\ IF p \in Handlers THEN WithdrawalCommitted(p) ELSE CreditCommitted(p)
  /\ Return(p, "error")

Init ==
  /\ hasRow      = {}
  /\ current     = [u \in Users |-> 0]
  /\ withdrawn   = [u \in Users |-> 0]
  /\ withdrawals = {}
  /\ accruals    = {}
  /\ lock   = [u \in Users |-> NoOne]
  /\ pc     = [p \in Procs |-> "idle"]
  /\ opt    = [h \in Handlers |-> NoOne]
  /\ order  = [w \in Workers |-> NoOne]
  /\ answer = [p \in Procs |-> "none"]
  /\ faults = 0

Withdraw(h) ==
  UpdateBalance(h) \/ LockBalance(h) \/ InsertWithdrawal(h) \/ CommitWithdraw(h)

Credit(w) == InsertAccrual(w) \/ UpsertBalance(w) \/ CommitCredit(w)

Next ==
  \/ \E h \in Handlers : Withdraw(h) \/ \E r \in WithdrawOpt : BeginWithdraw(h, r)
  \/ \E w \in Workers  : Credit(w) \/ \E o \in Orders : BeginCredit(w, o)
  \/ \E p \in Procs    : Rollback(p) \/ CommitUnseen(p)

Spec == Init /\ [][Next]_vars

\* Every caller goes on, and the database serves those that wait for a lock
\* in the order they came, so none waits for ever while others pass.
Fairness ==
  /\ \A h \in Handlers : /\ WF_vars(UpdateBalance(h) \/ InsertWithdrawal(h) \/ CommitWithdraw(h))
                         /\ SF_vars(LockBalance(h))
  /\ \A w \in Workers  : /\ SF_vars(InsertAccrual(w)) /\ SF_vars(UpsertBalance(w))
                         /\ WF_vars(CommitCredit(w))

FairSpec == Spec /\ Fairness

-----------------------------------------------------------------------------
\* Every variable has its type; rows of withdrawals are whole requests.
TypeOK ==
  /\ hasRow      \in SUBSET Users
  /\ current     \in [Users -> Int]
  /\ withdrawn   \in [Users -> Int]
  /\ withdrawals \in SUBSET WithdrawOpt
  /\ accruals    \in SUBSET Orders
  /\ lock   \in [Users -> Procs \union {NoOne}]
  /\ pc     \in [Procs -> {"idle", "update", "lock", "insert", "upsert", "commit"}]
  /\ opt    \in [Handlers -> WithdrawOpt \union {NoOne}]
  /\ order  \in [Workers -> Orders \union {NoOne}]
  /\ answer \in [Procs -> {"none", "ok", "insufficient", "exists", "error"}]
  /\ faults \in 0 .. MaxFaults

\* No balance is overdrawn, however many withdrawals of whatever sums run at a
\* time: the guard of the UPDATE is looked at again when the row's lock is
\* granted.
NeverOverdrawn == \A u \in Users : current[u] >= 0

\* What the rows of balance_accruals and of withdrawals add up to.
Credited(u) == SumFunctionOnSet(Reward, {o \in accruals : Owner[o] = u})

Spent(u) == SumFunctionOnSet([w \in WithdrawOpt |-> w.sum], {w \in withdrawals : w.user = u})

\* Each user's balance is what was credited less what was withdrawn, and
\* "withdrawn" is the sum of the rows of withdrawals: no update is lost and
\* none of the two writes of a transaction is without the other.
BooksBalance ==
  \A u \in Users : withdrawn[u] = Spent(u) /\ current[u] = Credited(u) - Spent(u)

\* A user withdraws at most once for an order number.
OneWithdrawalPerNumber ==
  \A v, w \in withdrawals : v.user = w.user /\ v.order = w.order => v = w

\* The transactions implement the atomic operations of Ledger: the answer a
\* caller gets is true at the moment its last statement runs.
Atomic ==
  INSTANCE Ledger
  WITH current <- current, withdrawn <- withdrawn, withdrawals <- withdrawals,
       accruals <- accruals, opt <- opt, order <- order, answer <- answer

ImplementsLedger == Atomic!Spec

\* The transaction q has what p waits for: the row of p's user, or the row of
\* balance_accruals that p wants to insert.
WaitsFor(p, q) ==
  \/ p \in Handlers /\ pc[p] = "lock"   /\ lock[opt[p].user] = q
  \/ p \in Workers  /\ pc[p] = "upsert" /\ lock[Owner[order[p]]] = q
  \/ p \in Workers  /\ pc[p] = "insert" /\ q \in Inserting(order[p])

Runs(p) == pc[p] # "idle" /\ \A q \in Procs : ~WaitsFor(p, q)

\* The two transactions lock in an order that admits no circle: behind every
\* caller, at most two locks away, is a transaction that waits for nobody.
NobodyIsStuck ==
  \A p \in Procs : pc[p] # "idle" =>
    \E r \in Procs :
      /\ Runs(r)
      /\ r = p \/ WaitsFor(p, r) \/ \E q \in Procs : WaitsFor(p, q) /\ WaitsFor(q, r)

\* No two transactions wait for each other: every caller gets an answer.
EveryCallReturns == \A p \in Procs : pc[p] # "idle" ~> pc[p] = "idle"

-----------------------------------------------------------------------------
(* The inductive invariant: who holds which lock, and what a transaction     *)
(* that waits for its commit may rely on.                                    *)

\* A transaction holds the row of its user from the write to its end.
Writes(p, u) ==
  \/ p \in Handlers /\ pc[p] \in {"insert", "commit"} /\ opt[p].user = u
  \/ p \in Workers  /\ pc[p] = "commit" /\ Owner[order[p]] = u

LockIsHeld ==
  \A u \in Users : \A p \in Procs : Writes(p, u) <=> lock[u] = p

PcOK ==
  /\ \A h \in Handlers : pc[h] # "upsert"
  /\ \A w \in Workers  : pc[w] \in {"idle", "insert", "upsert", "commit"}
  /\ \A h \in Handlers : opt[h] = NoOne   <=> pc[h] = "idle"
  /\ \A w \in Workers  : order[w] = NoOne <=> pc[w] = "idle"

\* Every credit made a row.
RowsOfCredits == hasRow = {Owner[o] : o \in accruals}

\* What was checked under the lock still holds at the commit.
WithdrawalIsCovered ==
  \A h \in Handlers :
    /\ pc[h] \in {"insert", "commit"} => Qualifies(opt[h])
    /\ pc[h] = "commit"               => ~Exists(opt[h])

\* An order a worker is crediting is not credited, nor by another one.
CreditIsNew ==
  /\ \A w \in Workers : pc[w] \in {"upsert", "commit"} => order[w] \notin accruals
  /\ \A v, w \in Workers :
       /\ pc[v] \in {"upsert", "commit"} /\ pc[w] \in {"upsert", "commit"}
       /\ order[v] = order[w]
       => v = w

IInv ==
  /\ TypeOK /\ PcOK /\ LockIsHeld /\ RowsOfCredits /\ WithdrawalIsCovered /\ CreditIsNew
  /\ NeverOverdrawn /\ OneWithdrawalPerNumber
=============================================================================
