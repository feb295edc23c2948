------------------------------- MODULE Ledger -------------------------------
(***************************************************************************)
(* What the service promises about balances: every withdrawal and every    *)
(* credit takes effect at one instant, completely or not at all, and the   *)
(* caller is told which, unless it is told of an error.  Only after an     *)
(* error it does not know.                                                 *)
(*                                                                         *)
(* This is a specification for BalanceRepo to implement; it translates no  *)
(* code of its own.                                                        *)
(***************************************************************************)
EXTENDS Integers

CONSTANTS
  Users,
  Orders,     \* orders that can be credited
  Owner,      \* the user of each of them
  Reward,     \* its amount
  Numbers,    \* order numbers a withdrawal can be for
  Sums,       \* sums it can be of
  Handlers,   \* callers of WithdrawBalance
  Workers,    \* callers of CreditAccrual
  NoOne       \* the request of a caller that waits for no answer

WithdrawOpt == [user : Users, order : Numbers, sum : Sums]

VARIABLES
  current, withdrawn,   \* of each user
  withdrawals,          \* the withdrawals made
  accruals,             \* the orders credited
  opt,                  \* what a handler asks for
  order,                \* what a worker asks for
  answer                \* the last answer of each caller

vars == <<current, withdrawn, withdrawals, accruals, opt, order, answer>>

Covered(r) ==
  /\ \E o \in accruals : Owner[o] = r.user
  /\ current[r.user] >= r.sum

Exists(r) == \E w \in withdrawals : w.user = r.user /\ w.order = r.order

Busy(p) == (p \in Handlers /\ opt[p] # NoOne) \/ (p \in Workers /\ order[p] # NoOne)

Answered(p, a) ==
  /\ Busy(p)
  /\ opt'    = [h \in Handlers |-> IF h = p THEN NoOne ELSE opt[h]]
  /\ order'  = [w \in Workers |-> IF w = p THEN NoOne ELSE order[w]]
  /\ answer' = [answer EXCEPT ![p] = a]

AskWithdrawal(h, r) ==
  /\ ~Busy(h)
  /\ opt'    = [opt EXCEPT ![h] = r]
  /\ answer' = [answer EXCEPT ![h] = "none"]
  /\ UNCHANGED <<current, withdrawn, withdrawals, accruals, order>>

AskCredit(w, o) ==
  /\ ~Busy(w)
  /\ order'  = [order EXCEPT ![w] = o]
  /\ answer' = [answer EXCEPT ![w] = "none"]
  /\ UNCHANGED <<current, withdrawn, withdrawals, accruals, opt>>

Withdraw(h) ==
  /\ Busy(h) /\ Covered(opt[h]) /\ ~Exists(opt[h])
  /\ current'     = [current   EXCEPT ![opt[h].user] = @ - opt[h].sum]
  /\ withdrawn'   = [withdrawn EXCEPT ![opt[h].user] = @ + opt[h].sum]
  /\ withdrawals' = withdrawals \union {opt[h]}
  /\ Answered(h, "ok") \/ Answered(h, "error")
  /\ UNCHANGED accruals

RefuseWithdrawal(h) ==
  /\ Busy(h)
  /\ \/ ~Covered(opt[h]) /\ Answered(h, "insufficient")
     \/ Exists(opt[h]) /\ Answered(h, "exists")
  /\ UNCHANGED <<current, withdrawn, withdrawals, accruals>>

Credit(w) ==
  /\ Busy(w) /\ order[w] \notin accruals
  /\ current'  = [current EXCEPT ![Owner[order[w]]] = @ + Reward[order[w]]]
  /\ accruals' = accruals \union {order[w]}
  /\ Answered(w, "ok") \/ Answered(w, "error")
  /\ UNCHANGED <<withdrawn, withdrawals>>

SkipCredit(w) ==
  /\ Busy(w) /\ order[w] \in accruals
  /\ Answered(w, "ok")
  /\ UNCHANGED <<current, withdrawn, withdrawals, accruals>>

Fail(p) ==
  /\ Answered(p, "error")
  /\ UNCHANGED <<current, withdrawn, withdrawals, accruals>>

Init ==
  /\ current     = [u \in Users |-> 0]
  /\ withdrawn   = [u \in Users |-> 0]
  /\ withdrawals = {}
  /\ accruals    = {}
  /\ opt    = [h \in Handlers |-> NoOne]
  /\ order  = [w \in Workers |-> NoOne]
  /\ answer = [p \in Handlers \union Workers |-> "none"]

Next ==
  \/ \E h \in Handlers : \/ \E r \in WithdrawOpt : AskWithdrawal(h, r)
                         \/ Withdraw(h) \/ RefuseWithdrawal(h)
  \/ \E w \in Workers : \/ \E o \in Orders : AskCredit(w, o)
                        \/ Credit(w) \/ SkipCredit(w)
  \/ \E p \in Handlers \union Workers : Fail(p)

Spec == Init /\ [][Next]_vars
=============================================================================
