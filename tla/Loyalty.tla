------------------------------ MODULE Loyalty ------------------------------
(***************************************************************************)
(* The service as its users see it: orders, which earn points, and the     *)
(* balance, which they spend, with the pages that show both.  The          *)
(* transactions of the balance are those of BalanceRepo, statement by      *)
(* statement.  The orders are the promise OrderBook, which AccrualPool     *)
(* implements; of the pool, what is kept here is that a worker calls       *)
(* CreditAccrual after the status PROCESSED was committed, and that        *)
(* several may do so for one order.                                        *)
(*                                                                         *)
(* Every page is one SELECT.  The order of its rows is left out.           *)
(*                                                                         *)
(* A definition marked "Variant" is a faulty form of the one after it, to  *)
(* show that a property notices the difference.  Nothing uses it.          *)
(***************************************************************************)
EXTENDS BalanceRepo, OrderStatus

VARIABLES
  status, accrual, ext,   \* as in OrderBook
  page,                   \* the balance each user was shown last
  listed,                 \* the withdrawals each user was shown last
  credited,               \* history: what user_balance got for each order
  told                    \* history: numbers whose withdrawal a user knows of,
                          \* by the answer 200 or 409

loyaltyVars == <<vars, status, accrual, ext, page, listed, credited, told>>

Book ==
  INSTANCE OrderBook
  WITH status <- status, accrual <- accrual, credited <- credited, ext <- ext

-----------------------------------------------------------------------------
\* The upload of an order, and what becomes of it.
OrderStep(o) ==
  /\ UNCHANGED <<vars, page, listed, credited, told>>
  /\ Book!Upload(o) \/ Book!Start(o) \/ Book!Reject(o) \/ Book!Approve(o) \/ Book!Progress(o)

\* Variant: the credit comes before the UPDATE of the status.
CreditOrderEarly(w, o) ==
  /\ status[o] \in Pending /\ ext[o] = "PROCESSED"
  /\ BeginCredit(w, o)
  /\ UNCHANGED <<status, accrual, ext, page, listed, credited, told>>

CreditOrder(w, o) ==
  /\ status[o] = "PROCESSED"
  /\ BeginCredit(w, o)
  /\ UNCHANGED <<status, accrual, ext, page, listed, credited, told>>

\* The points of a user in user_balance, those spent included.
Points(u) == current[u] + withdrawn[u]

\* A step of a transaction; the handler answers 200 or 409 when it is over.
\* What a worker's step adds to the points was added for its order.
Transact(p, Step) ==
  /\ Step
  /\ credited' = [o \in Orders |->
                    IF p \in Workers /\ order[p] = o
                    THEN credited[o] + (Points(Owner[o])' - Points(Owner[o]))
                    ELSE credited[o]]
  /\ told' = [u \in Users |->
                IF p \in Handlers /\ pc[p] # "idle" /\ answer'[p] \in {"ok", "exists"}
                   /\ opt[p].user = u
                THEN told[u] \union {opt[p].order} ELSE told[u]]
  /\ UNCHANGED <<status, accrual, ext, page, listed>>

\* A user without a row has nothing.
SelectBalance(u) ==
  IF u \in hasRow
  THEN [current |-> current[u], withdrawn |-> withdrawn[u]]
  ELSE [current |-> 0, withdrawn |-> 0]

SelectWithdrawals(u) == {w \in withdrawals : w.user = u}

SelectOrders(u) == {o \in Orders : Owner[o] = u /\ status[o] # "ABSENT"}

\* An accrual is shown with the status PROCESSED only.
ToDTO(o) == [number  |-> o, status |-> status[o],
             accrual |-> IF status[o] = "PROCESSED" THEN accrual[o] ELSE 0]

GetOrders(u) == [o \in SelectOrders(u) |-> ToDTO(o)]

GetBalance(u) ==
  /\ page' = [page EXCEPT ![u] = SelectBalance(u)]
  /\ UNCHANGED <<vars, status, accrual, ext, listed, credited, told>>

GetWithdrawals(u) ==
  /\ listed' = [listed EXCEPT ![u] = SelectWithdrawals(u)]
  /\ UNCHANGED <<vars, status, accrual, ext, page, credited, told>>

LoyaltyInit ==
  /\ Init /\ Book!Init
  /\ page   = [u \in Users |-> [current |-> 0, withdrawn |-> 0]]
  /\ listed = [u \in Users |-> {}]
  /\ told   = [u \in Users |-> {}]

LoyaltyNext ==
  \/ \E o \in Orders : OrderStep(o) \/ \E w \in Workers : CreditOrder(w, o)
  \/ \E h \in Handlers : Transact(h, Withdraw(h) \/ \E r \in WithdrawOpt : BeginWithdraw(h, r))
  \/ \E w \in Workers  : Transact(w, Credit(w))
  \/ \E p \in Procs    : Transact(p, Rollback(p) \/ CommitUnseen(p))
  \/ \E u \in Users    : GetBalance(u) \/ GetWithdrawals(u)

LoyaltySpec == LoyaltyInit /\ [][LoyaltyNext]_loyaltyVars

FairLoyaltySpec == LoyaltySpec /\ Fairness

-----------------------------------------------------------------------------
\* The transactions of the balance keep the promise of OrderBook: what they
\* add to user_balance for an order, whoever calls CreditAccrual for it, how
\* often and with what failures, is added after PROCESSED only, once, and is
\* the reward.
ImplementsOrderBook == Book!Spec

\* Whatever balance a user was shown, spent points included, is explained by
\* the list of orders, if the list is asked for afterwards: the points come
\* from orders shown as PROCESSED.  The two pages are two transactions, and
\* so are the status and the credit.
BalanceIsExplained ==
  \A u \in Users :
    LET list == GetOrders(u)
    IN  page[u].current + page[u].withdrawn
          =< SumFunction([o \in DOMAIN list |-> list[o].accrual])

\* Of a withdrawal the user was told of, and of one that was listed, every
\* later list knows.
ToldIsListed ==
  \A u \in Users :
    LET now == SelectWithdrawals(u)
    IN  listed[u] \subseteq now /\ told[u] \subseteq {w.order : w \in now}
=============================================================================
