--------------------------- MODULE LoyaltyProofs ---------------------------
(***************************************************************************)
(* For any number of users, orders, requests, handlers and workers, and    *)
(* whatever sums are asked for.  The first part is about the transactions  *)
(* of BalanceRepo: no balance is overdrawn, an order number is withdrawn   *)
(* for once, the books balance, and Ledger is implemented.  The second     *)
(* part is about the service, whose steps are steps of BalanceRepo: only a *)
(* PROCESSED order is credited, exactly and once; what the pages show      *)
(* explains the balance; and a withdrawal a user was told of is listed.    *)
(***************************************************************************)
EXTENDS Loyalty, SumProofs

Answers == {"none", "ok", "insufficient", "exists", "error"}

THEOREM InitInvariant == Init => IInv
<1> SUFFICES ASSUME Init PROVE IInv
  OBVIOUS
<1>1. TypeOK
  BY FaultsAssumption DEF Init, TypeOK
<1>2. PcOK
  BY DEF Init, PcOK, Procs
<1>3. LockIsHeld
  BY ProcsAssumption DEF Init, LockIsHeld, Writes, Procs
<1>4. RowsOfCredits /\ WithdrawalIsCovered /\ CreditIsNew
  BY DEF Init, RowsOfCredits, WithdrawalIsCovered, CreditIsNew, Procs
<1>5. NeverOverdrawn /\ OneWithdrawalPerNumber
  BY DEF Init, NeverOverdrawn, OneWithdrawalPerNumber
<1> QED BY <1>1, <1>2, <1>3, <1>4, <1>5 DEF IInv

-----------------------------------------------------------------------------
(* Facts about states that satisfy the invariant.                            *)

\* A busy handler has a request, a busy worker an order.
LEMMA RequestOf ==
  ASSUME IInv, NEW h \in Handlers, pc[h] # "idle"
  PROVE  opt[h] \in WithdrawOpt
  BY DEF IInv, TypeOK, PcOK

LEMMA OrderOf ==
  ASSUME IInv, NEW w \in Workers, pc[w] # "idle"
  PROVE  order[w] \in Orders
  BY DEF IInv, TypeOK, PcOK

\* Two transactions do not write the row of the same user.
LEMMA WritersExclude ==
  ASSUME IInv, NEW u \in Users, NEW p \in Procs, NEW q \in Procs,
         Writes(p, u), Writes(q, u)
  PROVE  p = q
  BY DEF IInv, LockIsHeld

-----------------------------------------------------------------------------
(* What the end of a transaction does to the variables of control.           *)

LEMMA Returned ==
  ASSUME IInv, NEW p \in Procs, NEW a \in Answers, Return(p, a)
  PROVE  /\ pc'     \in [Procs -> {"idle", "update", "lock", "insert", "upsert", "commit"}]
         /\ lock'   \in [Users -> Procs \union {NoOne}]
         /\ opt'    \in [Handlers -> WithdrawOpt \union {NoOne}]
         /\ order'  \in [Workers -> Orders \union {NoOne}]
         /\ answer' \in [Procs -> Answers]
         /\ pc'[p] = "idle"
         /\ \A q \in Procs : q # p => pc'[q] = pc[q]
         /\ \A h \in Handlers : h # p => opt'[h] = opt[h]
         /\ \A w \in Workers : w # p => order'[w] = order[w]
         /\ PcOK' /\ LockIsHeld'
<1>1. /\ pc' = [pc EXCEPT ![p] = "idle"]
      /\ lock'  = [u \in Users |-> IF lock[u] = p THEN NoOne ELSE lock[u]]
      /\ opt'   = [h \in Handlers |-> IF h = p THEN NoOne ELSE opt[h]]
      /\ order' = [w \in Workers |-> IF w = p THEN NoOne ELSE order[w]]
      /\ answer' = [answer EXCEPT ![p] = a]
  BY DEF Return, Goto
<1>2. /\ pc' \in [Procs -> {"idle", "update", "lock", "insert", "upsert", "commit"}]
      /\ pc'[p] = "idle"
      /\ \A q \in Procs : q # p => pc'[q] = pc[q]
  BY <1>1 DEF IInv, TypeOK
<1>3. lock' \in [Users -> Procs \union {NoOne}]
  BY <1>1 DEF IInv, TypeOK
<1>4. /\ opt' \in [Handlers -> WithdrawOpt \union {NoOne}]
      /\ \A h \in Handlers : h # p => opt'[h] = opt[h]
  BY <1>1 DEF IInv, TypeOK
<1>5. /\ order' \in [Workers -> Orders \union {NoOne}]
      /\ \A w \in Workers : w # p => order'[w] = order[w]
  BY <1>1 DEF IInv, TypeOK
<1>6. answer' \in [Procs -> Answers]
  BY <1>1 DEF IInv, TypeOK, Answers
<1>7. PcOK'
  <2>1. \A h \in Handlers : h \in Procs
    BY DEF Procs
  <2>2. \A w \in Workers : w \in Procs
    BY DEF Procs
  <2>3. ASSUME NEW h \in Handlers
        PROVE  pc'[h] # "upsert" /\ (opt'[h] = NoOne <=> pc'[h] = "idle")
    <3>1. CASE h = p
      BY <3>1, <1>1, <1>2
    <3>2. CASE h # p
      BY <3>2, <2>1, <1>2, <1>4 DEF IInv, PcOK
    <3> QED BY <3>1, <3>2
  <2>4. ASSUME NEW w \in Workers
        PROVE  /\ pc'[w] \in {"idle", "insert", "upsert", "commit"}
               /\ order'[w] = NoOne <=> pc'[w] = "idle"
    <3>1. CASE w = p
      BY <3>1, <1>1, <1>2
    <3>2. CASE w # p
      BY <3>2, <2>2, <1>2, <1>5 DEF IInv, PcOK
    <3> QED BY <3>1, <3>2
  <2> QED BY <2>3, <2>4 DEF PcOK
<1>8. LockIsHeld'
  <2> SUFFICES ASSUME NEW u \in Users, NEW q \in Procs
               PROVE  Writes(q, u)' <=> lock'[u] = q
    BY DEF LockIsHeld
  <2>1. CASE q = p
    BY <2>1, <1>1, <1>2, ProcsAssumption DEF Writes
  <2>2. CASE q # p
    <3>1. Writes(q, u)' <=> Writes(q, u)
      BY <2>2, <1>2, <1>4, <1>5 DEF Writes
    <3>2. lock'[u] = q <=> lock[u] = q
      BY <2>2, <1>1, ProcsAssumption
    <3> QED BY <3>1, <3>2 DEF IInv, LockIsHeld
  <2> QED BY <2>1, <2>2
<1> QED BY <1>2, <1>3, <1>4, <1>5, <1>6, <1>7, <1>8

\* A transaction that ends without an effect on the tables.
LEMMA ReturnedOnly ==
  ASSUME IInv, NEW p \in Procs, NEW a \in Answers, Return(p, a),
         UNCHANGED tables, faults' \in 0 .. MaxFaults
  PROVE  IInv'
<1>1. UNCHANGED <<hasRow, current, withdrawn, withdrawals, accruals>>
  BY DEF tables
<1>2. TypeOK'
  BY <1>1, Returned DEF IInv, TypeOK, Answers
<1>3. PcOK' /\ LockIsHeld'
  BY Returned
<1>4. RowsOfCredits' /\ NeverOverdrawn' /\ OneWithdrawalPerNumber'
  BY <1>1 DEF IInv, RowsOfCredits, NeverOverdrawn, OneWithdrawalPerNumber
<1>5. WithdrawalIsCovered'
  <2> SUFFICES ASSUME NEW h \in Handlers
               PROVE  /\ pc'[h] \in {"insert", "commit"} => Qualifies(opt[h])' 
                      /\ pc'[h] = "commit" => ~Exists(opt[h])'
    BY DEF WithdrawalIsCovered
  <2>1. h \in Procs
    BY DEF Procs
  <2>2. CASE h = p
    BY <2>2, Returned
  <2>3. CASE h # p
    <3>1. pc'[h] = pc[h] /\ opt'[h] = opt[h]
      BY <2>1, <2>3, Returned
    <3> QED BY <3>1, <1>1 DEF IInv, WithdrawalIsCovered, Qualifies, Exists
  <2> QED BY <2>2, <2>3
<1>6. CreditIsNew'
  <2>1. \A w \in Workers : pc'[w] # "idle" =>
          w \in Procs /\ pc'[w] = pc[w] /\ order'[w] = order[w]
    BY Returned DEF Procs
  <2> QED BY <2>1, <1>1 DEF IInv, CreditIsNew
<1> QED BY <1>2, <1>3, <1>4, <1>5, <1>6 DEF IInv

\* A step that only moves the pc of p to label l, taking the lock of user v if
\* "takes", and whose new pc claims no more than is true.
Advances(p, l, lk) ==
  /\ pc[p] # "idle"
  /\ l \in {"lock", "insert", "upsert", "commit"}
  /\ pc' = [pc EXCEPT ![p] = l]
  /\ lock' = lk
  /\ UNCHANGED <<hasRow, current, withdrawn, withdrawals, accruals, opt, order, answer, faults>>

LEMMA Advanced ==
  ASSUME IInv, NEW p \in Procs, NEW l, NEW lk, Advances(p, l, lk),
         lk \in [Users -> Procs \union {NoOne}],
         \A u \in Users : Writes(p, u)' <=> lk[u] = p,
         \A u \in Users, q \in Procs : q # p => (lk[u] = q <=> lock[u] = q),
         p \in Handlers =>
           /\ l # "upsert"
           /\ l \in {"insert", "commit"} => Qualifies(opt[p])
           /\ l = "commit" => ~Exists(opt[p]),
         p \in Workers =>
           /\ l # "lock"
           /\ l \in {"upsert", "commit"} =>
                /\ order[p] \notin accruals
                /\ \A w \in Workers : w # p /\ pc[w] \in {"upsert", "commit"} =>
                                        order[w] # order[p]
  PROVE  IInv'
<1> USE DEF Advances
<1>1. TypeOK'
  BY DEF IInv, TypeOK
<1>2. pc'[p] = l /\ \A q \in Procs : q # p => pc'[q] = pc[q]
  BY DEF IInv, TypeOK
<1>3. Handlers \subseteq Procs /\ Workers \subseteq Procs
  BY DEF Procs
<1>4. PcOK'
  <2>1. ASSUME NEW h \in Handlers
        PROVE  pc'[h] # "upsert" /\ (opt'[h] = NoOne <=> pc'[h] = "idle")
    BY <1>2, <1>3 DEF IInv, PcOK
  <2>2. ASSUME NEW w \in Workers
        PROVE  /\ pc'[w] \in {"idle", "insert", "upsert", "commit"}
               /\ order'[w] = NoOne <=> pc'[w] = "idle"
    BY <1>2, <1>3 DEF IInv, PcOK
  <2> QED BY <2>1, <2>2 DEF PcOK
<1>5. LockIsHeld'
  <2> SUFFICES ASSUME NEW u \in Users, NEW q \in Procs
               PROVE  Writes(q, u)' <=> lk[u] = q
    BY DEF LockIsHeld
  <2>1. CASE q = p
    BY <2>1
  <2>2. CASE q # p
    <3>1. Writes(q, u)' <=> Writes(q, u)
      BY <2>2, <1>2 DEF Writes
    <3> QED BY <2>2, <3>1 DEF IInv, LockIsHeld
  <2> QED BY <2>1, <2>2
<1>6. RowsOfCredits' /\ NeverOverdrawn' /\ OneWithdrawalPerNumber'
  BY DEF IInv, RowsOfCredits, NeverOverdrawn, OneWithdrawalPerNumber
<1>7. WithdrawalIsCovered'
  <2> SUFFICES ASSUME NEW h \in Handlers
               PROVE  /\ pc'[h] \in {"insert", "commit"} => Qualifies(opt[h])
                      /\ pc'[h] = "commit" => ~Exists(opt[h])
    BY DEF WithdrawalIsCovered, Qualifies, Exists
  <2>1. CASE h = p
    BY <2>1, <1>2
  <2>2. CASE h # p
    BY <2>2, <1>2, <1>3 DEF IInv, WithdrawalIsCovered
  <2> QED BY <2>1, <2>2
<1>8. CreditIsNew'
  <2>1. ASSUME NEW w \in Workers, pc'[w] \in {"upsert", "commit"}
        PROVE  order[w] \notin accruals
    BY <2>1, <1>2, <1>3 DEF IInv, CreditIsNew
  <2>2. ASSUME NEW v \in Workers, NEW w \in Workers, v # w,
               pc'[v] \in {"upsert", "commit"}, pc'[w] \in {"upsert", "commit"}
        PROVE  order[v] # order[w]
    BY <2>2, <1>2, <1>3 DEF IInv, CreditIsNew
  <2> QED BY <2>1, <2>2 DEF CreditIsNew
<1> QED BY <1>1, <1>4, <1>5, <1>6, <1>7, <1>8 DEF IInv

-----------------------------------------------------------------------------
(* The steps of WithdrawBalance.                                             *)

LEMMA BeginWithdrawInvariant ==
  ASSUME IInv, NEW h \in Handlers, NEW r \in WithdrawOpt, BeginWithdraw(h, r)
  PROVE  IInv'
<1>1. /\ pc[h] = "idle"
      /\ opt' = [opt EXCEPT ![h] = r]
      /\ answer' = [answer EXCEPT ![h] = "none"]
      /\ pc' = [pc EXCEPT ![h] = "update"]
      /\ UNCHANGED <<hasRow, current, withdrawn, withdrawals, accruals, order, lock, faults>>
  BY DEF BeginWithdraw, Goto, tables
<1>2. h \in Procs /\ Workers \subseteq Procs /\ Handlers \subseteq Procs /\ h \notin Workers
  BY ProcsAssumption DEF Procs
<1>3. TypeOK'
  BY <1>1, <1>2 DEF IInv, TypeOK
<1>4. /\ pc'[h] = "update" /\ opt'[h] = r
      /\ \A q \in Procs : q # h => pc'[q] = pc[q]
      /\ \A q \in Handlers : q # h => opt'[q] = opt[q]
  BY <1>1, <1>2 DEF IInv, TypeOK
<1>5. PcOK'
  BY <1>1, <1>2, <1>4, RequestsAssumption DEF IInv, PcOK
<1>6. LockIsHeld'
  <2> SUFFICES ASSUME NEW u \in Users, NEW q \in Procs
               PROVE  Writes(q, u)' <=> lock[u] = q
    BY <1>1 DEF LockIsHeld
  <2>1. Writes(q, u)' <=> Writes(q, u)
    BY <1>1, <1>2, <1>4 DEF Writes
  <2> QED BY <2>1 DEF IInv, LockIsHeld
<1>7. RowsOfCredits' /\ NeverOverdrawn' /\ OneWithdrawalPerNumber'
  BY <1>1 DEF IInv, RowsOfCredits, NeverOverdrawn, OneWithdrawalPerNumber
<1>8. WithdrawalIsCovered'
  BY <1>1, <1>2, <1>4 DEF IInv, WithdrawalIsCovered, Qualifies, Exists
<1>9. CreditIsNew'
  BY <1>1, <1>2, <1>4 DEF IInv, CreditIsNew
<1> QED BY <1>3, <1>5, <1>6, <1>7, <1>8, <1>9 DEF IInv

LEMMA UpdateBalanceInvariant ==
  ASSUME IInv, NEW h \in Handlers, UpdateBalance(h)
  PROVE  IInv'
<1>1. h \in Procs /\ h \notin Workers
  BY ProcsAssumption DEF Procs
<1>2. pc[h] = "update" /\ UNCHANGED tables /\ faults' = faults
  BY DEF UpdateBalance
<1>3. CASE Qualifies(opt[h])
  <2>1. Advances(h, "lock", lock)
    BY <1>2, <1>3 DEF UpdateBalance, Goto, Advances, tables, requests
  <2>2. \A u \in Users : Writes(h, u)' <=> lock[u] = h
    BY <1>1, <1>2, <2>1 DEF IInv, TypeOK, LockIsHeld, Writes, Advances
  <2> QED BY <1>1, <2>1, <2>2, Advanced DEF IInv, TypeOK
<1>4. CASE ~Qualifies(opt[h])
  <2>1. Return(h, "insufficient")
    BY <1>4 DEF UpdateBalance
  <2> QED BY <1>1, <1>2, <2>1, ReturnedOnly DEF Answers, IInv, TypeOK
<1> QED BY <1>3, <1>4

LEMMA LockBalanceInvariant ==
  ASSUME IInv, NEW h \in Handlers, LockBalance(h)
  PROVE  IInv'
<1>1. h \in Procs /\ h \notin Workers
  BY ProcsAssumption DEF Procs
<1>2. /\ pc[h] = "lock" /\ lock[opt[h].user] = NoOne
      /\ UNCHANGED tables /\ faults' = faults
  BY DEF LockBalance
<1>3. CASE Qualifies(opt[h])
  <2>0. opt[h].user \in Users
    BY <1>2, RequestOf DEF WithdrawOpt
  <2> DEFINE lk == [lock EXCEPT ![opt[h].user] = h]
  <2>1. Advances(h, "insert", lk)
    BY <1>2, <1>3 DEF LockBalance, Goto, Advances, tables, requests
  <2>2. \A u \in Users : lock[u] # h
    BY <1>1, <1>2 DEF IInv, LockIsHeld, Writes
  <2>3. \A u \in Users : Writes(h, u)' <=> lk[u] = h
    BY <1>1, <2>0, <2>1, <2>2 DEF IInv, TypeOK, Writes, Advances
  <2>4. \A u \in Users, q \in Procs : q # h => (lk[u] = q <=> lock[u] = q)
    BY <1>2, <2>0, ProcsAssumption DEF IInv, TypeOK
  <2>5. lk \in [Users -> Procs \union {NoOne}]
    BY <1>1, <2>0 DEF IInv, TypeOK
  <2> HIDE DEF lk
  <2> QED BY <1>1, <1>3, <2>1, <2>3, <2>4, <2>5, Advanced
<1>4. CASE ~Qualifies(opt[h])
  <2>1. Return(h, "insufficient")
    BY <1>4 DEF LockBalance
  <2> QED BY <1>1, <1>2, <2>1, ReturnedOnly DEF Answers, IInv, TypeOK
<1> QED BY <1>3, <1>4

LEMMA InsertWithdrawalInvariant ==
  ASSUME IInv, NEW h \in Handlers, InsertWithdrawal(h)
  PROVE  IInv'
<1>1. h \in Procs /\ h \notin Workers
  BY ProcsAssumption DEF Procs
<1>2. pc[h] = "insert" /\ UNCHANGED tables /\ faults' = faults
  BY DEF InsertWithdrawal
<1>3. CASE ~Exists(opt[h])
  <2>1. Advances(h, "commit", lock)
    BY <1>2, <1>3 DEF InsertWithdrawal, Goto, Advances, tables, requests
  <2>2. \A u \in Users : Writes(h, u)' <=> lock[u] = h
    BY <1>1, <1>2, <2>1 DEF IInv, TypeOK, LockIsHeld, Writes, Advances
  <2>3. Qualifies(opt[h])
    BY <1>2 DEF IInv, WithdrawalIsCovered
  <2> QED BY <1>1, <1>3, <2>1, <2>2, <2>3, Advanced DEF IInv, TypeOK
<1>4. CASE Exists(opt[h])
  <2>1. Return(h, "exists")
    BY <1>4 DEF InsertWithdrawal
  <2> QED BY <1>1, <1>2, <2>1, ReturnedOnly DEF Answers, IInv, TypeOK
<1> QED BY <1>3, <1>4

\* The commit: the other withdrawals that hold a lock are of other users.
LEMMA WithdrawalCommittedInvariant ==
  ASSUME IInv, NEW h \in Handlers, NEW a \in Answers,
         WithdrawalCommitted(h), Return(h, a), faults' \in 0 .. MaxFaults
  PROVE  IInv'
<1> DEFINE r == opt[h]
<1>1. h \in Procs /\ Handlers \subseteq Procs /\ Workers \subseteq Procs /\ h \notin Workers
  BY ProcsAssumption DEF Procs
<1>2. /\ pc[h] = "commit"
      /\ current'     = [current   EXCEPT ![r.user] = @ - r.sum]
      /\ withdrawn'   = [withdrawn EXCEPT ![r.user] = @ + r.sum]
      /\ withdrawals' = withdrawals \union {r}
      /\ UNCHANGED <<hasRow, accruals>>
  BY DEF WithdrawalCommitted
<1>3. /\ r \in WithdrawOpt /\ r.user \in Users /\ r.sum \in Int
      /\ current[r.user] >= r.sum /\ ~Exists(r) /\ Writes(h, r.user)
  BY <1>1, <1>2, RequestOf, SumsAssumption
  DEF WithdrawOpt, IInv, WithdrawalIsCovered, Qualifies, Writes
<1> HIDE DEF r
<1>4. TypeOK'
  <2>1. current' \in [Users -> Int] /\ withdrawn' \in [Users -> Int]
    BY <1>2, <1>3 DEF IInv, TypeOK
  <2>2. withdrawals' \in SUBSET WithdrawOpt
    BY <1>2, <1>3 DEF IInv, TypeOK
  <2> QED BY <1>1, <1>2, <2>1, <2>2, Returned DEF IInv, TypeOK, Answers
<1>5. PcOK' /\ LockIsHeld'
  BY <1>1, Returned
<1>6. RowsOfCredits'
  BY <1>2 DEF IInv, RowsOfCredits
<1>7. NeverOverdrawn'
  <2> SUFFICES ASSUME NEW u \in Users PROVE current'[u] >= 0
    BY DEF NeverOverdrawn
  <2>1. CASE u = r.user
    BY <2>1, <1>2, <1>3 DEF IInv, TypeOK
  <2>2. CASE u # r.user
    BY <2>2, <1>2, <1>3 DEF IInv, TypeOK, NeverOverdrawn
  <2> QED BY <2>1, <2>2
<1>8. OneWithdrawalPerNumber'
  BY <1>2, <1>3 DEF IInv, OneWithdrawalPerNumber, Exists
<1>9. WithdrawalIsCovered'
  <2> SUFFICES ASSUME NEW g \in Handlers
               PROVE  /\ pc'[g] \in {"insert", "commit"} => Qualifies(opt[g])'
                      /\ pc'[g] = "commit" => ~Exists(opt[g])'
    BY DEF WithdrawalIsCovered
  <2>1. CASE g = h
    BY <2>1, <1>1, Returned
  <2>2. CASE g # h /\ pc[g] \notin {"insert", "commit"}
    BY <2>2, <1>1, Returned
  <2>3. CASE g # h /\ pc[g] \in {"insert", "commit"}
    <3>1. pc'[g] = pc[g] /\ opt'[g] = opt[g]
      BY <2>3, <1>1, Returned
    <3>2. opt[g] \in WithdrawOpt /\ opt[g].user \in Users
      BY <2>3, <1>1, RequestOf DEF WithdrawOpt
    <3>3. opt[g].user # r.user
      <4>1. Writes(g, opt[g].user)
        BY <2>3 DEF Writes
      <4> QED BY <4>1, <1>1, <1>3, <2>3, <3>2, WritersExclude
    <3>4. Qualifies(opt[g])'
      BY <1>2, <1>3, <2>3, <3>1, <3>2, <3>3 DEF IInv, TypeOK, WithdrawalIsCovered, Qualifies
    <3>5. pc'[g] = "commit" => ~Exists(opt[g])'
      BY <1>2, <2>3, <3>1, <3>3 DEF IInv, WithdrawalIsCovered, Exists
    <3> QED BY <3>4, <3>5
  <2> QED BY <2>1, <2>2, <2>3
<1>10. CreditIsNew'
  <2>1. \A w \in Workers : pc'[w] = pc[w] /\ order'[w] = order[w]
    BY <1>1, Returned
  <2> QED BY <2>1, <1>2 DEF IInv, CreditIsNew
<1> QED BY <1>4, <1>5, <1>6, <1>7, <1>8, <1>9, <1>10 DEF IInv

-----------------------------------------------------------------------------
(* The steps of CreditAccrual.                                               *)

LEMMA BeginCreditInvariant ==
  ASSUME IInv, NEW w \in Workers, NEW o \in Orders, BeginCredit(w, o)
  PROVE  IInv'
<1>1. /\ pc[w] = "idle"
      /\ order' = [order EXCEPT ![w] = o]
      /\ answer' = [answer EXCEPT ![w] = "none"]
      /\ pc' = [pc EXCEPT ![w] = "insert"]
      /\ UNCHANGED <<hasRow, current, withdrawn, withdrawals, accruals, opt, lock, faults>>
  BY DEF BeginCredit, Goto, tables
<1>2. w \in Procs /\ Workers \subseteq Procs /\ Handlers \subseteq Procs /\ w \notin Handlers
  BY ProcsAssumption DEF Procs
<1>3. TypeOK'
  BY <1>1, <1>2 DEF IInv, TypeOK
<1>4. /\ pc'[w] = "insert" /\ order'[w] = o
      /\ \A q \in Procs : q # w => pc'[q] = pc[q]
      /\ \A q \in Workers : q # w => order'[q] = order[q]
  BY <1>1, <1>2 DEF IInv, TypeOK
<1>5. PcOK'
  BY <1>1, <1>2, <1>4, OrdersAssumption DEF IInv, PcOK
<1>6. LockIsHeld'
  <2> SUFFICES ASSUME NEW u \in Users, NEW q \in Procs
               PROVE  Writes(q, u)' <=> lock[u] = q
    BY <1>1 DEF LockIsHeld
  <2>1. Writes(q, u)' <=> Writes(q, u)
    BY <1>1, <1>2, <1>4 DEF Writes
  <2> QED BY <2>1 DEF IInv, LockIsHeld
<1>7. RowsOfCredits' /\ NeverOverdrawn' /\ OneWithdrawalPerNumber'
  BY <1>1 DEF IInv, RowsOfCredits, NeverOverdrawn, OneWithdrawalPerNumber
<1>8. WithdrawalIsCovered'
  BY <1>1, <1>2, <1>4 DEF IInv, WithdrawalIsCovered, Qualifies, Exists
<1>9. CreditIsNew'
  BY <1>1, <1>2, <1>4 DEF IInv, CreditIsNew
<1> QED BY <1>3, <1>5, <1>6, <1>7, <1>8, <1>9 DEF IInv

LEMMA InsertAccrualInvariant ==
  ASSUME IInv, NEW w \in Workers, InsertAccrual(w)
  PROVE  IInv'
<1>1. w \in Procs /\ w \notin Handlers
  BY ProcsAssumption DEF Procs
<1>2. /\ pc[w] = "insert" /\ Inserting(order[w]) = {}
      /\ UNCHANGED tables /\ faults' = faults
  BY DEF InsertAccrual
<1>3. CASE order[w] \notin accruals
  <2>1. Advances(w, "upsert", lock)
    BY <1>2, <1>3 DEF InsertAccrual, Goto, Advances, tables, requests
  <2>2. \A u \in Users : Writes(w, u)' <=> lock[u] = w
    BY <1>1, <1>2, <2>1 DEF IInv, TypeOK, LockIsHeld, Writes, Advances
  <2>3. \A v \in Workers : v # w /\ pc[v] \in {"upsert", "commit"} => order[v] # order[w]
    BY <1>2 DEF Inserting
  <2> QED BY <1>1, <1>3, <2>1, <2>2, <2>3, Advanced DEF IInv, TypeOK
<1>4. CASE order[w] \in accruals
  <2>1. Return(w, "ok")
    BY <1>4 DEF InsertAccrual
  <2> QED BY <1>1, <1>2, <2>1, ReturnedOnly DEF Answers, IInv, TypeOK
<1> QED BY <1>3, <1>4

LEMMA UpsertBalanceInvariant ==
  ASSUME IInv, NEW w \in Workers, UpsertBalance(w)
  PROVE  IInv'
<1> DEFINE v  == Owner[order[w]]
           lk == [lock EXCEPT ![v] = w]
<1>1. w \in Procs /\ w \notin Handlers
  BY ProcsAssumption DEF Procs
<1>2. pc[w] = "upsert" /\ lock[v] = NoOne
  BY DEF UpsertBalance
<1>3. v \in Users
  BY <1>1, <1>2, OrderOf, OrdersAssumption
<1>4. Advances(w, "commit", lk)
  BY <1>2 DEF UpsertBalance, Goto, Advances, tables, requests
<1>5. \A u \in Users : lock[u] # w
  BY <1>1, <1>2 DEF IInv, LockIsHeld, Writes
<1>6. \A u \in Users : Writes(w, u)' <=> lk[u] = w
  <2>1. pc'[w] = "commit" /\ order' = order
    BY <1>1, <1>4 DEF IInv, TypeOK, Advances
  <2> QED BY <1>1, <1>3, <1>5, <2>1 DEF IInv, TypeOK, Writes
<1>7. \A u \in Users, q \in Procs : q # w => (lk[u] = q <=> lock[u] = q)
  BY <1>2, <1>3, ProcsAssumption DEF IInv, TypeOK
<1>8. lk \in [Users -> Procs \union {NoOne}]
  BY <1>1, <1>3 DEF IInv, TypeOK
<1>9. /\ order[w] \notin accruals
      /\ \A q \in Workers : q # w /\ pc[q] \in {"upsert", "commit"} => order[q] # order[w]
  BY <1>2 DEF IInv, CreditIsNew
<1> HIDE DEF lk, v
<1> QED BY <1>1, <1>4, <1>6, <1>7, <1>8, <1>9, Advanced

\* The commit: nobody else is crediting the same order, and what a withdrawal
\* relies on only grows.
LEMMA CreditCommittedInvariant ==
  ASSUME IInv, NEW w \in Workers, NEW a \in Answers,
         CreditCommitted(w), Return(w, a), faults' \in 0 .. MaxFaults
  PROVE  IInv'
<1> DEFINE o == order[w]
           u == Owner[o]
<1>1. w \in Procs /\ Handlers \subseteq Procs /\ Workers \subseteq Procs /\ w \notin Handlers
  BY ProcsAssumption DEF Procs
<1>2. /\ pc[w] = "commit"
      /\ hasRow'   = hasRow \union {u}
      /\ current'  = [current EXCEPT ![u] = @ + Reward[o]]
      /\ accruals' = accruals \union {o}
      /\ UNCHANGED <<withdrawn, withdrawals>>
  BY DEF CreditCommitted
<1>3. o \in Orders /\ u \in Users /\ Reward[o] \in Nat
  BY <1>1, <1>2, OrderOf, OrdersAssumption
<1>4. TypeOK'
  <2>1. current' \in [Users -> Int] /\ hasRow' \in SUBSET Users /\ accruals' \in SUBSET Orders
    BY <1>2, <1>3 DEF IInv, TypeOK
  <2> QED BY <1>1, <1>2, <2>1, Returned DEF IInv, TypeOK, Answers
<1>5. PcOK' /\ LockIsHeld'
  BY <1>1, Returned
<1>6. RowsOfCredits'
  BY <1>2 DEF IInv, RowsOfCredits
<1>7. \A x \in Users : current'[x] >= current[x]
  <2> SUFFICES ASSUME NEW x \in Users PROVE current'[x] >= current[x]
    OBVIOUS
  <2>1. current[x] \in Int
    BY DEF IInv, TypeOK
  <2>2. current'[x] = IF x = u THEN current[x] + Reward[o] ELSE current[x]
    BY <1>2 DEF IInv, TypeOK
  <2> QED BY <2>1, <2>2, <1>3
<1>8. NeverOverdrawn'
  BY <1>4, <1>7 DEF IInv, TypeOK, NeverOverdrawn
<1>9. OneWithdrawalPerNumber'
  BY <1>2 DEF IInv, OneWithdrawalPerNumber
<1>10. WithdrawalIsCovered'
  <2> SUFFICES ASSUME NEW g \in Handlers
               PROVE  /\ pc'[g] \in {"insert", "commit"} => Qualifies(opt[g])'
                      /\ pc'[g] = "commit" => ~Exists(opt[g])'
    BY DEF WithdrawalIsCovered
  <2>1. pc'[g] = pc[g] /\ opt'[g] = opt[g]
    BY <1>1, Returned
  <2>2. ASSUME pc[g] \in {"insert", "commit"}
        PROVE  Qualifies(opt[g])'
    <3>1. opt[g].user \in Users /\ opt[g].sum \in Int
      BY <2>2, <1>1, RequestOf, SumsAssumption DEF WithdrawOpt
    <3>2. opt[g].user \in hasRow /\ current[opt[g].user] >= opt[g].sum
      BY <2>2 DEF IInv, WithdrawalIsCovered, Qualifies
    <3>3. current[opt[g].user] \in Int /\ current'[opt[g].user] \in Int
      BY <3>1, <1>4 DEF IInv, TypeOK
    <3>4. current'[opt[g].user] >= opt[g].sum
      BY <3>1, <3>2, <3>3, <1>7
    <3> QED BY <3>2, <3>4, <2>1, <1>2 DEF Qualifies
  <2>3. ASSUME pc[g] = "commit"
        PROVE  ~Exists(opt[g])'
    BY <2>1, <2>3, <1>2 DEF IInv, WithdrawalIsCovered, Exists
  <2> QED BY <2>1, <2>2, <2>3
<1>11. CreditIsNew'
  <2>1. \A v \in Workers : v # w => pc'[v] = pc[v] /\ order'[v] = order[v]
    BY <1>1, Returned
  <2>2. pc'[w] = "idle"
    BY <1>1, Returned
  <2>3. ASSUME NEW v \in Workers, pc'[v] \in {"upsert", "commit"}
        PROVE  v # w /\ order'[v] \notin accruals'
    <3>1. v # w
      BY <2>2, <2>3
    <3>2. order[v] # o /\ order[v] \notin accruals
      BY <2>1, <2>3, <3>1, <1>2 DEF IInv, CreditIsNew
    <3> QED BY <2>1, <3>1, <3>2, <1>2
  <2>4. ASSUME NEW v \in Workers, NEW x \in Workers,
               pc'[v] \in {"upsert", "commit"}, pc'[x] \in {"upsert", "commit"},
               order'[v] = order'[x]
        PROVE  v = x
    BY <2>1, <2>3, <2>4 DEF IInv, CreditIsNew
  <2> QED BY <2>3, <2>4 DEF CreditIsNew
<1> QED BY <1>4, <1>5, <1>6, <1>8, <1>9, <1>10, <1>11 DEF IInv

-----------------------------------------------------------------------------
(* The invariant of the specification.                                       *)

LEMMA StepInvariant ==
  ASSUME IInv, [Next]_vars
  PROVE  IInv'
<1>0. Handlers \subseteq Procs /\ Workers \subseteq Procs
  BY DEF Procs
<1>1. ASSUME NEW h \in Handlers, Withdraw(h)
      PROVE  IInv'
  <2>1. CASE CommitWithdraw(h)
    <3>1. WithdrawalCommitted(h) /\ Return(h, "ok") /\ faults' \in 0 .. MaxFaults
      BY <2>1 DEF CommitWithdraw, IInv, TypeOK
    <3> QED BY <3>1, WithdrawalCommittedInvariant DEF Answers
  <2> QED BY <1>1, <2>1, UpdateBalanceInvariant, LockBalanceInvariant,
             InsertWithdrawalInvariant DEF Withdraw
<1>2. ASSUME NEW w \in Workers, Credit(w)
      PROVE  IInv'
  <2>1. CASE CommitCredit(w)
    <3>1. CreditCommitted(w) /\ Return(w, "ok") /\ faults' \in 0 .. MaxFaults
      BY <2>1 DEF CommitCredit, IInv, TypeOK
    <3> QED BY <3>1, CreditCommittedInvariant DEF Answers
  <2> QED BY <1>2, <2>1, InsertAccrualInvariant, UpsertBalanceInvariant DEF Credit
<1>3. ASSUME NEW p \in Procs, Rollback(p)
      PROVE  IInv'
  <2>1. Return(p, "error") /\ UNCHANGED tables /\ faults' \in 0 .. MaxFaults
    BY <1>3, FaultsAssumption DEF Rollback, Fail, IInv, TypeOK
  <2> QED BY <2>1, ReturnedOnly DEF Answers
<1>4. ASSUME NEW p \in Procs, CommitUnseen(p)
      PROVE  IInv'
  <2>1. Return(p, "error") /\ faults' \in 0 .. MaxFaults
    BY <1>4, FaultsAssumption DEF CommitUnseen, Fail, IInv, TypeOK
  <2>2. CASE p \in Handlers
    BY <1>4, <2>1, <2>2, WithdrawalCommittedInvariant DEF CommitUnseen, Answers
  <2>3. CASE p \notin Handlers
    <3>1. p \in Workers
      BY <2>3 DEF Procs
    <3> QED BY <1>4, <2>1, <2>3, <3>1, CreditCommittedInvariant DEF CommitUnseen, Answers
  <2> QED BY <2>2, <2>3
<1>5. CASE UNCHANGED vars
  BY <1>5 DEF vars, tables, requests, IInv, TypeOK, PcOK, LockIsHeld, Writes,
              RowsOfCredits, WithdrawalIsCovered, Qualifies, Exists, CreditIsNew,
              NeverOverdrawn, OneWithdrawalPerNumber
<1> QED BY <1>1, <1>2, <1>3, <1>4, <1>5, BeginWithdrawInvariant, BeginCreditInvariant
        DEF Next

THEOREM Invariance == Spec => []IInv
  BY InitInvariant, StepInvariant, PTL DEF Spec

\* Every variable keeps its type.
THEOREM TypeCorrect == Spec => []TypeOK
  BY Invariance, PTL DEF IInv

\* No interleaving of withdrawals and credits overdraws a balance, for any
\* integer sums.
THEOREM NoOverdraft == Spec => []NeverOverdrawn
  BY Invariance, PTL DEF IInv

\* A user withdraws at most once for an order number.
THEOREM WithdrawnOnce == Spec => []OneWithdrawalPerNumber
  BY Invariance, PTL DEF IInv

-----------------------------------------------------------------------------
(* The refinement: each transaction takes effect at its commit.              *)

\* Ledger's view of a balance: the row exists when something was credited.
LEMMA CoveredIsQualifies ==
  ASSUME IInv, NEW r
  PROVE  Atomic!Covered(r) <=> Qualifies(r)
  BY DEF IInv, RowsOfCredits, Atomic!Covered, Qualifies

\* A caller is busy in Ledger when its pc says so here.
LEMMA BusyIsNotIdle ==
  ASSUME IInv, NEW p \in Procs
  PROVE  Atomic!Busy(p) <=> pc[p] # "idle"
  BY ProcsAssumption DEF IInv, PcOK, Atomic!Busy, Procs

\* The end of a transaction is an answer of Ledger.
LEMMA ReturnIsAnswered ==
  ASSUME IInv, NEW p \in Procs, pc[p] # "idle", NEW a, Return(p, a)
  PROVE  Atomic!Answered(p, a)
  BY BusyIsNotIdle DEF Return, Atomic!Answered

LEMMA InitRefinement == Init => Atomic!Init
  BY DEF Init, Atomic!Init, Procs

LEMMA WithdrawalRefinement ==
  ASSUME IInv, NEW h \in Handlers, WithdrawalCommitted(h),
         Return(h, "ok") \/ Return(h, "error")
  PROVE  Atomic!Withdraw(h)
<1>1. h \in Procs
  BY DEF Procs
<1>2. pc[h] = "commit"
  BY DEF WithdrawalCommitted
<1>3. Atomic!Busy(h) /\ Atomic!Covered(opt[h]) /\ ~Atomic!Exists(opt[h])
  BY <1>1, <1>2, BusyIsNotIdle, CoveredIsQualifies
  DEF IInv, WithdrawalIsCovered, Exists, Atomic!Exists
<1>4. Atomic!Answered(h, "ok") \/ Atomic!Answered(h, "error")
  BY <1>1, <1>2, ReturnIsAnswered
<1> QED BY <1>3, <1>4 DEF WithdrawalCommitted, Atomic!Withdraw

LEMMA CreditRefinement ==
  ASSUME IInv, NEW w \in Workers, CreditCommitted(w),
         Return(w, "ok") \/ Return(w, "error")
  PROVE  Atomic!Credit(w)
<1>1. w \in Procs
  BY DEF Procs
<1>2. pc[w] = "commit"
  BY DEF CreditCommitted
<1>3. Atomic!Busy(w) /\ order[w] \notin accruals
  BY <1>1, <1>2, BusyIsNotIdle DEF IInv, CreditIsNew
<1>4. Atomic!Answered(w, "ok") \/ Atomic!Answered(w, "error")
  BY <1>1, <1>2, ReturnIsAnswered
<1> QED BY <1>3, <1>4 DEF CreditCommitted, Atomic!Credit

\* A refusal is true when the statement that found it out runs.
LEMMA RefusalRefinement ==
  ASSUME IInv, NEW h \in Handlers, pc[h] # "idle", UNCHANGED tables,
         \/ ~Qualifies(opt[h]) /\ Return(h, "insufficient")
         \/ Exists(opt[h]) /\ Return(h, "exists")
  PROVE  Atomic!RefuseWithdrawal(h)
<1>1. h \in Procs
  BY DEF Procs
<1>2. Atomic!Busy(h)
  BY <1>1, BusyIsNotIdle
<1>3. \/ ~Atomic!Covered(opt[h]) /\ Atomic!Answered(h, "insufficient")
      \/ Atomic!Exists(opt[h]) /\ Atomic!Answered(h, "exists")
  BY <1>1, CoveredIsQualifies, ReturnIsAnswered DEF Exists, Atomic!Exists
<1> QED BY <1>2, <1>3 DEF tables, Atomic!RefuseWithdrawal

\* Every step is a step of Ledger or changes nothing that Ledger sees.
LEMMA StepRefinement ==
  ASSUME IInv, [Next]_vars
  PROVE  [Atomic!Next]_(Atomic!vars)
<1>0. Handlers \subseteq Procs /\ Workers \subseteq Procs
  BY DEF Procs
<1>1. ASSUME NEW h \in Handlers, Withdraw(h)
      PROVE  [Atomic!Next]_(Atomic!vars)
  <2>1. CASE UpdateBalance(h)
    <3>1. CASE Qualifies(opt[h])
      BY <2>1, <3>1 DEF UpdateBalance, tables, requests, Atomic!vars
    <3>2. CASE ~Qualifies(opt[h])
      <4>1. pc[h] # "idle" /\ UNCHANGED tables /\ Return(h, "insufficient")
        BY <2>1, <3>2 DEF UpdateBalance
      <4> QED BY <3>2, <4>1, RefusalRefinement DEF Atomic!Next
    <3> QED BY <3>1, <3>2
  <2>2. CASE LockBalance(h)
    <3>1. CASE Qualifies(opt[h])
      BY <2>2, <3>1 DEF LockBalance, tables, requests, Atomic!vars
    <3>2. CASE ~Qualifies(opt[h])
      <4>1. pc[h] # "idle" /\ UNCHANGED tables /\ Return(h, "insufficient")
        BY <2>2, <3>2 DEF LockBalance
      <4> QED BY <3>2, <4>1, RefusalRefinement DEF Atomic!Next
    <3> QED BY <3>1, <3>2
  <2>3. CASE InsertWithdrawal(h)
    <3>1. CASE ~Exists(opt[h])
      BY <2>3, <3>1 DEF InsertWithdrawal, tables, requests, Atomic!vars
    <3>2. CASE Exists(opt[h])
      <4>1. pc[h] # "idle" /\ UNCHANGED tables /\ Return(h, "exists")
        BY <2>3, <3>2 DEF InsertWithdrawal
      <4> QED BY <3>2, <4>1, RefusalRefinement DEF Atomic!Next
    <3> QED BY <3>1, <3>2
  <2>4. CASE CommitWithdraw(h)
    BY <2>4, WithdrawalRefinement DEF CommitWithdraw, Atomic!Next
  <2> QED BY <1>1, <2>1, <2>2, <2>3, <2>4 DEF Withdraw
<1>2. ASSUME NEW w \in Workers, Credit(w)
      PROVE  [Atomic!Next]_(Atomic!vars)
  <2>1. CASE InsertAccrual(w)
    <3>1. CASE order[w] \notin accruals
      BY <2>1, <3>1 DEF InsertAccrual, tables, requests, Atomic!vars
    <3>2. CASE order[w] \in accruals
      <4>1. pc[w] # "idle" /\ UNCHANGED tables /\ Return(w, "ok")
        BY <2>1, <3>2 DEF InsertAccrual
      <4>2. Atomic!Busy(w) /\ Atomic!Answered(w, "ok")
        BY <1>0, <4>1, BusyIsNotIdle, ReturnIsAnswered
      <4>3. Atomic!SkipCredit(w)
        BY <3>2, <4>1, <4>2 DEF tables, Atomic!SkipCredit
      <4> QED BY <4>3 DEF Atomic!Next
    <3> QED BY <3>1, <3>2
  <2>2. CASE UpsertBalance(w)
    BY <2>2 DEF UpsertBalance, tables, requests, Atomic!vars
  <2>3. CASE CommitCredit(w)
    BY <2>3, CreditRefinement DEF CommitCredit, Atomic!Next
  <2> QED BY <1>2, <2>1, <2>2, <2>3 DEF Credit
<1>3. ASSUME NEW p \in Procs, Rollback(p)
      PROVE  [Atomic!Next]_(Atomic!vars)
  <2>1. pc[p] # "idle" /\ UNCHANGED tables /\ Return(p, "error")
    BY <1>3 DEF Rollback
  <2>2. Atomic!Fail(p)
    BY <2>1, ReturnIsAnswered DEF tables, Atomic!Fail
  <2> QED BY <2>2 DEF Procs, Atomic!Next
<1>4. ASSUME NEW p \in Procs, CommitUnseen(p)
      PROVE  [Atomic!Next]_(Atomic!vars)
  <2>1. CASE p \in Handlers
    BY <1>4, <2>1, WithdrawalRefinement DEF CommitUnseen, Atomic!Next
  <2>2. CASE p \notin Handlers
    <3>1. p \in Workers
      BY <2>2 DEF Procs
    <3> QED BY <1>4, <2>2, <3>1, CreditRefinement DEF CommitUnseen, Atomic!Next
  <2> QED BY <2>1, <2>2
<1>5. ASSUME NEW h \in Handlers, NEW r \in WithdrawOpt, BeginWithdraw(h, r)
      PROVE  [Atomic!Next]_(Atomic!vars)
  <2>1. ~Atomic!Busy(h)
    BY <1>0, <1>5, BusyIsNotIdle DEF BeginWithdraw
  <2>2. Atomic!AskWithdrawal(h, r)
    BY <1>5, <2>1 DEF BeginWithdraw, tables, Atomic!AskWithdrawal
  <2> QED BY <2>2 DEF Atomic!Next, WithdrawOpt, Atomic!WithdrawOpt
<1>6. ASSUME NEW w \in Workers, NEW o \in Orders, BeginCredit(w, o)
      PROVE  [Atomic!Next]_(Atomic!vars)
  <2>1. ~Atomic!Busy(w)
    BY <1>0, <1>6, BusyIsNotIdle DEF BeginCredit
  <2>2. Atomic!AskCredit(w, o)
    BY <1>6, <2>1 DEF BeginCredit, tables, Atomic!AskCredit
  <2> QED BY <2>2 DEF Atomic!Next
<1>7. CASE UNCHANGED vars
  BY <1>7 DEF vars, tables, requests, Atomic!vars
<1> QED BY <1>1, <1>2, <1>3, <1>4, <1>5, <1>6, <1>7 DEF Next

\* Withdrawals and credits behave as if each happened at one instant.
THEOREM Implementation == Spec => ImplementsLedger
  BY InitRefinement, StepRefinement, Invariance, PTL
  DEF Spec, ImplementsLedger, Atomic!Spec

-----------------------------------------------------------------------------
(* Waiting: a transaction takes its locks in one order.                      *)

\* Whoever has written a row of user_balance waits for nothing until its end.
LEMMA HolderRuns ==
  ASSUME IInv, NEW u \in Users, NEW q \in Procs, lock[u] = q
  PROVE  Runs(q)
<1>1. Writes(q, u)
  BY DEF IInv, LockIsHeld
<1>2. \/ q \in Handlers /\ q \notin Workers /\ pc[q] \in {"insert", "commit"}
      \/ q \in Workers /\ q \notin Handlers /\ pc[q] = "commit"
  BY <1>1, ProcsAssumption DEF Writes
<1> QED BY <1>2 DEF Runs, WaitsFor

LEMMA InvNobodyIsStuck == IInv => NobodyIsStuck
<1> SUFFICES ASSUME IInv, NEW p \in Procs, pc[p] # "idle"
             PROVE  \E r \in Procs :
                      /\ Runs(r)
                      /\ r = p \/ WaitsFor(p, r) \/ \E q \in Procs : WaitsFor(p, q) /\ WaitsFor(q, r)
  BY DEF NobodyIsStuck
<1>1. \A h \in Handlers : pc[h] # "idle" => opt[h].user \in Users
  BY RequestOf DEF WithdrawOpt
<1>2. \A w \in Workers : pc[w] # "idle" => Owner[order[w]] \in Users
  BY OrderOf, OrdersAssumption
<1>3. CASE Runs(p)
  BY <1>3
<1>4. ASSUME NEW q \in Procs, WaitsFor(p, q), p \in Handlers \/ pc[p] = "upsert"
      PROVE  Runs(q)
  <2>1. \/ p \in Handlers /\ pc[p] = "lock" /\ lock[opt[p].user] = q
        \/ p \in Workers /\ pc[p] = "upsert" /\ lock[Owner[order[p]]] = q
    BY <1>4, ProcsAssumption DEF WaitsFor
  <2> QED BY <1>1, <1>2, <2>1, HolderRuns
<1>5. CASE ~Runs(p)
  <2>1. PICK q \in Procs : WaitsFor(p, q)
    BY <1>5 DEF Runs
  <2>2. CASE p \in Handlers \/ pc[p] = "upsert"
    BY <1>4, <2>1, <2>2
  <2>3. CASE p \notin Handlers /\ pc[p] # "upsert"
    <3>1. q \in Workers /\ pc[q] \in {"upsert", "commit"}
      BY <2>1, <2>3 DEF WaitsFor, Inserting
    <3>2. CASE Runs(q)
      BY <2>1, <3>2
    <3>3. CASE ~Runs(q)
      <4>1. PICK r \in Procs : WaitsFor(q, r)
        BY <3>1, <3>3 DEF Runs
      <4>2. lock[Owner[order[q]]] = r
        BY <3>1, <4>1, ProcsAssumption DEF WaitsFor
      <4>3. Runs(r)
        BY <1>2, <3>1, <4>2, HolderRuns
      <4> QED BY <2>1, <4>1, <4>3
    <3> QED BY <3>2, <3>3
  <2> QED BY <2>2, <2>3
<1> QED BY <1>3, <1>5

\* For any number of callers and users: no circle of waiting transactions.
THEOREM NoCircle == Spec => []NobodyIsStuck
  BY InvNobodyIsStuck, Invariance, PTL

-----------------------------------------------------------------------------
(* The books: sums over the rows that were committed.                        *)

\* The sums are of finitely many rows.
Books == IsFiniteSet(accruals) /\ IsFiniteSet(withdrawals) /\ BooksBalance

AmountOf == [w \in WithdrawOpt |-> w.sum]

LEMMA SpentIsSum == 
  ASSUME NEW u
  PROVE Spent(u) = SumFunctionOnSet(AmountOf, {w \in withdrawals : w.user = u})
  BY DEF Spent, AmountOf

LEMMA AmountsAreNumbers ==
  /\ \A w \in WithdrawOpt : AmountOf[w] \in Int /\ AmountOf[w] = w.sum
  /\ \A o \in Orders : Reward[o] \in Int
<1>1. \A w \in WithdrawOpt : w.sum \in Int
  BY SumsAssumption DEF WithdrawOpt
<1>2. \A o \in Orders : Reward[o] \in Int
  BY OrdersAssumption
<1> QED BY <1>1, <1>2 DEF AmountOf

LEMMA SumsAreNumbers ==
  ASSUME IInv, Books, NEW u \in Users
  PROVE  /\ IsFiniteSet({o \in accruals : Owner[o] = u})
         /\ IsFiniteSet({w \in withdrawals : w.user = u})
         /\ Credited(u) \in Int /\ Spent(u) \in Int
<1>1. /\ IsFiniteSet({o \in accruals : Owner[o] = u})
      /\ IsFiniteSet({w \in withdrawals : w.user = u})
  BY FS_Subset DEF Books
<1>2. accruals \subseteq Orders /\ withdrawals \subseteq WithdrawOpt
  BY DEF IInv, TypeOK
<1>3. Credited(u) \in Int
  BY <1>1, <1>2, AmountsAreNumbers, SumType DEF Credited
<1>4. Spent(u) \in Int
  BY <1>1, <1>2, AmountsAreNumbers, SpentIsSum, SumType
<1> QED BY <1>1, <1>3, <1>4

LEMMA InitBooks == Init => Books
<1> SUFFICES ASSUME Init PROVE Books
  OBVIOUS
<1>1. accruals = {} /\ withdrawals = {} /\ IsFiniteSet({})
  BY FS_EmptySet DEF Init
<1>2. ASSUME NEW u \in Users
      PROVE  Credited(u) = 0 /\ Spent(u) = 0
  <2>1. {o \in accruals : Owner[o] = u} = {} /\ {w \in withdrawals : w.user = u} = {}
    BY <1>1
  <2> QED BY <2>1, SumOfNothing DEF Credited, Spent
<1>3. BooksBalance
  BY <1>2 DEF Init, BooksBalance
<1> QED BY <1>1, <1>3 DEF Books

\* The row that is inserted is a new one.
LEMMA WithdrawalKeepsBooks ==
  ASSUME IInv, Books, NEW h \in Handlers, WithdrawalCommitted(h)
  PROVE  Books'
<1> DEFINE r == opt[h]
<1>1. /\ pc[h] = "commit"
      /\ current'     = [current   EXCEPT ![r.user] = @ - r.sum]
      /\ withdrawn'   = [withdrawn EXCEPT ![r.user] = @ + r.sum]
      /\ withdrawals' = withdrawals \union {r}
      /\ UNCHANGED <<hasRow, accruals>>
  BY DEF WithdrawalCommitted
<1>2. r \in WithdrawOpt /\ r.user \in Users /\ r.sum \in Int /\ AmountOf[r] = r.sum
  BY <1>1, RequestOf, SumsAssumption, AmountsAreNumbers DEF WithdrawOpt, Procs
<1>3. r \notin withdrawals
  BY <1>1 DEF IInv, WithdrawalIsCovered, Exists
<1> HIDE DEF r
<1>4. IsFiniteSet(accruals') /\ IsFiniteSet(withdrawals')
  BY <1>1, FS_AddElement DEF Books
<1>5. ASSUME NEW u \in Users
      PROVE  withdrawn'[u] = Spent(u)' /\ current'[u] = Credited(u)' - Spent(u)'
  <2> DEFINE S == {w \in withdrawals : w.user = u}
  <2>1. /\ withdrawn[u] = Spent(u) /\ current[u] = Credited(u) - Spent(u)
        /\ Spent(u) \in Int /\ Credited(u) \in Int /\ IsFiniteSet(S)
        /\ S \subseteq WithdrawOpt
    BY SumsAreNumbers DEF Books, BooksBalance, IInv, TypeOK
  <2>2. Credited(u)' = Credited(u)
    BY <1>1 DEF Credited
  <2>3. Spent(u)' = SumFunctionOnSet(AmountOf, {w \in withdrawals' : w.user = u})
    BY DEF Spent, AmountOf
  <2>6. IsFiniteSet(S)
    BY <2>1
  <2>4. CASE u = r.user
    <3>1. {w \in withdrawals' : w.user = u} = S \union {r} /\ r \notin S
      BY <1>1, <1>3, <2>4
    <3>2. \A w \in S \union {r} : AmountOf[w] \in Int
      BY <1>2, <2>1, AmountsAreNumbers
    <3> HIDE DEF S
    <3>3. SumFunctionOnSet(AmountOf, S \union {r}) = SumFunctionOnSet(AmountOf, S) + AmountOf[r]
      BY <2>6, <3>1, <3>2, SumAdd
    <3>4. Spent(u)' = Spent(u) + r.sum
      BY <1>2, <2>3, <3>1, <3>3, SpentIsSum DEF S
    <3>5. withdrawn'[u] = withdrawn[u] + r.sum /\ current'[u] = current[u] - r.sum
      BY <1>1, <1>2, <2>4 DEF IInv, TypeOK
    <3> HIDE DEF IInv
    <3> QED BY <1>2, <2>1, <2>2, <3>4, <3>5
  <2>5. CASE u # r.user
    <3>1. {w \in withdrawals' : w.user = u} = S
      BY <1>1, <2>5
    <3>2. Spent(u)' = Spent(u)
      BY <2>3, <3>1, SpentIsSum
    <3>3. withdrawn'[u] = withdrawn[u] /\ current'[u] = current[u]
      BY <1>1, <2>5 DEF IInv, TypeOK
    <3> QED BY <2>1, <2>2, <3>2, <3>3
  <2> QED BY <2>4, <2>5
<1> QED BY <1>4, <1>5 DEF Books, BooksBalance

\* The order that is credited is a new one.
LEMMA CreditKeepsBooks ==
  ASSUME IInv, Books, NEW w \in Workers, CreditCommitted(w)
  PROVE  Books'
<1> DEFINE o == order[w]
<1>1. /\ pc[w] = "commit"
      /\ current'  = [current EXCEPT ![Owner[o]] = @ + Reward[o]]
      /\ accruals' = accruals \union {o}
      /\ UNCHANGED <<withdrawn, withdrawals>>
  BY DEF CreditCommitted
<1>2. o \in Orders /\ Owner[o] \in Users /\ Reward[o] \in Int
  BY <1>1, OrderOf, OrdersAssumption
<1>3. o \notin accruals
  BY <1>1 DEF IInv, CreditIsNew
<1> HIDE DEF o
<1>4. IsFiniteSet(accruals') /\ IsFiniteSet(withdrawals')
  BY <1>1, FS_AddElement DEF Books
<1>5. ASSUME NEW u \in Users
      PROVE  withdrawn'[u] = Spent(u)' /\ current'[u] = Credited(u)' - Spent(u)'
  <2> DEFINE S == {x \in accruals : Owner[x] = u}
  <2>1. /\ withdrawn[u] = Spent(u) /\ current[u] = Credited(u) - Spent(u)
        /\ Spent(u) \in Int /\ Credited(u) \in Int /\ IsFiniteSet(S)
        /\ S \subseteq Orders
    BY SumsAreNumbers DEF Books, BooksBalance, IInv, TypeOK
  <2>2. Spent(u)' = Spent(u)
    BY <1>1 DEF Spent
  <2>3. Credited(u)' = SumFunctionOnSet(Reward, {x \in accruals' : Owner[x] = u})
    BY DEF Credited
  <2>6. IsFiniteSet(S)
    BY <2>1
  <2>4. CASE u = Owner[o]
    <3>1. {x \in accruals' : Owner[x] = u} = S \union {o} /\ o \notin S
      BY <1>1, <1>3, <2>4
    <3>2. \A x \in S \union {o} : Reward[x] \in Int
      BY <1>2, <2>1, AmountsAreNumbers
    <3> HIDE DEF S
    <3>3. SumFunctionOnSet(Reward, S \union {o}) = SumFunctionOnSet(Reward, S) + Reward[o]
      BY <2>6, <3>1, <3>2, SumAdd
    <3>4. Credited(u)' = Credited(u) + Reward[o]
      BY <2>3, <3>1, <3>3 DEF S, Credited
    <3>5. withdrawn'[u] = withdrawn[u] /\ current'[u] = current[u] + Reward[o]
      BY <1>1, <1>2, <2>4 DEF IInv, TypeOK
    <3> HIDE DEF IInv
    <3> QED BY <1>2, <2>1, <2>2, <3>4, <3>5
  <2>5. CASE u # Owner[o]
    <3>1. {x \in accruals' : Owner[x] = u} = S
      BY <1>1, <2>5
    <3>2. Credited(u)' = Credited(u)
      BY <2>3, <3>1 DEF Credited
    <3>3. withdrawn'[u] = withdrawn[u] /\ current'[u] = current[u]
      BY <1>1, <2>5 DEF IInv, TypeOK
    <3> QED BY <2>1, <2>2, <3>2, <3>3
  <2> QED BY <2>4, <2>5
<1> QED BY <1>4, <1>5 DEF Books, BooksBalance

LEMMA StepBooks ==
  ASSUME IInv, Books, [Next]_vars
  PROVE  Books'
<1>1. ASSUME UNCHANGED tables
      PROVE  Books'
  <2>1. UNCHANGED <<current, withdrawn, withdrawals, accruals>>
    BY <1>1 DEF tables
  <2> QED BY <2>1 DEF Books, BooksBalance, Credited, Spent
<1>2. ASSUME NEW h \in Handlers, Withdraw(h)
      PROVE  Books'
  BY <1>1, <1>2, WithdrawalKeepsBooks
  DEF Withdraw, UpdateBalance, LockBalance, InsertWithdrawal, CommitWithdraw
<1>3. ASSUME NEW w \in Workers, Credit(w)
      PROVE  Books'
  BY <1>1, <1>3, CreditKeepsBooks DEF Credit, InsertAccrual, UpsertBalance, CommitCredit
<1>4. ASSUME NEW p \in Procs, Rollback(p) \/ CommitUnseen(p)
      PROVE  Books'
  BY <1>1, <1>4, WithdrawalKeepsBooks, CreditKeepsBooks DEF Rollback, CommitUnseen, Procs
<1>5. ASSUME NEW h \in Handlers, NEW r \in WithdrawOpt, BeginWithdraw(h, r)
      PROVE  Books'
  BY <1>1, <1>5 DEF BeginWithdraw
<1>6. ASSUME NEW w \in Workers, NEW o \in Orders, BeginCredit(w, o)
      PROVE  Books'
  BY <1>1, <1>6 DEF BeginCredit
<1>7. CASE UNCHANGED vars
  BY <1>1, <1>7 DEF vars
<1> QED BY <1>2, <1>3, <1>4, <1>5, <1>6, <1>7 DEF Next

\* Whatever transactions interleave and fail, each user's balance is what was
\* credited for the user's orders less what the rows of withdrawals add up to.
THEOREM BooksAreBalanced == Spec => []BooksBalance
<1>1. Books => BooksBalance
  BY DEF Books
<1> QED BY <1>1, InitBooks, StepBooks, Invariance, PTL DEF Spec

-----------------------------------------------------------------------------
(* The service: what its answers and its pages rest on.                      *)

\* A caller that waits has no answer yet.
NoAnswerYet == \A p \in Procs : pc[p] # "idle" => answer[p] = "none"

\* A worker credits an order whose status PROCESSED was committed before.
CreditFollowsStatus ==
  \A w \in Workers : pc[w] # "idle" => status[order[w]] = "PROCESSED"

LoyaltyInv ==
  /\ IInv /\ NoAnswerYet /\ CreditFollowsStatus
  /\ status \in [Orders -> Status \union {"ABSENT"}]
  /\ listed \in [Users -> SUBSET WithdrawOpt]
  /\ ToldIsListed

-----------------------------------------------------------------------------
\* The service does with the balance what BalanceRepo allows.
LEMMA StepIsRepo ==
  ASSUME [LoyaltyNext]_loyaltyVars
  PROVE  [Next]_vars
  BY DEF LoyaltyNext, OrderStep, CreditOrder, Transact, GetBalance, GetWithdrawals,
         loyaltyVars, Next

\* What is proved of BalanceRepo holds of the service.
THEOREM BalanceRepoImplementation == LoyaltySpec => Spec
<1>1. LoyaltyInit => Init
  BY DEF LoyaltyInit
<1>2. [LoyaltyNext]_loyaltyVars => [Next]_vars
  BY StepIsRepo
<1> QED BY <1>1, <1>2, PTL DEF LoyaltySpec, Spec

LEMMA InitLoyaltyInv == LoyaltyInit => LoyaltyInv
<1> SUFFICES ASSUME LoyaltyInit PROVE LoyaltyInv
  OBVIOUS
<1>1. IInv
  BY InitInvariant DEF LoyaltyInit
<1>2. NoAnswerYet
  BY DEF LoyaltyInit, Init, NoAnswerYet
<1>3. CreditFollowsStatus
  BY DEF LoyaltyInit, Init, CreditFollowsStatus, Procs
<1>4. /\ status \in [Orders -> Status \union {"ABSENT"}]
      /\ listed \in [Users -> SUBSET WithdrawOpt]
  BY DEF LoyaltyInit, Book!Init
<1>5. ToldIsListed
  BY DEF LoyaltyInit, ToldIsListed
<1> QED BY <1>1, <1>2, <1>3, <1>4, <1>5 DEF LoyaltyInv

\* One step of the transactions: withdrawals stay; who has no answer yet keeps
\* it that way while it goes on; a worker goes on with its order; and who is
\* answered 200 or 409 has its number among the withdrawals.
Progresses ==
  /\ withdrawals \subseteq withdrawals'
  /\ \A p \in Procs : pc'[p] # "idle" => answer'[p] = "none"
  /\ \A w \in Workers : pc'[w] # "idle" => pc[w] # "idle" /\ order'[w] = order[w]
  /\ \A h \in Handlers :
       pc[h] # "idle" /\ answer'[h] \in {"ok", "exists"} =>
         opt[h].order \in {w.order : w \in {x \in withdrawals' : x.user = opt[h].user}}

\* A transaction that ends.
LEMMA ReturnProgresses ==
  ASSUME LoyaltyInv, NEW p \in Procs, NEW a, Return(p, a),
         withdrawals \subseteq withdrawals',
         p \in Handlers /\ a \in {"ok", "exists"} =>
           opt[p].order \in {w.order : w \in {x \in withdrawals' : x.user = opt[p].user}}
  PROVE  Progresses
<1>1. /\ pc' = [pc EXCEPT ![p] = "idle"]
      /\ answer' = [answer EXCEPT ![p] = a]
      /\ order' = [w \in Workers |-> IF w = p THEN NoOne ELSE order[w]]
  BY DEF Return, Goto
<1>2. /\ pc \in [Procs -> {"idle", "update", "lock", "insert", "upsert", "commit"}]
      /\ answer \in [Procs -> Answers]
      /\ Handlers \subseteq Procs /\ Workers \subseteq Procs
  BY DEF LoyaltyInv, IInv, TypeOK, Answers, Procs
<1>3. \A q \in Procs : pc[q] # "idle" => answer[q] = "none"
  BY DEF LoyaltyInv, NoAnswerYet
<1>4. \A q \in Procs : pc'[q] # "idle" => q # p /\ pc[q] # "idle" /\ answer'[q] = "none"
  BY <1>1, <1>2, <1>3
<1>5. \A w \in Workers : pc'[w] # "idle" => pc[w] # "idle" /\ order'[w] = order[w]
  BY <1>1, <1>2, <1>4
<1>6. ASSUME NEW h \in Handlers, pc[h] # "idle", answer'[h] \in {"ok", "exists"}
      PROVE  opt[h].order \in {w.order : w \in {x \in withdrawals' : x.user = opt[h].user}}
  <2>1. h = p /\ a \in {"ok", "exists"}
    BY <1>1, <1>2, <1>3, <1>6
  <2> QED BY <2>1
<1> QED BY <1>4, <1>5, <1>6 DEF Progresses

\* A transaction that goes on.
LEMMA GotoProgresses ==
  ASSUME LoyaltyInv, NEW p \in Procs, pc[p] # "idle", NEW l, Goto(p, l),
         UNCHANGED <<tables, requests, answer>>
  PROVE  Progresses
<1>1. /\ \A q \in Procs : pc[q] # "idle" => answer[q] = "none"
      /\ \A q \in Procs : pc'[q] # "idle" => pc[q] # "idle"
      /\ Handlers \subseteq Procs /\ Workers \subseteq Procs
  BY DEF LoyaltyInv, NoAnswerYet, IInv, TypeOK, Goto, Procs
<1>2. UNCHANGED <<withdrawals, order, answer>>
  BY DEF tables, requests
<1> QED BY <1>1, <1>2 DEF Progresses

\* What a withdrawal has committed is in the table.
LEMMA CommittedIsListed ==
  ASSUME LoyaltyInv, NEW h \in Handlers, WithdrawalCommitted(h)
  PROVE  /\ withdrawals \subseteq withdrawals'
         /\ opt[h].order \in {w.order : w \in {x \in withdrawals' : x.user = opt[h].user}}
  BY DEF WithdrawalCommitted

LEMMA WithdrawProgresses ==
  ASSUME LoyaltyInv, NEW h \in Handlers, Withdraw(h)
  PROVE  Progresses
<1>0. h \in Procs
  BY DEF Procs
<1>1. CASE UpdateBalance(h)
  <2>1. UNCHANGED tables /\ pc[h] # "idle"
    BY <1>1 DEF UpdateBalance
  <2>2. CASE Return(h, "insufficient")
    BY <1>0, <2>1, <2>2, ReturnProgresses DEF tables
  <2>3. CASE Goto(h, "lock") /\ UNCHANGED <<answer, requests>>
    BY <1>0, <2>1, <2>3, GotoProgresses
  <2> QED BY <1>1, <2>2, <2>3 DEF UpdateBalance
<1>2. CASE LockBalance(h)
  <2>1. UNCHANGED tables /\ pc[h] # "idle"
    BY <1>2 DEF LockBalance
  <2>2. CASE Return(h, "insufficient")
    BY <1>0, <2>1, <2>2, ReturnProgresses DEF tables
  <2>3. CASE Goto(h, "insert") /\ UNCHANGED <<answer, requests>>
    BY <1>0, <2>1, <2>3, GotoProgresses
  <2> QED BY <1>2, <2>2, <2>3 DEF LockBalance
<1>3. CASE InsertWithdrawal(h)
  <2>1. UNCHANGED tables /\ pc[h] # "idle"
    BY <1>3 DEF InsertWithdrawal
  <2>2. CASE Exists(opt[h]) /\ Return(h, "exists")
    <3>1. opt[h].order \in {w.order : w \in {x \in withdrawals' : x.user = opt[h].user}}
      BY <2>1, <2>2 DEF Exists, tables
    <3>2. withdrawals \subseteq withdrawals'
      BY <2>1 DEF tables
    <3> QED BY <1>0, <2>2, <3>1, <3>2, ReturnProgresses
  <2>3. CASE Goto(h, "commit") /\ UNCHANGED <<answer, requests>>
    BY <1>0, <2>1, <2>3, GotoProgresses
  <2> QED BY <1>3, <2>2, <2>3 DEF InsertWithdrawal
<1>4. CASE CommitWithdraw(h)
  BY <1>0, <1>4, CommittedIsListed, ReturnProgresses DEF CommitWithdraw
<1> QED BY <1>1, <1>2, <1>3, <1>4 DEF Withdraw

LEMMA CreditProgresses ==
  ASSUME LoyaltyInv, NEW w \in Workers, Credit(w)
  PROVE  Progresses
<1>0. w \in Procs /\ w \notin Handlers
  BY ProcsAssumption DEF Procs
<1>1. CASE InsertAccrual(w)
  <2>1. UNCHANGED tables /\ pc[w] # "idle"
    BY <1>1 DEF InsertAccrual
  <2>2. CASE Return(w, "ok")
    BY <1>0, <2>1, <2>2, ReturnProgresses DEF tables
  <2>3. CASE Goto(w, "upsert") /\ UNCHANGED <<answer, requests>>
    BY <1>0, <2>1, <2>3, GotoProgresses
  <2> QED BY <1>1, <2>2, <2>3 DEF InsertAccrual
<1>2. CASE UpsertBalance(w)
  <2>1. UNCHANGED <<tables, requests, answer>> /\ pc[w] # "idle" /\ Goto(w, "commit")
    BY <1>2 DEF UpsertBalance
  <2> QED BY <1>0, <2>1, GotoProgresses
<1>3. CASE CommitCredit(w)
  <2>1. withdrawals \subseteq withdrawals' /\ Return(w, "ok")
    BY <1>3 DEF CommitCredit, CreditCommitted
  <2> QED BY <1>0, <2>1, ReturnProgresses
<1> QED BY <1>1, <1>2, <1>3 DEF Credit

LEMMA FaultProgresses ==
  ASSUME LoyaltyInv, NEW p \in Procs, Rollback(p) \/ CommitUnseen(p)
  PROVE  Progresses
<1>1. Return(p, "error")
  BY DEF Rollback, CommitUnseen
<1>2. withdrawals \subseteq withdrawals'
  BY DEF Rollback, CommitUnseen, WithdrawalCommitted, CreditCommitted, tables
<1> QED BY <1>1, <1>2, ReturnProgresses

LEMMA BeginProgresses ==
  ASSUME LoyaltyInv, NEW h \in Handlers, NEW r \in WithdrawOpt, BeginWithdraw(h, r)
  PROVE  Progresses
<1>1. /\ pc' = [pc EXCEPT ![h] = "update"]
      /\ answer' = [answer EXCEPT ![h] = "none"]
      /\ pc[h] = "idle"
      /\ UNCHANGED <<withdrawals, order>>
  BY DEF BeginWithdraw, Goto, tables
<1>2. /\ pc \in [Procs -> {"idle", "update", "lock", "insert", "upsert", "commit"}]
      /\ answer \in [Procs -> Answers]
      /\ Handlers \subseteq Procs /\ Workers \subseteq Procs
      /\ h \notin Workers
  BY ProcsAssumption DEF LoyaltyInv, IInv, TypeOK, Answers, Procs
<1>3. \A q \in Procs : pc[q] # "idle" => answer[q] = "none"
  BY DEF LoyaltyInv, NoAnswerYet
<1>4. \A q \in Procs : pc'[q] # "idle" => answer'[q] = "none"
  BY <1>1, <1>2, <1>3
<1>5. \A w \in Workers : pc'[w] = pc[w]
  BY <1>1, <1>2
<1>6. \A g \in Handlers : pc[g] # "idle" => answer'[g] \notin {"ok", "exists"}
  BY <1>1, <1>2, <1>3
<1> QED BY <1>1, <1>4, <1>5, <1>6 DEF Progresses

\* A step of Transact keeps the invariant.
LEMMA ProgressInvariant ==
  ASSUME LoyaltyInv, IInv', Progresses, NEW p \in Procs,
         UNCHANGED <<status, listed>>,
         told' = [u \in Users |->
                   IF p \in Handlers /\ pc[p] # "idle" /\ answer'[p] \in {"ok", "exists"}
                      /\ opt[p].user = u
                   THEN told[u] \union {opt[p].order} ELSE told[u]]
  PROVE  LoyaltyInv'
<1>1. NoAnswerYet'
  BY DEF Progresses, NoAnswerYet
<1>2. CreditFollowsStatus'
  BY DEF Progresses, LoyaltyInv, CreditFollowsStatus
<1>3. ToldIsListed'
  <2> SUFFICES ASSUME NEW u \in Users
               PROVE  /\ listed'[u] \subseteq SelectWithdrawals(u)'
                      /\ told'[u] \subseteq {w.order : w \in SelectWithdrawals(u)'}
    BY DEF ToldIsListed
  <2>1. SelectWithdrawals(u) \subseteq SelectWithdrawals(u)'
    BY DEF Progresses, SelectWithdrawals
  <2>2. /\ listed[u] \subseteq SelectWithdrawals(u)
        /\ told[u] \subseteq {w.order : w \in SelectWithdrawals(u)}
    BY DEF LoyaltyInv, ToldIsListed
  <2>3. CASE told'[u] = told[u]
    BY <2>1, <2>2, <2>3
  <2>4. CASE told'[u] # told[u]
    <3>1. /\ p \in Handlers /\ pc[p] # "idle" /\ answer'[p] \in {"ok", "exists"}
          /\ opt[p].user = u
          /\ told'[u] = told[u] \union {opt[p].order}
      BY <2>4
    <3>2. opt[p].order \in {w.order : w \in SelectWithdrawals(u)'}
      BY <3>1 DEF Progresses, SelectWithdrawals
    <3> QED BY <2>1, <2>2, <3>1, <3>2
  <2> QED BY <2>3, <2>4
<1> QED BY <1>1, <1>2, <1>3 DEF LoyaltyInv

\* The pages and the orders change nothing a transaction knows of.
LEMMA OutsideInvariant ==
  ASSUME LoyaltyInv, IInv', UNCHANGED <<vars, told>>,
         status' \in [Orders -> Status \union {"ABSENT"}],
         \A o \in Orders : status[o] = "PROCESSED" => status'[o] = "PROCESSED",
         listed' \in [Users -> SUBSET WithdrawOpt],
         \A u \in Users : listed'[u] \in {listed[u], SelectWithdrawals(u)}
  PROVE  LoyaltyInv'
<1>1. UNCHANGED <<withdrawals, pc, order, answer>>
  BY DEF vars, tables, requests
<1>2. NoAnswerYet'
  BY <1>1 DEF LoyaltyInv, NoAnswerYet
<1>3. CreditFollowsStatus'
  BY <1>1, OrderOf DEF LoyaltyInv, CreditFollowsStatus
<1>4. ToldIsListed'
  <2>1. \A u \in Users : SelectWithdrawals(u)' = SelectWithdrawals(u)
    BY <1>1 DEF SelectWithdrawals
  <2> QED BY <2>1 DEF LoyaltyInv, ToldIsListed
<1> QED BY <1>2, <1>3, <1>4 DEF LoyaltyInv

LEMMA CreditOrderInvariant ==
  ASSUME LoyaltyInv, IInv', NEW w \in Workers, NEW o \in Orders, CreditOrder(w, o)
  PROVE  LoyaltyInv'
<1>1. /\ pc' = [pc EXCEPT ![w] = "insert"]
      /\ answer' = [answer EXCEPT ![w] = "none"]
      /\ order' = [order EXCEPT ![w] = o]
      /\ status[o] = "PROCESSED"
      /\ UNCHANGED <<withdrawals, status, listed, told>>
  BY DEF CreditOrder, BeginCredit, Goto, tables
<1>2. /\ pc \in [Procs -> {"idle", "update", "lock", "insert", "upsert", "commit"}]
      /\ answer \in [Procs -> Answers]
      /\ order \in [Workers -> Orders \union {NoOne}]
      /\ w \in Procs /\ Workers \subseteq Procs
  BY DEF LoyaltyInv, IInv, TypeOK, Answers, Procs
<1>3. NoAnswerYet'
  BY <1>1, <1>2 DEF LoyaltyInv, NoAnswerYet
<1>4. CreditFollowsStatus'
  <2> SUFFICES ASSUME NEW v \in Workers, pc'[v] # "idle"
               PROVE  status[order'[v]] = "PROCESSED"
    BY <1>1 DEF CreditFollowsStatus
  <2>1. CASE v = w
    BY <1>1, <1>2, <2>1
  <2>2. CASE v # w
    BY <1>1, <1>2, <2>2 DEF LoyaltyInv, CreditFollowsStatus
  <2> QED BY <2>1, <2>2
<1>5. ToldIsListed'
  BY <1>1 DEF LoyaltyInv, ToldIsListed, SelectWithdrawals
<1> QED BY <1>1, <1>3, <1>4, <1>5 DEF LoyaltyInv

LEMMA OrderStepInvariant ==
  ASSUME LoyaltyInv, IInv', NEW o \in Orders, OrderStep(o)
  PROVE  LoyaltyInv'
<1>1. UNCHANGED <<vars, listed, told>>
  BY DEF OrderStep
<1>2. /\ status' \in [Orders -> Status \union {"ABSENT"}]
      /\ \A x \in Orders : status[x] = "PROCESSED" => status'[x] = "PROCESSED"
  <2>1. status \in [Orders -> Status \union {"ABSENT"}]
    BY DEF LoyaltyInv
  <2>2. CASE Book!Upload(o)
    BY <2>1, <2>2 DEF Book!Upload, Status, Pending
  <2>3. CASE Book!Start(o)
    BY <2>1, <2>3 DEF Book!Start, Status, Pending
  <2>4. CASE Book!Reject(o)
    BY <2>1, <2>4 DEF Book!Reject, Status, Pending, Book!Pending, Final
  <2>5. CASE Book!Approve(o)
    BY <2>1, <2>5 DEF Book!Approve, Status, Final
  <2>6. CASE Book!Progress(o)
    BY <2>1, <2>6 DEF Book!Progress
  <2> QED BY <2>2, <2>3, <2>4, <2>5, <2>6 DEF OrderStep
<1>3. listed' \in [Users -> SUBSET WithdrawOpt]
  BY <1>1 DEF LoyaltyInv
<1> QED BY <1>1, <1>2, <1>3, OutsideInvariant

LEMMA StepLoyaltyInv ==
  ASSUME LoyaltyInv, [LoyaltyNext]_loyaltyVars
  PROVE  LoyaltyInv'
<1>0. IInv'
  BY StepIsRepo, StepInvariant DEF LoyaltyInv
<1>2. ASSUME NEW h \in Handlers,
             Transact(h, Withdraw(h) \/ \E r \in WithdrawOpt : BeginWithdraw(h, r))
      PROVE  LoyaltyInv'
  <2>1. Progresses
    BY <1>2, WithdrawProgresses, BeginProgresses DEF Transact
  <2> QED BY <1>0, <1>2, <2>1, ProgressInvariant DEF Transact, Procs
<1>3. ASSUME NEW w \in Workers, Transact(w, Credit(w))
      PROVE  LoyaltyInv'
  <2>1. Progresses
    BY <1>3, CreditProgresses DEF Transact
  <2> QED BY <1>0, <1>3, <2>1, ProgressInvariant DEF Transact, Procs
<1>4. ASSUME NEW p \in Procs, Transact(p, Rollback(p) \/ CommitUnseen(p))
      PROVE  LoyaltyInv'
  <2>1. Progresses
    BY <1>4, FaultProgresses DEF Transact
  <2> QED BY <1>0, <1>4, <2>1, ProgressInvariant DEF Transact
<1>5. ASSUME NEW u \in Users, GetBalance(u) \/ GetWithdrawals(u)
      PROVE  LoyaltyInv'
  <2>1. UNCHANGED <<vars, status, told>>
    BY <1>5 DEF GetBalance, GetWithdrawals
  <2>2. listed \in [Users -> SUBSET WithdrawOpt] /\ SelectWithdrawals(u) \subseteq WithdrawOpt
    BY DEF LoyaltyInv, IInv, TypeOK, SelectWithdrawals
  <2>3. /\ \A v \in Users : listed'[v] \in {listed[v], SelectWithdrawals(v)}
        /\ listed' \in [Users -> SUBSET WithdrawOpt]
    BY <1>5, <2>2 DEF GetBalance, GetWithdrawals
  <2> QED BY <1>0, <2>1, <2>3, OutsideInvariant DEF LoyaltyInv
<1>6. CASE UNCHANGED loyaltyVars
  <2>1. UNCHANGED <<vars, status, listed, told>>
    BY <1>6 DEF loyaltyVars
  <2> QED BY <1>0, <2>1, OutsideInvariant DEF LoyaltyInv
<1> QED BY <1>0, <1>2, <1>3, <1>4, <1>5, <1>6, OrderStepInvariant, CreditOrderInvariant
        DEF LoyaltyNext

\* A withdrawal that a user was told of, by 200 or 409, and one that was
\* listed, are in every list the user asks for later, whatever fails and
\* whoever else withdraws.
THEOREM ToldListed == LoyaltySpec => []ToldIsListed
<1>1. LoyaltyInv => ToldIsListed
  BY DEF LoyaltyInv
<1> QED BY <1>1, InitLoyaltyInv, StepLoyaltyInv, PTL DEF LoyaltySpec

\* The promises of BalanceRepo, with the pages, the orders and the workers
\* around its transactions.
THEOREM ServiceKeepsBooks ==
  LoyaltySpec =>
    /\ ImplementsLedger
    /\ [](BooksBalance /\ NeverOverdrawn /\ OneWithdrawalPerNumber /\ NobodyIsStuck)
BY BalanceRepoImplementation, Implementation, BooksAreBalanced, NoOverdraft, WithdrawnOnce,
   NoCircle, PTL

-----------------------------------------------------------------------------
(* The refinement: an order is credited when its transaction commits.        *)

\* What user_balance got for an order is the reward, if balance_accruals has
\* the order, and nothing otherwise.
CreditedOnce == credited = [o \in Orders |-> IF o \in accruals THEN Reward[o] ELSE 0]

\* How Transact counts what user_balance gets.
Counted(p) ==
  credited' = [o \in Orders |->
                IF p \in Workers /\ order[p] = o
                THEN credited[o] + (Points(Owner[o])' - Points(Owner[o]))
                ELSE credited[o]]

LEMMA InitCreditedOnce == LoyaltyInit => CreditedOnce
BY DEF LoyaltyInit, Init, Book!Init, CreditedOnce

\* A step that adds nothing to the tables counts for nothing.
LEMMA NothingCounted ==
  ASSUME LoyaltyInv, CreditedOnce, NEW p \in Procs, UNCHANGED tables, Counted(p)
  PROVE  CreditedOnce' /\ UNCHANGED <<accruals, credited>>
<1>1. UNCHANGED <<current, withdrawn, accruals>>
  BY DEF tables
<1>2. \A u \in Users : current[u] \in Int /\ withdrawn[u] \in Int
  BY DEF LoyaltyInv, IInv, TypeOK
<1>3. \A o \in Orders : credited[o] \in Int /\ Owner[o] \in Users
  BY OrdersAssumption DEF CreditedOnce
<1>4. \A o \in Orders : credited[o] + (Points(Owner[o])' - Points(Owner[o])) = credited[o]
  BY <1>1, <1>2, <1>3 DEF Points
<1>5. credited' = [o \in Orders |-> credited[o]]
  BY <1>4 DEF Counted
<1>6. credited' = credited
  BY <1>5 DEF CreditedOnce
<1> QED BY <1>1, <1>6 DEF CreditedOnce

\* A withdrawal is no credit.
LEMMA WithdrawalCounted ==
  ASSUME CreditedOnce, NEW h \in Handlers, Counted(h), UNCHANGED accruals
  PROVE  CreditedOnce' /\ UNCHANGED credited
<1>1. credited' = [o \in Orders |-> credited[o]]
  BY ProcsAssumption DEF Counted
<1>2. credited' = credited
  BY <1>1 DEF CreditedOnce
<1> QED BY <1>2 DEF CreditedOnce

\* The commit of CreditAccrual adds the reward of an order that had nothing.
LEMMA CreditCounted ==
  ASSUME LoyaltyInv, CreditedOnce, NEW w \in Workers, CreditCommitted(w), Counted(w)
  PROVE  /\ CreditedOnce'
         /\ order[w] \in Orders /\ credited[order[w]] = 0
         /\ credited' = [credited EXCEPT ![order[w]] = Reward[order[w]]]
<1>1. /\ pc[w] = "commit"
      /\ current' = [current EXCEPT ![Owner[order[w]]] = @ + Reward[order[w]]]
      /\ withdrawn' = withdrawn
      /\ accruals' = accruals \union {order[w]}
  BY DEF CreditCommitted
<1>2. order[w] \in Orders /\ order[w] \notin accruals
  BY <1>1, OrderOf DEF LoyaltyInv, IInv, CreditIsNew
<1>3. PICK o \in Orders : o = order[w]
  BY <1>2
<1>4. PICK u \in Users : u = Owner[o]
  BY OrdersAssumption
<1>5. Reward[o] \in Nat /\ current[u] \in Int /\ withdrawn[u] \in Int
  BY OrdersAssumption DEF LoyaltyInv, IInv, TypeOK
<1>6. current'[u] = current[u] + Reward[o] /\ withdrawn'[u] = withdrawn[u]
  BY <1>1, <1>3, <1>4 DEF LoyaltyInv, IInv, TypeOK
<1>7. Points(u)' - Points(u) = Reward[o]
  BY <1>5, <1>6 DEF Points
<1>8. credited[o] = 0
  BY <1>2, <1>3 DEF CreditedOnce
<1>9. credited' = [x \in Orders |-> IF x = o THEN Reward[x] ELSE credited[x]]
  <2>1. credited[o] + (Points(u)' - Points(u)) = Reward[o]
    BY <1>5, <1>7, <1>8
  <2> QED BY <1>3, <1>4, <2>1 DEF Counted
<1>10. credited' = [credited EXCEPT ![o] = Reward[o]]
  BY <1>9 DEF CreditedOnce
<1>11. CreditedOnce'
  BY <1>1, <1>3, <1>9 DEF CreditedOnce
<1> QED BY <1>3, <1>8, <1>10, <1>11

\* What a step does to the credits: nothing, or one transaction commits.
Credits ==
  /\ CreditedOnce'
  /\ \/ UNCHANGED credited
     \/ \E o \in Orders : Book!Credit(o)

\* The commit of CreditAccrual is the step Credit of OrderBook.
LEMMA CommitIsCredit ==
  ASSUME LoyaltyInv, CreditedOnce, NEW w \in Workers, CreditCommitted(w), Counted(w),
         UNCHANGED <<status, accrual, ext>>
  PROVE  Credits
<1>1. status[order[w]] = "PROCESSED"
  BY DEF CreditCommitted, LoyaltyInv, CreditFollowsStatus
<1>2. PICK o \in Orders : o = order[w]
  BY CreditCounted
<1>3. Book!Credit(o)
  BY <1>1, <1>2, CreditCounted DEF Book!Credit
<1> QED BY <1>3, CreditCounted DEF Credits

LEMMA StepCounts ==
  ASSUME LoyaltyInv, CreditedOnce, [LoyaltyNext]_loyaltyVars
  PROVE  Credits
<1>1. ASSUME NEW h \in Handlers,
             Transact(h, Withdraw(h) \/ \E r \in WithdrawOpt : BeginWithdraw(h, r))
      PROVE  Credits
  <2>1. accruals' = accruals
    BY <1>1 DEF Transact, Withdraw, BeginWithdraw, UpdateBalance, LockBalance,
                InsertWithdrawal, CommitWithdraw, WithdrawalCommitted, tables
  <2>2. Counted(h)
    BY <1>1 DEF Transact, Counted
  <2> QED BY <2>1, <2>2, WithdrawalCounted DEF Credits
<1>2. ASSUME NEW w \in Workers, Transact(w, Credit(w))
      PROVE  Credits
  <2>1. w \in Procs /\ Counted(w) /\ UNCHANGED <<status, accrual, ext>>
    BY <1>2 DEF Transact, Counted, Procs
  <2>2. CASE UNCHANGED tables
    BY <2>1, <2>2, NothingCounted DEF Credits
  <2>3. CASE CreditCommitted(w)
    BY <2>1, <2>3, CommitIsCredit
  <2> QED BY <1>2, <2>2, <2>3 DEF Transact, Credit, InsertAccrual, UpsertBalance, CommitCredit
<1>3. ASSUME NEW p \in Procs, Transact(p, Rollback(p) \/ CommitUnseen(p))
      PROVE  Credits
  <2>1. Counted(p) /\ UNCHANGED <<status, accrual, ext>>
    BY <1>3 DEF Transact, Counted
  <2>2. CASE Rollback(p)
    BY <2>1, <2>2, NothingCounted DEF Rollback, Credits
  <2>3. CASE CommitUnseen(p) /\ p \in Handlers
    BY <2>1, <2>3, WithdrawalCounted DEF CommitUnseen, WithdrawalCommitted, Credits
  <2>4. CASE CommitUnseen(p) /\ p \notin Handlers
    <3>1. p \in Workers /\ CreditCommitted(p)
      BY <2>4 DEF CommitUnseen, Procs
    <3> QED BY <2>1, <3>1, CommitIsCredit
  <2> QED BY <1>3, <2>2, <2>3, <2>4 DEF Transact
<1>4. ASSUME UNCHANGED <<accruals, credited>>
      PROVE  Credits
  BY <1>4 DEF Credits, CreditedOnce
<1>5. ASSUME NEW o \in Orders, OrderStep(o)
      PROVE  Credits
  BY <1>4, <1>5 DEF OrderStep, vars, tables
<1>6. ASSUME NEW w \in Workers, NEW o \in Orders, CreditOrder(w, o)
      PROVE  Credits
  BY <1>4, <1>6 DEF CreditOrder, BeginCredit, tables
<1>7. ASSUME NEW u \in Users, GetBalance(u) \/ GetWithdrawals(u)
      PROVE  Credits
  BY <1>4, <1>7 DEF GetBalance, GetWithdrawals, vars, tables
<1>8. CASE UNCHANGED loyaltyVars
  BY <1>4, <1>8 DEF loyaltyVars, vars, tables
<1> QED BY <1>1, <1>2, <1>3, <1>5, <1>6, <1>7, <1>8 DEF LoyaltyNext

LEMMA StepImplementsBook ==
  ASSUME LoyaltyInv, CreditedOnce, [LoyaltyNext]_loyaltyVars
  PROVE  CreditedOnce' /\ [Book!Next]_(Book!vars)
<1>1. Credits
  BY StepCounts
<1>2. (\E o \in Orders : OrderStep(o)) \/ UNCHANGED <<status, accrual, ext>>
  BY DEF LoyaltyNext, CreditOrder, Transact, GetBalance, GetWithdrawals, loyaltyVars
<1>3. CASE \E o \in Orders : OrderStep(o)
  BY <1>1, <1>3 DEF OrderStep, Book!Next, Credits
<1>4. CASE UNCHANGED <<status, accrual, ext>>
  BY <1>1, <1>4 DEF Credits, Book!Next, Book!vars
<1> QED BY <1>1, <1>2, <1>3, <1>4 DEF Credits

\* What the transactions of the balance add to user_balance for an order, by
\* any number of workers that call CreditAccrual for it and with any failures,
\* is added after the order is PROCESSED, once, and is its reward.
THEOREM OrderBookImplementation == LoyaltySpec => ImplementsOrderBook
<1>1. LoyaltyInit => Book!Init
  BY DEF LoyaltyInit
<1> QED BY <1>1, InitLoyaltyInv, StepLoyaltyInv, InitCreditedOnce, StepImplementsBook, PTL
        DEF LoyaltySpec, ImplementsOrderBook, Book!Spec

-----------------------------------------------------------------------------
(* The balance that is shown and the list of orders.                         *)

\* The balance a user was shown has come from credits, and a credit from an
\* order that is PROCESSED with its reward in the list.
CreditsAreShown ==
  /\ IsFiniteSet({o \in Orders : status[o] # "ABSENT"})
  /\ accrual \in [Orders -> Nat]
  /\ \A o \in Orders : status[o] = "PROCESSED" => accrual[o] = Reward[o]
  /\ \A o \in accruals : status[o] = "PROCESSED"
  /\ \A u \in Users : page[u].current + page[u].withdrawn =< Credited(u)

ExplainedInv ==
  /\ LoyaltyInv /\ Books /\ CreditsAreShown
  /\ page \in [Users -> [current : Int, withdrawn : Int]]

\* More credits are a larger sum.
LEMMA CreditsGrow ==
  ASSUME IInv, Books, IInv', Books', accruals \subseteq accruals', NEW u \in Users
  PROVE  Credited(u)' \in Int /\ Credited(u) =< Credited(u)'
<1> DEFINE S == {o \in accruals : Owner[o] = u}
           T == {o \in accruals' : Owner[o] = u}
<1>1. S \in SUBSET T /\ IsFiniteSet(T)
  BY FS_Subset DEF Books
<1>2. T \subseteq Orders
  BY DEF IInv, TypeOK
<1>3. \A o \in T : Reward[o] \in Nat /\ Reward[o] \in Int /\ Reward[o] =< Reward[o]
  BY <1>2, OrdersAssumption
<1>4. Credited(u) = SumFunctionOnSet(Reward, S) /\ Credited(u)' = SumFunctionOnSet(Reward, T)
  BY DEF Credited
<1> HIDE DEF S, T
<1>5. /\ SumFunctionOnSet(Reward, T) \in Int
      /\ SumFunctionOnSet(Reward, S) =< SumFunctionOnSet(Reward, T)
  BY <1>1, <1>3, SumMonotone, SumType
<1> QED BY <1>4, <1>5

LEMMA CreditsArePositive ==
  ASSUME IInv, Books, NEW u \in Users
  PROVE  0 =< Credited(u)
<1> DEFINE T == {o \in accruals : Owner[o] = u}
<1>1. {} \in SUBSET T /\ IsFiniteSet(T)
  BY SumsAreNumbers
<1>2. T \subseteq Orders
  BY DEF IInv, TypeOK
<1>3. \A o \in T : Reward[o] \in Nat
  BY <1>2, OrdersAssumption
<1>4. Credited(u) = SumFunctionOnSet(Reward, T) /\ SumFunctionOnSet(Reward, {}) = 0
  BY SumOfNothing DEF Credited
<1> HIDE DEF T
<1>5. SumFunctionOnSet(Reward, {}) =< SumFunctionOnSet(Reward, T)
  BY <1>1, <1>3, SumMonotone
<1> QED BY <1>4, <1>5

LEMMA InitExplained == LoyaltyInit => ExplainedInv
<1> SUFFICES ASSUME LoyaltyInit PROVE ExplainedInv
  OBVIOUS
<1>1. LoyaltyInv /\ Books
  BY InitLoyaltyInv, InitBooks DEF LoyaltyInit
<1>2. page = [u \in Users |-> [current |-> 0, withdrawn |-> 0]]
  BY DEF LoyaltyInit
<1>3. /\ status = [o \in Orders |-> "ABSENT"]
      /\ accrual = [o \in Orders |-> 0]
      /\ accruals = {}
  BY DEF LoyaltyInit, Init, Book!Init
<1>4. {o \in Orders : status[o] # "ABSENT"} = {}
  BY <1>3
<1>5. \A u \in Users : page[u].current + page[u].withdrawn =< Credited(u)
  BY <1>1, <1>2, CreditsArePositive DEF LoyaltyInv
<1>6. CreditsAreShown
  BY <1>3, <1>4, <1>5, FS_EmptySet DEF CreditsAreShown
<1> QED BY <1>1, <1>2, <1>6 DEF ExplainedInv

\* What a step does to the orders.
LEMMA OrderStepShows ==
  ASSUME ExplainedInv, NEW o \in Orders, OrderStep(o)
  PROVE  /\ IsFiniteSet({x \in Orders : status'[x] # "ABSENT"})
         /\ accrual' \in [Orders -> Nat]
         /\ \A x \in Orders : status'[x] = "PROCESSED" => accrual'[x] = Reward[x]
         /\ \A x \in Orders : status[x] = "PROCESSED" => status'[x] = "PROCESSED"
<1> DEFINE F == {x \in Orders : status[x] # "ABSENT"}
           G == {x \in Orders : status'[x] # "ABSENT"}
<1>1. /\ status \in [Orders -> Status \union {"ABSENT"}]
      /\ accrual \in [Orders -> Nat]
      /\ \A x \in Orders : status[x] = "PROCESSED" => accrual[x] = Reward[x]
      /\ IsFiniteSet(F)
  BY DEF ExplainedInv, LoyaltyInv, CreditsAreShown
<1>2. Reward \in [Orders -> Nat]
  BY OrdersAssumption
<1>3. /\ \A x \in Orders : x # o => status'[x] = status[x]
      /\ accrual' \in [Orders -> Nat]
      /\ \A x \in Orders : status'[x] = "PROCESSED" => accrual'[x] = Reward[x]
      /\ \A x \in Orders : status[x] = "PROCESSED" => status'[x] = "PROCESSED"
  <2>1. CASE Book!Upload(o)
    BY <1>1, <2>1 DEF Book!Upload
  <2>2. CASE Book!Start(o)
    BY <1>1, <2>2 DEF Book!Start
  <2>3. CASE Book!Reject(o)
    BY <1>1, <2>3 DEF Book!Reject, Book!Pending
  <2>4. CASE Book!Approve(o)
    BY <1>1, <1>2, <2>4 DEF Book!Approve
  <2>5. CASE Book!Progress(o)
    BY <1>1, <2>5 DEF Book!Progress
  <2> QED BY <2>1, <2>2, <2>3, <2>4, <2>5 DEF OrderStep
<1>4. G \subseteq F \union {o}
  BY <1>3
<1> HIDE DEF F, G
<1>5. IsFiniteSet(G)
  BY <1>1, <1>4, FS_AddElement, FS_Subset
<1> QED BY <1>3, <1>5 DEF G

\* Credits stay, and a new one is of an order that is PROCESSED.
LEMMA StepCredits ==
  ASSUME LoyaltyInv, [LoyaltyNext]_loyaltyVars
  PROVE  /\ accruals \subseteq accruals'
         /\ \A o \in accruals' : o \in accruals \/ status[o] = "PROCESSED"
<1> DEFINE Goal == /\ accruals \subseteq accruals'
                   /\ \A o \in accruals' : o \in accruals \/ status[o] = "PROCESSED"
<1>1. ASSUME NEW w \in Workers, CreditCommitted(w)
      PROVE  Goal
  <2>1. pc[w] = "commit" /\ accruals' = accruals \union {order[w]}
    BY <1>1 DEF CreditCommitted
  <2>2. status[order[w]] = "PROCESSED"
    BY <2>1 DEF LoyaltyInv, CreditFollowsStatus
  <2> QED BY <2>1, <2>2
<1>2. ASSUME NEW h \in Handlers, Withdraw(h) \/ \E r \in WithdrawOpt : BeginWithdraw(h, r)
      PROVE  accruals' = accruals
  BY <1>2 DEF Withdraw, BeginWithdraw, UpdateBalance, LockBalance, InsertWithdrawal,
              CommitWithdraw, WithdrawalCommitted, tables
<1>3. ASSUME NEW w \in Workers, Credit(w)
      PROVE  Goal
  BY <1>1, <1>3 DEF Credit, InsertAccrual, UpsertBalance, CommitCredit, tables
<1>4. ASSUME NEW p \in Procs, Rollback(p) \/ CommitUnseen(p)
      PROVE  Goal
  BY <1>1, <1>4 DEF Rollback, CommitUnseen, WithdrawalCommitted, tables, Procs
<1>5. ASSUME NEW w \in Workers, NEW o \in Orders, CreditOrder(w, o)
      PROVE  accruals' = accruals
  BY <1>5 DEF CreditOrder, BeginCredit, tables
<1>6. ASSUME UNCHANGED vars
      PROVE  accruals' = accruals
  BY <1>6 DEF vars, tables
<1> QED BY <1>2, <1>3, <1>4, <1>5, <1>6
        DEF LoyaltyNext, OrderStep, Transact, GetBalance, GetWithdrawals, loyaltyVars

\* What the other steps leave alone.
LEMMA StepOutside ==
  ASSUME [LoyaltyNext]_loyaltyVars
  PROVE  /\ (\E o \in Orders : OrderStep(o)) \/ UNCHANGED <<status, accrual>>
         /\ (\E u \in Users : GetBalance(u)) \/ UNCHANGED page
  BY DEF LoyaltyNext, OrderStep, CreditOrder, Transact, GetBalance, GetWithdrawals, loyaltyVars

\* The page is the row, and the row is what the books say.
LEMMA GetBalanceShows ==
  ASSUME ExplainedInv, NEW u \in Users, GetBalance(u)
  PROVE  /\ page' \in [Users -> [current : Int, withdrawn : Int]]
         /\ \A v \in Users : page'[v].current + page'[v].withdrawn =< Credited(v)
<1>1. page \in [Users -> [current : Int, withdrawn : Int]] /\ IInv /\ Books
  BY DEF ExplainedInv, LoyaltyInv
<1>2. page' = [page EXCEPT ![u] = SelectBalance(u)]
  BY DEF GetBalance
<1>3. /\ SelectBalance(u) \in [current : Int, withdrawn : Int]
      /\ SelectBalance(u).current + SelectBalance(u).withdrawn =< Credited(u)
  <2>1. /\ current[u] \in Int /\ withdrawn[u] \in Int
        /\ withdrawn[u] = Spent(u) /\ current[u] = Credited(u) - Spent(u)
        /\ Spent(u) \in Int /\ Credited(u) \in Int /\ 0 =< Credited(u)
    BY <1>1, SumsAreNumbers, CreditsArePositive DEF IInv, TypeOK, Books, BooksBalance
  <2>2. current[u] + withdrawn[u] =< Credited(u)
    BY <2>1
  <2> QED BY <2>1, <2>2 DEF SelectBalance
<1>4. \A v \in Users : page[v].current + page[v].withdrawn =< Credited(v)
  BY DEF ExplainedInv, CreditsAreShown
<1> HIDE DEF IInv
<1>5. page' \in [Users -> [current : Int, withdrawn : Int]]
  BY <1>1, <1>2, <1>3
<1>6. ASSUME NEW v \in Users
      PROVE  page'[v].current + page'[v].withdrawn =< Credited(v)
  <2>1. CASE v = u
    BY <1>1, <1>2, <1>3, <2>1
  <2>2. CASE v # u
    BY <1>1, <1>2, <1>4, <2>2
  <2> QED BY <2>1, <2>2
<1> QED BY <1>5, <1>6

LEMMA StepExplained ==
  ASSUME ExplainedInv, [LoyaltyNext]_loyaltyVars
  PROVE  ExplainedInv'
<1>1. /\ LoyaltyInv /\ LoyaltyInv' /\ IInv /\ IInv' /\ Books /\ Books' /\ CreditsAreShown
      /\ page \in [Users -> [current : Int, withdrawn : Int]]
  BY StepLoyaltyInv, StepIsRepo, StepBooks DEF ExplainedInv, LoyaltyInv
<1>2. /\ IsFiniteSet({o \in Orders : status'[o] # "ABSENT"})
      /\ accrual' \in [Orders -> Nat]
      /\ \A o \in Orders : status'[o] = "PROCESSED" => accrual'[o] = Reward[o]
      /\ \A o \in Orders : status[o] = "PROCESSED" => status'[o] = "PROCESSED"
  <2>1. CASE \E o \in Orders : OrderStep(o)
    BY <2>1, OrderStepShows
  <2>2. CASE UNCHANGED <<status, accrual>>
    BY <1>1, <2>2 DEF CreditsAreShown
  <2> QED BY <2>1, <2>2, StepOutside
<1>3. \A o \in accruals' : status'[o] = "PROCESSED"
  <2>1. accruals' \subseteq Orders
    BY <1>1 DEF IInv, TypeOK
  <2> QED BY <1>1, <1>2, <2>1, StepCredits DEF CreditsAreShown
<1>4. \A u \in Users : Credited(u) =< Credited(u)' /\ Credited(u) \in Int /\ Credited(u)' \in Int
  <2>1. accruals \subseteq accruals'
    BY <1>1, StepCredits
  <2> QED BY <1>1, <2>1, SumsAreNumbers, CreditsGrow
<1>5. /\ page' \in [Users -> [current : Int, withdrawn : Int]]
      /\ \A u \in Users : page'[u].current + page'[u].withdrawn =< Credited(u)
  <2>1. CASE \E u \in Users : GetBalance(u)
    BY <2>1, GetBalanceShows
  <2>2. CASE UNCHANGED page
    BY <1>1, <2>2 DEF CreditsAreShown
  <2> QED BY <2>1, <2>2, StepOutside
<1>6. \A u \in Users : page'[u].current + page'[u].withdrawn =< Credited(u)'
  <2> SUFFICES ASSUME NEW u \in Users
               PROVE  page'[u].current + page'[u].withdrawn =< Credited(u)'
    OBVIOUS
  <2>1. page'[u].current \in Int /\ page'[u].withdrawn \in Int
    BY <1>5
  <2> QED BY <1>4, <1>5, <2>1
<1>7. CreditsAreShown'
  BY <1>2, <1>3, <1>6 DEF CreditsAreShown
<1> QED BY <1>1, <1>5, <1>7 DEF ExplainedInv

\* The list shows every credited order with what was credited.
LEMMA InvExplains == ExplainedInv => BalanceIsExplained
<1> SUFFICES ASSUME ExplainedInv, NEW u \in Users
             PROVE  page[u].current + page[u].withdrawn
                      =< SumFunction([o \in DOMAIN GetOrders(u) |-> GetOrders(u)[o].accrual])
  BY DEF BalanceIsExplained
<1> DEFINE S == {o \in accruals : Owner[o] = u}
           T == SelectOrders(u)
           e == [o \in DOMAIN GetOrders(u) |-> GetOrders(u)[o].accrual]
<1>1. IInv /\ Books /\ CreditsAreShown /\ page[u].current \in Int /\ page[u].withdrawn \in Int
  BY DEF ExplainedInv, LoyaltyInv
<1>2. DOMAIN e = T /\ \A o \in T : e[o] = IF status[o] = "PROCESSED" THEN accrual[o] ELSE 0
  BY DEF GetOrders, ToDTO
<1> HIDE DEF e
<1>3. IsFiniteSet(T)
  <2>1. T \subseteq {o \in Orders : status[o] # "ABSENT"}
    BY DEF SelectOrders
  <2> QED BY <1>1, <2>1, FS_Subset DEF CreditsAreShown
<1>4. S \in SUBSET T /\ S \subseteq Orders /\ T \subseteq Orders
  BY <1>1 DEF SelectOrders, CreditsAreShown, IInv, TypeOK
<1>5. \A o \in T : e[o] \in Nat
  <2>1. accrual \in [Orders -> Nat]
    BY <1>1 DEF CreditsAreShown
  <2> HIDE DEF T
  <2> QED BY <1>2, <1>4, <2>1
<1>6. \A o \in S : Reward[o] \in Int /\ Reward[o] =< e[o]
  <2> SUFFICES ASSUME NEW o \in S PROVE Reward[o] \in Int /\ Reward[o] =< e[o]
    OBVIOUS
  <2>1. status[o] = "PROCESSED" /\ o \in Orders /\ o \in T
    BY <1>1, <1>4 DEF CreditsAreShown
  <2>2. e[o] = Reward[o]
    BY <1>1, <1>2, <2>1 DEF CreditsAreShown
  <2>3. Reward[o] \in Nat
    BY <2>1, OrdersAssumption
  <2> QED BY <2>2, <2>3
<1>7. Credited(u) = SumFunctionOnSet(Reward, S) /\ Credited(u) \in Int
  BY <1>1, SumsAreNumbers DEF Credited
<1>8. SumFunction(e) = SumFunctionOnSet(e, T)
  BY <1>2 DEF SumFunction
<1>9. page[u].current + page[u].withdrawn =< Credited(u)
  BY <1>1 DEF CreditsAreShown
<1> HIDE DEF S, T
<1>10. SumFunctionOnSet(Reward, S) =< SumFunctionOnSet(e, T) /\ SumFunctionOnSet(e, T) \in Int
  BY <1>3, <1>4, <1>5, <1>6, SumMonotone, SumType
<1>11. page[u].current + page[u].withdrawn =< SumFunction(e)
  BY <1>1, <1>7, <1>8, <1>9, <1>10
<1> QED BY <1>11 DEF e

\* Whatever was shown as a balance, spent points included, is explained by the
\* orders listed afterwards, for any number of orders.
THEOREM BalanceExplained == LoyaltySpec => []BalanceIsExplained
  BY InitExplained, StepExplained, InvExplains, PTL DEF LoyaltySpec
=============================================================================
