---------------------------- MODULE OrderStatus ----------------------------
(***************************************************************************)
(* The statuses of an order on both sides of the accrual protocol, and how *)
(* an answer of the accrual system is applied to a row of table orders     *)
(* (internal/order/order.go, internal/order/accrual.go).                   *)
(***************************************************************************)
EXTENDS Naturals

\* orders.status, an enum of the database.
Pending == {"NEW", "PROCESSING"}
Final   == {"INVALID", "PROCESSED"}
Status  == Pending \union Final

\* "status" of an answer 200 of the accrual system.  An order it does not
\* know, UNREGISTERED here, is answered with 204 instead.
AccrualFinal  == {"INVALID", "PROCESSED"}
AccrualStatus == {"REGISTERED", "PROCESSING"} \union AccrualFinal

MapAccrualStatus(external) ==
  IF external = "REGISTERED" THEN "PROCESSING" ELSE external

\* A row is its status and its accrual, COALESCE(accrual, 0).
Row == [status : Status, accrual : Nat]

\* "given": the answer has a field "accrual" (info.Accrual # nil).
ApplyAccrualInfo(row, info) ==
  [status  |-> MapAccrualStatus(info.status),
   accrual |-> IF info.given THEN info.accrual ELSE row.accrual]
=============================================================================
