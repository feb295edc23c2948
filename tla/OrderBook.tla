----------------------------- MODULE OrderBook -----------------------------
(***************************************************************************)
(* What the service promises about orders, without queues, workers or      *)
(* failures: an order is uploaded once, its status follows the verdict of  *)
(* the accrual system forwards only, and the reward of a PROCESSED order   *)
(* is credited at most once and exactly.                                   *)
(*                                                                         *)
(* This is a specification for other modules to implement; it translates   *)
(* no code of its own.                                                     *)
(***************************************************************************)
EXTENDS OrderStatus

CONSTANTS
  Orders,     \* the orders that may be uploaded
  Reward      \* what the accrual system grants for each of them, 0 is nothing

VARIABLES
  status,     \* orders.status, "ABSENT" before the upload
  accrual,    \* orders.accrual
  credited,   \* what was added to the owner's balance for the order
  ext         \* the order in the accrual system

vars == <<status, accrual, credited, ext>>

Init ==
  /\ status   = [o \in Orders |-> "ABSENT"]
  /\ accrual  = [o \in Orders |-> 0]
  /\ credited = [o \in Orders |-> 0]
  /\ ext \in [Orders -> {"UNREGISTERED"} \union AccrualStatus]

Upload(o) ==
  /\ status[o] = "ABSENT"
  /\ status' = [status EXCEPT ![o] = "NEW"]
  /\ UNCHANGED <<accrual, credited, ext>>

\* The accrual system knows the order, it is not rewarded yet.
Start(o) ==
  /\ status[o] = "NEW"
  /\ ext[o] # "UNREGISTERED"
  /\ status' = [status EXCEPT ![o] = "PROCESSING"]
  /\ UNCHANGED <<accrual, credited, ext>>

Reject(o) ==
  /\ status[o] \in Pending
  /\ ext[o] = "INVALID"
  /\ status' = [status EXCEPT ![o] = "INVALID"]
  /\ UNCHANGED <<accrual, credited, ext>>

Approve(o) ==
  /\ status[o] \in Pending
  /\ ext[o] = "PROCESSED"
  /\ status'  = [status  EXCEPT ![o] = "PROCESSED"]
  /\ accrual' = [accrual EXCEPT ![o] = Reward[o]]
  /\ UNCHANGED <<credited, ext>>

Credit(o) ==
  /\ status[o] = "PROCESSED"
  /\ credited[o] = 0
  /\ credited' = [credited EXCEPT ![o] = Reward[o]]
  /\ UNCHANGED <<status, accrual, ext>>

\* The accrual system moves forward on its own; a verdict is never revised.
Progress(o) ==
  /\ ext[o] \notin AccrualFinal
  /\ \E s \in AccrualStatus : ext' = [ext EXCEPT ![o] = s]
  /\ UNCHANGED <<status, accrual, credited>>

Next ==
  \E o \in Orders :
    Upload(o) \/ Start(o) \/ Reject(o) \/ Approve(o) \/ Credit(o) \/ Progress(o)

Spec == Init /\ [][Next]_vars
=============================================================================
