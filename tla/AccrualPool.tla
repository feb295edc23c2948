---------------------------- MODULE AccrualPool ----------------------------
(***************************************************************************)
(* The accrual worker pool (internal/order/worker.go) with the parts of    *)
(* the order repository it works on: upload handlers, the periodic scanner *)
(* and the workers share the channel "jobs" and the set "inflight", read   *)
(* and write table orders, and credit balances.                            *)
(*                                                                         *)
(* One action is one atomic effect of the code: an operation of the        *)
(* sync.Map, of the channel or of the database.  A process that has the    *)
(* next effect still to do says so in its pc:                              *)
(*                                                                         *)
(*   handler  idle -> insert -> load -> send -> idle                       *)
(*   scanner  idle -> scan -> load -> send -> scan ... -> idle             *)
(*   worker   idle -> poll -> read -> write -> credit | load -> finish     *)
(*                                                                         *)
(* A full channel takes tryEnqueue from "send" to "undo".  Rate limits     *)
(* only delay a poll and are the subject of module RateLimit.              *)
(*                                                                         *)
(* A definition marked "Variant" is a faulty form of the one after it, to  *)
(* show that a property notices the difference.  Nothing uses it.          *)
(***************************************************************************)
EXTENDS OrderStatus, Sequences, FiniteSets, FiniteSetsExt, Functions

CONSTANTS
  Orders, Reward,   \* as in OrderBook
  Workers,          \* cfg.Workers goroutines
  Handlers,         \* POST /api/user/orders requests served at a time
  Scanner,          \* the scanner goroutine
  NoOrder,          \* the job of a process that has none
  PollBatch,        \* cfg.PollBatch
  QueueFactor,      \* 4 in the code, smaller to fill the queue of an instance
  MaxFaults         \* bound: failures and crashes of a behaviour

Procs == Workers \union Handlers \union {Scanner}

ASSUME OrdersAssumption == IsFiniteSet(Orders) /\ NoOrder \notin Orders
ASSUME RewardAssumption == Reward \in [Orders -> Nat]
ASSUME ProcsAssumption ==
  /\ IsFiniteSet(Workers) /\ Workers # {} /\ IsFiniteSet(Handlers)
  /\ Workers \intersect Handlers = {}
  /\ Scanner \notin Workers \union Handlers
ASSUME BoundsAssumption ==
  /\ PollBatch \in Nat \ {0}
  /\ QueueFactor \in Nat \ {0}
  /\ MaxFaults \in Nat

VARIABLES
  \* the database
  status,       \* orders.status, "ABSENT" without a row
  accrual,      \* orders.accrual
  uploadedAt,   \* orders.uploaded_at, 0 without a row
  credited,     \* balance_accruals.amount, 0 without a row
  startedAt,    \* NOW() of a handler's open INSERT, 0 without one
  \* the accrual system
  ext,
  \* the memory of the process
  jobs,         \* the channel: a queue of orders
  inflight,     \* the keys of the sync.Map
  pc, job,      \* of every goroutine
  batch,        \* what the scanner selected and has still to enqueue
  resp,         \* status a worker was answered with
  updated,      \* row a worker is about to write
  faults        \* failures so far

database == <<status, accrual, uploadedAt, credited>>
memory   == <<jobs, inflight, pc, job, batch, resp, updated>>
vars     == <<database, startedAt, ext, memory, faults>>

QueueSize ==
  LET size == QueueFactor * Cardinality(Workers)
  IN  IF size < PollBatch THEN PollBatch ELSE size

Labels == {"idle", "insert", "load", "send", "undo", "scan",
           "poll", "read", "write", "credit", "finish"}

\* What a worker's variables hold between two jobs.
NoAnswer == "UNREGISTERED"
NoRow    == [status |-> "ABSENT", accrual |-> 0]

-----------------------------------------------------------------------------
\* The answer 200 for an order in status s: "accrual" comes with PROCESSED,
\* unless there is nothing to grant.
Answer(o, s) ==
  [status  |-> s,
   given   |-> s = "PROCESSED" /\ Reward[o] > 0,
   accrual |-> Reward[o]]

RowOf(o) == [status |-> status[o], accrual |-> accrual[o]]

\* Variant: the scanner selects new orders only.
PendingOrdersNewOnly == {o \in Orders : status[o] = "NEW"}

PendingOrders == {o \in Orders : status[o] \in Pending}

\* ORDER BY uploaded_at ASC LIMIT PollBatch
Oldest(S) ==
  {o \in S : Cardinality({q \in S : uploadedAt[q] < uploadedAt[o]}) < PollBatch}

\* Where a process continues when it returns from tryEnqueue or gives up.
Home(p) ==
  IF p \in Workers THEN "finish" ELSE IF p = Scanner THEN "scan" ELSE "idle"

Goto(p, l) == pc' = [pc EXCEPT ![p] = l]

Return(p) ==
  /\ Goto(p, Home(p))
  /\ job' = IF p \in Workers THEN job ELSE [job EXCEPT ![p] = NoOrder]

Fail == faults < MaxFaults /\ faults' = faults + 1

-----------------------------------------------------------------------------
\* Variant: the result of LoadOrStore is ignored.
LoadOrStoreUnchecked(p) ==
  /\ pc[p] = "load"
  /\ Goto(p, "send")
  /\ inflight' = inflight \union {job[p]}
  /\ UNCHANGED <<database, startedAt, ext, jobs, job, batch, resp, updated, faults>>

\* tryEnqueue(job[p]): claim the order in inflight, then a send that does
\* not block; a full channel gives the claim back.
LoadOrStore(p) ==
  /\ pc[p] = "load"
  /\ IF job[p] \in inflight
     THEN Return(p) /\ UNCHANGED inflight
     ELSE Goto(p, "send") /\ inflight' = inflight \union {job[p]} /\ UNCHANGED job
  /\ UNCHANGED <<database, startedAt, ext, jobs, batch, resp, updated, faults>>

Send(p) ==
  /\ pc[p] = "send"
  /\ IF Len(jobs) < QueueSize
     THEN Return(p) /\ jobs' = Append(jobs, job[p])
     ELSE Goto(p, "undo") /\ UNCHANGED <<jobs, job>>
  /\ UNCHANGED <<database, startedAt, ext, inflight, batch, resp, updated, faults>>

\* Variant: a full channel drops the job and keeps its key.
UndoForgotten(p) ==
  /\ pc[p] = "undo"
  /\ Return(p)
  /\ UNCHANGED <<database, startedAt, ext, jobs, inflight, batch, resp, updated, faults>>

Undo(p) ==
  /\ pc[p] = "undo"
  /\ inflight' = inflight \ {job[p]}
  /\ Return(p)
  /\ UNCHANGED <<database, startedAt, ext, jobs, batch, resp, updated, faults>>

-----------------------------------------------------------------------------
\* An upload handler: InsertOrder, then Enqueue.  uploaded_at is NOW() of the
\* INSERT, which others see when it is committed: of two open INSERTs the
\* second may be seen first.  An upload of an order that has a row changes
\* nothing.
Now == 1 + Max({0} \union Range(uploadedAt) \union Range(startedAt))

BeginInsert(h, o) ==
  /\ pc[h] = "idle"
  /\ status[o] = "ABSENT"
  /\ startedAt' = [startedAt EXCEPT ![h] = Now]
  /\ job' = [job EXCEPT ![h] = o]
  /\ Goto(h, "insert")
  /\ UNCHANGED <<database, ext, jobs, inflight, batch, resp, updated, faults>>

Inserted(h) ==
  /\ status[job[h]] = "ABSENT"
  /\ status'     = [status EXCEPT ![job[h]] = "NEW"]
  /\ uploadedAt' = [uploadedAt EXCEPT ![job[h]] = startedAt[h]]
  /\ UNCHANGED <<accrual, credited>>

\* The INSERT is committed, or refused: another handler inserted the number
\* meanwhile, and this one returns before Enqueue.
InsertOrder(h) ==
  /\ pc[h] = "insert"
  /\ startedAt' = [startedAt EXCEPT ![h] = 0]
  /\ IF status[job[h]] = "ABSENT"
     THEN Inserted(h) /\ Goto(h, "load") /\ UNCHANGED job
     ELSE UNCHANGED database /\ Return(h)
  /\ UNCHANGED <<ext, jobs, inflight, batch, resp, updated, faults>>

\* The handler sees an error (its client went away, the connection broke),
\* whether or not the row is committed: CreateOrder returns before Enqueue.
InsertFails(h) ==
  /\ pc[h] = "insert"
  /\ Fail
  /\ startedAt' = [startedAt EXCEPT ![h] = 0]
  /\ Inserted(h) \/ UNCHANGED database
  /\ Return(h)
  /\ UNCHANGED <<ext, jobs, inflight, batch, resp, updated>>

-----------------------------------------------------------------------------
\* scanPending, at every tick.
SelectPending ==
  /\ pc[Scanner] = "idle"
  /\ batch' = Oldest(PendingOrders)
  /\ Goto(Scanner, "scan")
  /\ UNCHANGED <<database, startedAt, ext, jobs, inflight, job, resp, updated, faults>>

ScanNext ==
  /\ pc[Scanner] = "scan"
  /\ IF batch = {}
     THEN Goto(Scanner, "idle") /\ UNCHANGED <<job, batch>>
     ELSE /\ \E o \in batch :
               /\ \A q \in batch : uploadedAt[o] =< uploadedAt[q]
               /\ job'   = [job EXCEPT ![Scanner] = o]
               /\ batch' = batch \ {o}
          /\ Goto(Scanner, "load")
  /\ UNCHANGED <<database, startedAt, ext, jobs, inflight, resp, updated, faults>>

-----------------------------------------------------------------------------
\* A worker: processJob and applyAccrualUpdate.
Take(w) ==
  /\ pc[w] = "idle"
  /\ jobs # << >>
  /\ job'  = [job EXCEPT ![w] = Head(jobs)]
  /\ jobs' = Tail(jobs)
  /\ Goto(w, "poll")
  /\ UNCHANGED <<database, startedAt, ext, inflight, batch, resp, updated, faults>>

\* Variants: 204 is read as a 200 without a known status, or as a rejection.
PollOrderIgnores204(w) ==
  /\ pc[w] = "poll"
  /\ Goto(w, "read")
  /\ resp' = [resp EXCEPT ![w] = ext[job[w]]]
  /\ UNCHANGED <<database, startedAt, ext, jobs, inflight, job, batch, updated, faults>>

PollOrderRejects204(w) ==
  /\ pc[w] = "poll"
  /\ Goto(w, "read")
  /\ resp' = [resp EXCEPT ![w] =
                IF ext[job[w]] = "UNREGISTERED" THEN "INVALID" ELSE ext[job[w]]]
  /\ UNCHANGED <<database, startedAt, ext, jobs, inflight, job, batch, updated, faults>>

\* PollOrder answers: 200 with the order's status, or 204.
PollOrder(w) ==
  /\ pc[w] = "poll"
  /\ IF ext[job[w]] = "UNREGISTERED"
     THEN Goto(w, "finish") /\ UNCHANGED resp
     ELSE Goto(w, "read") /\ resp' = [resp EXCEPT ![w] = ext[job[w]]]
  /\ UNCHANGED <<database, startedAt, ext, jobs, inflight, job, batch, updated, faults>>

\* 429: the worker sets the rate limit and calls tryEnqueue.
PollRateLimited(w) ==
  /\ pc[w] = "poll"
  /\ Fail
  /\ Goto(w, "load")
  /\ UNCHANGED <<database, startedAt, ext, jobs, inflight, job, batch, resp, updated>>

\* The poll or GetOrderByID fails, or the answer has an unknown status.
PollOrReadFails(w) ==
  /\ pc[w] \in {"poll", "read"}
  /\ Fail
  /\ Goto(w, "finish")
  /\ UNCHANGED <<database, startedAt, ext, jobs, inflight, job, batch, resp, updated>>

\* GetOrderByID and ApplyAccrualInfo.
ReadOrder(w) ==
  LET current == RowOf(job[w])
      update  == ApplyAccrualInfo(current, Answer(job[w], resp[w]))
  IN  /\ pc[w] = "read"
      /\ IF update = current
         THEN Goto(w, "finish") /\ UNCHANGED updated
         ELSE Goto(w, "write") /\ updated' = [updated EXCEPT ![w] = update]
      /\ UNCHANGED <<database, startedAt, ext, jobs, inflight, job, batch, resp, faults>>

\* UpdateOrderAccrual's statement: no condition on the status of the row.
Written(w) ==
  /\ status'  = [status  EXCEPT ![job[w]] = updated[w].status]
  /\ accrual' = [accrual EXCEPT ![job[w]] = updated[w].accrual]
  /\ UNCHANGED <<uploadedAt, credited>>

AfterWrite(w) ==
  IF updated[w].status = "PROCESSED" /\ updated[w].accrual > 0 THEN "credit"
  ELSE IF updated[w].status \in Pending THEN "load" ELSE "finish"

UpdateOrderAccrual(w) ==
  /\ pc[w] = "write"
  /\ Written(w)
  /\ Goto(w, AfterWrite(w))
  /\ UNCHANGED <<startedAt, ext, jobs, inflight, job, batch, resp, updated, faults>>

\* Variant: the error is ignored.
UpdateErrorIgnored(w) ==
  /\ pc[w] = "write"
  /\ Fail
  /\ Written(w) \/ UNCHANGED database
  /\ Goto(w, AfterWrite(w))
  /\ UNCHANGED <<startedAt, ext, jobs, inflight, job, batch, resp, updated>>

\* The worker sees an error, whether or not the statement took effect.
UpdateFails(w) ==
  /\ pc[w] = "write"
  /\ Fail
  /\ Written(w) \/ UNCHANGED database
  /\ Goto(w, "finish")
  /\ UNCHANGED <<startedAt, ext, jobs, inflight, job, batch, resp, updated>>

\* The transaction of CreditAccrual: its insert is refused when the order has
\* a row already.
Credited(w) ==
  /\ credited' = [credited EXCEPT ![job[w]] =
                    IF @ = 0 THEN updated[w].accrual ELSE @]
  /\ UNCHANGED <<status, accrual, uploadedAt>>

CreditAccrual(w) ==
  /\ pc[w] = "credit"
  /\ Credited(w)
  /\ Goto(w, "finish")
  /\ UNCHANGED <<startedAt, ext, jobs, inflight, job, batch, resp, updated, faults>>

CreditFails(w) ==
  /\ pc[w] = "credit"
  /\ Fail
  /\ Credited(w) \/ UNCHANGED database
  /\ Goto(w, "finish")
  /\ UNCHANGED <<startedAt, ext, jobs, inflight, job, batch, resp, updated>>

\* Variant: the key stays.
FinishForgotten(w) ==
  /\ pc[w] = "finish"
  /\ Goto(w, "idle")
  /\ job'     = [job     EXCEPT ![w] = NoOrder]
  /\ resp'    = [resp    EXCEPT ![w] = NoAnswer]
  /\ updated' = [updated EXCEPT ![w] = NoRow]
  /\ UNCHANGED <<database, startedAt, ext, jobs, inflight, batch, faults>>

\* The deferred inflight.Delete.
Finish(w) ==
  /\ pc[w] = "finish"
  /\ inflight' = inflight \ {job[w]}
  /\ Goto(w, "idle")
  /\ job'     = [job     EXCEPT ![w] = NoOrder]
  /\ resp'    = [resp    EXCEPT ![w] = NoAnswer]
  /\ updated' = [updated EXCEPT ![w] = NoRow]
  /\ UNCHANGED <<database, startedAt, ext, jobs, batch, faults>>

-----------------------------------------------------------------------------
\* The accrual system, which may know an order before it is uploaded.
ExtProgress(o) ==
  /\ \/ ext[o] = "UNREGISTERED" /\ \E s \in AccrualStatus : ext' = [ext EXCEPT ![o] = s]
     \/ ext[o] = "REGISTERED"
        /\ \E s \in AccrualStatus \ {"REGISTERED"} : ext' = [ext EXCEPT ![o] = s]
     \/ ext[o] = "PROCESSING" /\ \E s \in AccrualFinal : ext' = [ext EXCEPT ![o] = s]
  /\ UNCHANGED <<database, startedAt, memory, faults>>

\* The process stops anywhere, by a crash or by a shutdown that does not wait
\* for the workers, and starts again with an empty memory.
Restart ==
  /\ Fail
  /\ startedAt' = [h \in Handlers |-> 0]
  /\ jobs'     = << >>
  /\ inflight' = {}
  /\ pc'       = [p \in Procs |-> "idle"]
  /\ job'      = [p \in Procs |-> NoOrder]
  /\ batch'    = {}
  /\ resp'     = [w \in Workers |-> NoAnswer]
  /\ updated'  = [w \in Workers |-> NoRow]
  /\ UNCHANGED <<database, ext>>

Init ==
  /\ status     = [o \in Orders |-> "ABSENT"]
  /\ accrual    = [o \in Orders |-> 0]
  /\ uploadedAt = [o \in Orders |-> 0]
  /\ credited   = [o \in Orders |-> 0]
  /\ startedAt  = [h \in Handlers |-> 0]
  /\ ext        = [o \in Orders |-> "UNREGISTERED"]
  /\ jobs       = << >>
  /\ inflight   = {}
  /\ pc         = [p \in Procs |-> "idle"]
  /\ job        = [p \in Procs |-> NoOrder]
  /\ batch      = {}
  /\ resp       = [w \in Workers |-> NoAnswer]
  /\ updated    = [w \in Workers |-> NoRow]
  /\ faults = 0

TryEnqueue(p) == LoadOrStore(p) \/ Send(p) \/ Undo(p)

Upload(h) ==
  (\E o \in Orders : BeginInsert(h, o)) \/ InsertOrder(h) \/ InsertFails(h)

Scan == SelectPending \/ ScanNext

ProcessJob(w) ==
  \/ Take(w) \/ PollOrder(w) \/ ReadOrder(w)
  \/ UpdateOrderAccrual(w) \/ CreditAccrual(w) \/ Finish(w)

WorkerFails(w) ==
  PollRateLimited(w) \/ PollOrReadFails(w) \/ UpdateFails(w) \/ CreditFails(w)

Next ==
  \/ \E p \in Procs : TryEnqueue(p)
  \/ \E h \in Handlers : Upload(h)
  \/ Scan
  \/ \E w \in Workers : ProcessJob(w) \/ WorkerFails(w)
  \/ \E o \in Orders : ExtProgress(o)
  \/ Restart

Spec == Init /\ [][Next]_vars

\* Every goroutine is scheduled and the ticker ticks.
Fairness ==
  /\ \A p \in Procs : WF_vars(TryEnqueue(p))
  /\ WF_vars(Scan)
  /\ \A w \in Workers : WF_vars(ProcessJob(w))

FairSpec == Spec /\ Fairness

\* The accrual system reaches a verdict on every order, and keeps it.
ExtDecides == <>(\A o \in Orders : ext[o] \in AccrualFinal)

-----------------------------------------------------------------------------
\* Every variable has its type: the columns of table orders hold statuses and
\* amounts, and what a worker is about to write is a row of that table.
TypeOK ==
  /\ status     \in [Orders -> Status \union {"ABSENT"}]
  /\ accrual    \in [Orders -> Nat]
  /\ uploadedAt \in [Orders -> Nat]
  /\ credited   \in [Orders -> Nat]
  /\ startedAt  \in [Handlers -> Nat]
  /\ ext        \in [Orders -> AccrualStatus \union {"UNREGISTERED"}]
  /\ jobs       \in Seq(Orders)
  /\ inflight   \in SUBSET Orders
  /\ job        \in [Procs -> Orders \union {NoOrder}]
  /\ batch      \in SUBSET Orders
  /\ resp       \in [Workers -> AccrualStatus \union {NoAnswer}]
  /\ updated    \in [Workers -> Row \union {NoRow}]
  /\ pc         \in [Procs -> Labels]
  /\ faults \in 0 .. MaxFaults

\* Who is responsible for an order: its place in the channel, the worker that
\* processes it, or the process that claimed it and has still to send it or to
\* give it back.
Queued(o) == \E i \in 1 .. Len(jobs) : jobs[i] = o
Owns(p)   == IF p \in Workers THEN pc[p] # "idle" ELSE pc[p] \in {"send", "undo"}
Owner(o)  == {p \in Procs : Owns(p) /\ job[p] = o}

\* "inflight: one order_id is not processed by two workers in parallel"
\* (docs/pool-architecture.md:57).  An order has at most one place in the
\* channel, or one owner, never both.
OneOwner ==
  /\ \A p, q \in Procs : Owns(p) /\ Owns(q) /\ job[p] = job[q] => p = q
  /\ \A i, j \in 1 .. Len(jobs) : jobs[i] = jobs[j] => i = j
  /\ \A p \in Procs : Owns(p) => ~Queued(job[p])

\* inflight holds exactly the orders somebody is responsible for.  A key left
\* behind would shut its order out of the channel until the next restart.
NoLeak ==
  \A o \in Orders : o \in inflight <=> Queued(o) \/ Owner(o) # {}

\* A verdict once stored is never overwritten, although UpdateOrderAccrual
\* writes whatever an answer polled earlier said, without looking at the row.
FinalStatusIsFinal ==
  [][\A o \in Orders : status[o] \in Final =>
       status'[o] = status[o] /\ accrual'[o] = accrual[o]]_vars

\* Every key of inflight is one place in the channel or one goroutine at work,
\* so the memory of the pool is bounded by the channel's size and by how many
\* goroutines there are.
InflightIsCounted ==
  /\ Cardinality(inflight) = Len(jobs) + Cardinality({p \in Procs : Owns(p)})
  /\ Len(jobs) =< QueueSize

\* Nothing is credited but the reward of a PROCESSED order, whatever failed,
\* was retried or restarted in between.
CreditIsReward ==
  \A o \in Orders : credited[o] # 0 =>
    status[o] = "PROCESSED" /\ accrual[o] = Reward[o] /\ credited[o] = Reward[o]

\* The pool implements the promise of OrderBook.
Book == INSTANCE OrderBook
          WITH status <- status, accrual <- accrual, credited <- credited, ext <- ext
ImplementsOrderBook == Book!Spec

\* The reward of o is lost: the status is final, nothing was credited, and no
\* worker is about to.
Lost(o) ==
  /\ status[o] = "PROCESSED" /\ credited[o] # Reward[o]
  /\ \A w \in Workers : pc[w] = "credit" => job[w] # o

\* Only a failure or a restart loses a reward.
LostOnlyByFault ==
  [][\A o \in Orders : Lost(o)' => Lost(o) \/ faults' > faults]_vars

\* And for good: no scan, answer or restart ever credits it afterwards.
LossIsFinal ==
  [][\A o \in Orders : Lost(o) => Lost(o)']_vars

\* An uploaded order gets the verdict of an accrual system that reaches one on
\* every order, in spite of full queues, failures and restarts.
VerdictDelivered ==
  ExtDecides => \A o \in Orders : status[o] # "ABSENT" ~> status[o] \in Final

\* The reward of every uploaded order reaches the balance.
RewardCredited ==
  \A o \in Orders :
    status[o] # "ABSENT" /\ ext[o] = "PROCESSED" ~> credited[o] = Reward[o]

\* It does if the accrual system decides every order, no statement fails and
\* the process is not restarted.
RewardCreditedUnlessFailed ==
  ExtDecides => \A o \in Orders :
    status[o] # "ABSENT" /\ ext[o] = "PROCESSED" ~>
      credited[o] = Reward[o] \/ faults > 0

\* applyAccrualUpdate "puts the order in the queue again" while it is NEW or
\* PROCESSING, as "another poll is needed" (worker.go:207-208, 240), so does the
\* answer 429 (docs/accrual-client.md:127), and the scanner picks NEW and
\* PROCESSING for "another poll" (worker.go:52): an order for which a worker
\* calls tryEnqueue is polled again.
RequeuedIsRepolled ==
  \A o \in Orders :
    (\E w \in Workers : pc[w] = "load" /\ job[w] = o) ~>
      status[o] \in Final \/ \E w \in Workers : pc[w] = "poll" /\ job[w] = o

\* The orders that come before o: pending ones uploaded earlier, and those of
\* open INSERTs that started earlier.
Ahead(o) ==
  {q \in PendingOrders : uploadedAt[q] < uploadedAt[o]} \union
  {job[h] : h \in {g \in Handlers : pc[g] = "insert" /\ startedAt[g] < uploadedAt[o]}}

FirstInLine == {o \in PendingOrders : Cardinality(Ahead(o)) < PollBatch}

\* What is left of it: one of the PollBatch oldest pending orders is, however
\* silent the accrual system, full the channel and many the failures.
OldestIsRepolled ==
  \A o \in Orders : o \in FirstInLine ~>
    status[o] \in Final \/ \E w \in Workers : job[w] = o

\* An order that is among the oldest stays among them until it has a verdict:
\* no upload, and no failed or repeated poll, puts another one before it.
PlaceIsKept ==
  [][\A o \in FirstInLine : status'[o] \in Final \/ o \in FirstInLine']_vars

-----------------------------------------------------------------------------
(* The inductive invariant.  It strengthens OneOwner and NoLeak with where   *)
(* each goroutine can be and with what an answer on its way to the database  *)
(* may still say.                                                            *)

PcOK ==
  /\ \A w \in Workers :
       pc[w] \in {"idle", "poll", "read", "write", "credit", "load", "finish"}
  /\ \A h \in Handlers : pc[h] \in {"idle", "insert", "load", "send", "undo"}
  /\ pc[Scanner] \in {"idle", "scan", "load", "send", "undo"}
  /\ \A p \in Procs : job[p] = NoOrder <=> pc[p] \in {"idle", "scan"}

\* Only orders with a row are queued, selected or processed.
OnlyUploaded ==
  /\ \A p \in Procs :
       job[p] # NoOrder /\ pc[p] # "insert" => status[job[p]] # "ABSENT"
  /\ \A i \in 1 .. Len(jobs) : status[jobs[i]] # "ABSENT"
  /\ \A o \in batch : status[o] # "ABSENT"

\* The table is never ahead of the accrual system.
RowFollowsExt ==
  \A o \in Orders :
    /\ status[o] = "PROCESSING" => ext[o] # "UNREGISTERED"
    /\ status[o] = "INVALID"    => ext[o] = "INVALID"
    /\ status[o] = "PROCESSED"  => ext[o] = "PROCESSED" /\ accrual[o] = Reward[o]
    /\ status[o] # "PROCESSED"  => accrual[o] = 0 /\ credited[o] = 0
    /\ credited[o] \in {0, Reward[o]}

\* An answer in the hands of a worker is not older than the row's verdict.
AnswerIsFresh ==
  \A w \in Workers : pc[w] \in {"read", "write"} =>
    /\ resp[w] \in AccrualStatus
    /\ ext[job[w]] # "UNREGISTERED"
    /\ resp[w] \in AccrualFinal        => ext[job[w]] = resp[w]
    /\ status[job[w]] \in Final        => resp[w] = status[job[w]]

\* A worker about to write moves a pending order to another status.
WriteMovesOn ==
  \A w \in Workers : pc[w] = "write" =>
    /\ status[job[w]] \in Pending
    /\ updated[w].status = MapAccrualStatus(resp[w])
    /\ updated[w].status # status[job[w]]
    /\ updated[w].accrual = IF resp[w] = "PROCESSED" THEN Reward[job[w]] ELSE 0

\* A worker about to credit is the first to do so.
CreditIsFirst ==
  \A w \in Workers : pc[w] = "credit" =>
    /\ status[job[w]] = "PROCESSED"
    /\ credited[job[w]] = 0
    /\ updated[w].accrual = Reward[job[w]]

IInv ==
  /\ TypeOK /\ PcOK /\ OneOwner /\ NoLeak /\ OnlyUploaded
  /\ RowFollowsExt /\ AnswerIsFresh /\ WriteMovesOn /\ CreditIsFirst
=============================================================================
