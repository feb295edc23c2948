------------------------- MODULE AccrualPoolProofs -------------------------
(***************************************************************************)
(* Proofs about AccrualPool: IInv is an inductive invariant, and with it   *)
(* the pool implements OrderBook and never overwrites a verdict.           *)
(***************************************************************************)
EXTENDS AccrualPool, SumProofs, SequenceTheorems, FunctionTheorems

-----------------------------------------------------------------------------
(* The channel as a set of orders.                                          *)

Distinct == \A i, j \in 1 .. Len(jobs) : jobs[i] = jobs[j] => i = j

\* A send adds the order it sends, at the end.
LEMMA QueuedAppend ==
  ASSUME jobs \in Seq(Orders), NEW e \in Orders, jobs' = Append(jobs, e)
  PROVE  /\ jobs' \in Seq(Orders)
         /\ \A o \in Orders : Queued(o)' <=> Queued(o) \/ o = e
         /\ Distinct /\ ~Queued(e) => Distinct'
         /\ \A i \in 1 .. Len(jobs') : jobs'[i] = e \/ \E j \in 1 .. Len(jobs) : jobs'[i] = jobs[j]
<1>1. /\ jobs' \in Seq(Orders) /\ Len(jobs) \in Nat /\ Len(jobs') = Len(jobs) + 1
      /\ \A i \in 1 .. Len(jobs) : jobs'[i] = jobs[i]
      /\ jobs'[Len(jobs) + 1] = e
  BY AppendProperties, LenProperties
<1>2. 1 .. Len(jobs') = (1 .. Len(jobs)) \union {Len(jobs) + 1}
  BY <1>1
<1>. QED  BY <1>1, <1>2 DEF Queued, Distinct

\* A receive takes the first order and moves the others up.
LEMMA QueuedTail ==
  ASSUME jobs \in Seq(Orders), jobs # << >>, jobs' = Tail(jobs)
  PROVE  /\ Head(jobs) \in Orders /\ Queued(Head(jobs))
         /\ jobs' \in Seq(Orders)
         /\ Distinct => \A o \in Orders : Queued(o)' <=> Queued(o) /\ o # Head(jobs)
         /\ Distinct => Distinct'
         /\ \A i \in 1 .. Len(jobs') : \E j \in 1 .. Len(jobs) : jobs'[i] = jobs[j]
<1>1. /\ Head(jobs) = jobs[1] /\ jobs[1] \in Orders
      /\ jobs' \in Seq(Orders) /\ Len(jobs) \in Nat \ {0} /\ Len(jobs') = Len(jobs) - 1
      /\ \A i \in 1 .. Len(jobs') : jobs'[i] = jobs[i + 1]
  BY HeadTailProperties, EmptySeq, LenProperties
<1>2. \A i \in 1 .. Len(jobs') : i + 1 \in 1 .. Len(jobs) /\ i + 1 # 1
  BY <1>1
<1>3. \A j \in 1 .. Len(jobs) : j # 1 => j - 1 \in 1 .. Len(jobs') /\ jobs'[j - 1] = jobs[j]
  BY <1>1
<1>4. 1 \in 1 .. Len(jobs)
  BY <1>1
<1>5. ASSUME Distinct PROVE Distinct'
  <2>. SUFFICES ASSUME NEW i \in 1 .. Len(jobs'), NEW j \in 1 .. Len(jobs'), jobs'[i] = jobs'[j]
                PROVE  i = j
    BY DEF Distinct
  <2>1. i + 1 = j + 1
    BY <1>1, <1>2, <1>5 DEF Distinct
  <2>. QED  BY <2>1
<1>6. ASSUME Distinct, NEW o \in Orders, Queued(o)' PROVE Queued(o) /\ o # Head(jobs)
  <2>. PICK i \in 1 .. Len(jobs') : jobs'[i] = o
    BY <1>6 DEF Queued
  <2>1. jobs[i + 1] = o /\ i + 1 \in 1 .. Len(jobs) /\ i + 1 # 1
    BY <1>1, <1>2
  <2>. QED  BY <1>1, <1>4, <1>6, <2>1 DEF Queued, Distinct
<1>7. ASSUME NEW o \in Orders, Queued(o), o # Head(jobs) PROVE Queued(o)'
  BY <1>1, <1>3, <1>7 DEF Queued
<1>8. \A i \in 1 .. Len(jobs') : \E j \in 1 .. Len(jobs) : jobs'[i] = jobs[j]
  BY <1>1, <1>2
<1>. QED  BY <1>1, <1>4, <1>5, <1>6, <1>7, <1>8 DEF Queued

LEMMA MaxIsLargest ==
  ASSUME NEW S, S \subseteq Nat, S # {}, IsFiniteSet(S)
  PROVE  Max(S) \in S /\ \A n \in S : n =< Max(S)
<1>. DEFINE Q == {T \in SUBSET S : T = {} \/ \E m \in T : \A n \in T : n =< m}
<1>1. ASSUME NEW T \in SUBSET S, \A x \in T : T \ {x} \in Q PROVE T \in Q
  <2>. SUFFICES ASSUME NEW x \in T PROVE \E m \in T : \A n \in T : n =< m
    OBVIOUS
  <2>1. CASE T \ {x} = {}
    BY <2>1
  <2>2. CASE T \ {x} # {}
    <3>1. PICK m \in T \ {x} : \A n \in T \ {x} : n =< m
      BY <1>1, <2>2
    <3>2. m \in Nat /\ x \in Nat
      OBVIOUS
    <3>3. CASE x =< m
      BY <3>1, <3>3
    <3>4. CASE ~(x =< m)
      <4>1. \A n \in T : n =< x
        BY <3>1, <3>2, <3>4
      <4>. QED  BY <4>1
    <3>. QED  BY <3>3, <3>4
  <2>. QED  BY <2>1, <2>2
<1>. HIDE DEF Q
<1>2. S \in Q
  BY <1>1, SetInduction
<1>3. PICK m \in S : \A n \in S : n =< m
  BY <1>2 DEF Q
<1>4. \A n \in S : m >= n
  BY <1>3
<1>5. Max(S) \in S /\ \A n \in S : Max(S) >= n
  BY <1>4 DEF Max
<1>. QED  BY <1>5

\* NOW() is a number, later than every row and every open INSERT.
LEMMA NowIsLater ==
  ASSUME TypeOK
  PROVE  /\ Now \in Nat
         /\ \A o \in Orders : uploadedAt[o] < Now
         /\ \A h \in Handlers : startedAt[h] < Now
<1>. DEFINE S == {0} \union Range(uploadedAt) \union Range(startedAt)
<1>1. uploadedAt \in [Orders -> Nat] /\ startedAt \in [Handlers -> Nat]
  BY DEF TypeOK
<1>2. S \subseteq Nat /\ S # {}
  BY <1>1 DEF Range
<1>3. /\ \A o \in Orders : uploadedAt[o] \in S
      /\ \A h \in Handlers : startedAt[h] \in S
  BY <1>1 DEF Range
<1>4. IsFiniteSet(S)
  <2>1. /\ uploadedAt \in Surjection(Orders, Range(uploadedAt))
        /\ startedAt \in Surjection(Handlers, Range(startedAt))
    BY <1>1, Fun_RangeProperties
  <2>2. IsFiniteSet(Range(uploadedAt)) /\ IsFiniteSet(Range(startedAt))
    BY <2>1, OrdersAssumption, ProcsAssumption, FS_Surjection
  <2>3. IsFiniteSet({0})
    BY FS_Singleton
  <2>. QED  BY <2>2, <2>3, FS_Union
<1>5. Now = 1 + Max(S)
  BY DEF Now
<1>. HIDE DEF S
<1>6. Max(S) \in S /\ \A n \in S : n =< Max(S)
  BY <1>2, <1>4, MaxIsLargest
<1>7. Max(S) \in Nat
  BY <1>2, <1>6
<1>8. \A n \in S : n \in Nat /\ n < Now
  BY <1>2, <1>5, <1>6, <1>7
<1>. QED  BY <1>3, <1>5, <1>7, <1>8

-----------------------------------------------------------------------------
LEMMA InitIInv == Init => IInv
<1>. SUFFICES ASSUME Init PROVE IInv
  OBVIOUS
<1>1. TypeOK
  BY BoundsAssumption DEF Init, TypeOK, Labels
<1>2. PcOK /\ OneOwner /\ NoLeak /\ OnlyUploaded
  BY ProcsAssumption DEF Init, PcOK, OneOwner, NoLeak, OnlyUploaded, Queued, Owns, Owner, Procs
<1>3. RowFollowsExt /\ AnswerIsFresh /\ WriteMovesOn /\ CreditIsFirst
  BY ProcsAssumption DEF Init, RowFollowsExt, AnswerIsFresh, WriteMovesOn, CreditIsFirst, Procs
<1>. QED  BY <1>1, <1>2, <1>3 DEF IInv

\* The goroutines move between the labels of their code.
LEMMA GotoType ==
  ASSUME TypeOK, NEW p \in Procs, NEW l \in Labels, Goto(p, l)
  PROVE  pc' \in [Procs -> Labels]
  BY DEF TypeOK, Goto

LEMMA ReturnType ==
  ASSUME TypeOK, NEW p \in Procs, Return(p)
  PROVE  /\ pc' \in [Procs -> Labels]
         /\ job' \in [Procs -> Orders \union {NoOrder}]
<1>1. Home(p) \in Labels
  BY DEF Home, Labels
<1>. QED  BY <1>1, GotoType DEF Return, TypeOK

LEMMA TypeStep == IInv /\ [Next]_vars => TypeOK'
<1>. SUFFICES ASSUME IInv, [Next]_vars PROVE TypeOK'
  OBVIOUS
<1>. Workers \subseteq Procs /\ Handlers \subseteq Procs /\ Scanner \in Procs
  BY DEF Procs
<1>. \A p \in Procs : pc[p] \notin {"idle", "scan"} => job[p] \in Orders
  BY DEF IInv, TypeOK, PcOK
<1>. USE DEF IInv, TypeOK, database, memory
<1>1. ASSUME NEW p \in Procs, LoadOrStore(p) PROVE TypeOK'
  <2>1. CASE job[p] \in inflight
    <3>1. /\ pc' \in [Procs -> Labels]
          /\ job' \in [Procs -> Orders \union {NoOrder}]
      BY <1>1, <2>1, ReturnType DEF LoadOrStore
    <3>. QED  BY <1>1, <2>1, <3>1 DEF LoadOrStore
  <2>2. CASE job[p] \notin inflight
    <3>1. "send" \in Labels
      BY DEF Labels
    <3>2. pc' \in [Procs -> Labels]
      BY <1>1, <2>2, <3>1, GotoType DEF LoadOrStore
    <3>. QED  BY <1>1, <2>2, <3>2 DEF LoadOrStore
  <2>. QED  BY <2>1, <2>2
<1>2. ASSUME NEW p \in Procs, Send(p) PROVE TypeOK'
  <2>1. CASE Len(jobs) < QueueSize
    BY <1>2, <2>1, ReturnType, QueuedAppend DEF Send
  <2>2. CASE ~(Len(jobs) < QueueSize)
    BY <1>2, <2>2, GotoType DEF Send, Labels
  <2>. QED  BY <2>1, <2>2
<1>3. ASSUME NEW p \in Procs, Undo(p) PROVE TypeOK'
  BY <1>3, ReturnType DEF Undo
<1>4. ASSUME NEW h \in Handlers, NEW o \in Orders, BeginInsert(h, o) PROVE TypeOK'
  BY <1>4, NowIsLater, GotoType DEF BeginInsert, Labels
<1>5. ASSUME NEW h \in Handlers, InsertOrder(h) \/ InsertFails(h) PROVE TypeOK'
  <2>0. /\ UNCHANGED <<ext, jobs, inflight, batch, resp, updated>>
        /\ startedAt' = [startedAt EXCEPT ![h] = 0]
        /\ Inserted(h) \/ UNCHANGED database
        /\ UNCHANGED faults \/ Fail
    BY <1>5 DEF InsertOrder, InsertFails
  <2>1. /\ status' \in [Orders -> Status \union {"ABSENT"}] /\ uploadedAt' \in [Orders -> Nat]
        /\ UNCHANGED <<accrual, credited>>
    <3>1. CASE Inserted(h)
      BY <3>1 DEF Inserted, Status, Pending
    <3>2. CASE UNCHANGED database
      BY <3>2
    <3>. QED  BY <2>0, <3>1, <3>2
  <2>4. startedAt' \in [Handlers -> Nat] /\ faults' \in 0 .. MaxFaults
    BY <2>0, BoundsAssumption DEF Fail
  <2>2. Return(h) \/ (Goto(h, "load") /\ UNCHANGED job)
    BY <1>5 DEF InsertOrder, InsertFails
  <2>3. pc' \in [Procs -> Labels] /\ job' \in [Procs -> Orders \union {NoOrder}]
    <3>1. "load" \in Labels
      BY DEF Labels
    <3>. QED  BY <2>2, <3>1, GotoType, ReturnType
  <2>. QED  BY <2>0, <2>1, <2>3, <2>4
<1>6. ASSUME SelectPending PROVE TypeOK'
  BY <1>6, GotoType DEF SelectPending, Oldest, PendingOrders, Labels
<1>7. ASSUME ScanNext PROVE TypeOK'
  <2>1. CASE batch = {}
    BY <1>7, <2>1, GotoType DEF ScanNext, Labels
  <2>2. CASE batch # {}
    BY <1>7, <2>2, GotoType DEF ScanNext, Labels
  <2>. QED  BY <2>1, <2>2
<1>8. ASSUME NEW w \in Workers, Take(w) PROVE TypeOK'
  BY <1>8, QueuedTail, GotoType DEF Take, Labels
<1>9. ASSUME NEW w \in Workers, PollOrder(w) PROVE TypeOK'
  <2>1. CASE ext[job[w]] = "UNREGISTERED"
    BY <1>9, <2>1, GotoType DEF PollOrder, Labels
  <2>2. CASE ext[job[w]] # "UNREGISTERED"
    <3>1. ext[job[w]] \in AccrualStatus
      BY <1>9, <2>2 DEF PollOrder
    <3>. QED  BY <1>9, <2>2, <3>1, GotoType DEF PollOrder, Labels
  <2>. QED  BY <2>1, <2>2
<1>10. ASSUME NEW w \in Workers, PollRateLimited(w) PROVE TypeOK'
  BY <1>10, BoundsAssumption, GotoType DEF PollRateLimited, Fail, Labels
<1>11. ASSUME NEW w \in Workers, PollOrReadFails(w) PROVE TypeOK'
  BY <1>11, BoundsAssumption, GotoType DEF PollOrReadFails, Fail, Labels
<1>12. ASSUME NEW w \in Workers, ReadOrder(w) PROVE TypeOK'
  <2>. DEFINE update == ApplyAccrualInfo(RowOf(job[w]), Answer(job[w], resp[w]))
  <2>1. update \in Row
    <3>1. resp[w] \in AccrualStatus /\ accrual[job[w]] \in Nat /\ Reward[job[w]] \in Nat
      BY <1>12, RewardAssumption DEF ReadOrder, AnswerIsFresh
    <3>2. MapAccrualStatus(resp[w]) \in Status
      BY <3>1 DEF MapAccrualStatus, AccrualStatus, AccrualFinal, Status, Pending, Final
    <3>. QED  BY <3>1, <3>2 DEF ApplyAccrualInfo, Answer, RowOf, Row
  <2>2. CASE update = RowOf(job[w])
    BY <1>12, <2>2, GotoType DEF ReadOrder, Labels
  <2>3. CASE update # RowOf(job[w])
    <3>1. Goto(w, "write") /\ updated' = [updated EXCEPT ![w] = update]
      BY <1>12, <2>3 DEF ReadOrder
    <3>. HIDE DEF update
    <3>. QED  BY <1>12, <2>1, <3>1, GotoType DEF ReadOrder, Labels
  <2>. QED  BY <2>2, <2>3
<1>. \A w \in Workers : updated[w].accrual \in Nat /\ updated[w].status \in Status \union {"ABSENT"}
  BY DEF Row, NoRow
<1>13. ASSUME NEW w \in Workers, UpdateOrderAccrual(w) PROVE TypeOK'
  <2>1. AfterWrite(w) \in Labels
    BY DEF AfterWrite, Labels
  <2>. QED  BY <1>13, <2>1, GotoType DEF UpdateOrderAccrual, Written
<1>14. ASSUME NEW w \in Workers, UpdateFails(w) PROVE TypeOK'
  <2>1. status' \in [Orders -> Status \union {"ABSENT"}] /\ accrual' \in [Orders -> Nat]
    BY <1>14 DEF UpdateFails, Written
  <2>. QED  BY <1>14, <2>1, BoundsAssumption, GotoType DEF UpdateFails, Written, Fail, Labels
<1>15. ASSUME NEW w \in Workers, CreditAccrual(w) PROVE TypeOK'
  BY <1>15, GotoType DEF CreditAccrual, Credited, Labels
<1>16. ASSUME NEW w \in Workers, CreditFails(w) PROVE TypeOK'
  <2>1. credited' \in [Orders -> Nat]
    BY <1>16 DEF CreditFails, Credited
  <2>. QED  BY <1>16, <2>1, BoundsAssumption, GotoType DEF CreditFails, Credited, Fail, Labels
<1>17. ASSUME NEW w \in Workers, Finish(w) PROVE TypeOK'
  BY <1>17, GotoType DEF Finish, Labels
<1>18. ASSUME NEW o \in Orders, ExtProgress(o) PROVE TypeOK'
  <2>1. ext' \in [Orders -> AccrualStatus \union {"UNREGISTERED"}]
    BY <1>18 DEF ExtProgress, AccrualStatus
  <2>. QED  BY <1>18, <2>1 DEF ExtProgress
<1>19. ASSUME Restart PROVE TypeOK'
  <2>1. /\ pc' \in [Procs -> Labels]
        /\ job' \in [Procs -> Orders \union {NoOrder}]
    BY <1>19 DEF Restart, Labels
  <2>2. faults' \in 0 .. MaxFaults
    BY <1>19, BoundsAssumption DEF Restart, Fail
  <2>. QED  BY <1>19, <2>1, <2>2 DEF Restart
<1>20. ASSUME UNCHANGED vars PROVE TypeOK'
  BY <1>20 DEF vars
<1>. QED
  BY <1>1, <1>2, <1>3, <1>4, <1>5, <1>6, <1>7, <1>8, <1>9, <1>10, <1>11, <1>12, <1>13,
     <1>14, <1>15, <1>16, <1>17, <1>18, <1>19, <1>20
  DEF Next, TryEnqueue, Upload, Scan, ProcessJob, WorkerFails

-----------------------------------------------------------------------------
(* Who is where: PcOK, OneOwner and NoLeak.  Between Take and Finish a       *)
(* worker keeps its job and touches neither the channel nor inflight.        *)

KeepsJob(w) ==
  /\ pc[w] \in {"poll", "read", "write", "credit", "load"}
  /\ \E l \in {"read", "write", "credit", "load", "finish"} : Goto(w, l)
  /\ UNCHANGED <<jobs, inflight, job, batch>>

\* A worker's tryEnqueue finds its order in inflight and returns.
LEMMA WorkerLoads ==
  ASSUME IInv, NEW w \in Workers, LoadOrStore(w)
  PROVE  KeepsJob(w) /\ Goto(w, "finish") /\ UNCHANGED <<database, ext, resp, updated>>
<1>1. pc[w] = "load" /\ job[w] \in Orders /\ w \in Procs
  BY DEF LoadOrStore, IInv, TypeOK, PcOK, Procs
<1>2. job[w] \in inflight
  BY <1>1 DEF IInv, NoLeak, Owner, Owns
<1>. QED  BY <1>1, <1>2 DEF LoadOrStore, Return, Home, KeepsJob

LEMMA WorkerKeepsJob ==
  ASSUME IInv, NEW w \in Workers,
         \/ PollOrder(w) \/ ReadOrder(w) \/ UpdateOrderAccrual(w) \/ CreditAccrual(w)
         \/ WorkerFails(w) \/ LoadOrStore(w)
  PROVE  KeepsJob(w)
<1>. USE DEF KeepsJob
<1>1. CASE PollOrder(w)  BY <1>1 DEF PollOrder
<1>2. CASE ReadOrder(w)  BY <1>2 DEF ReadOrder
<1>3. CASE UpdateOrderAccrual(w)  BY <1>3 DEF UpdateOrderAccrual, AfterWrite
<1>4. CASE CreditAccrual(w)  BY <1>4 DEF CreditAccrual
<1>5. CASE WorkerFails(w)
  BY <1>5 DEF WorkerFails, PollRateLimited, PollOrReadFails, UpdateFails, CreditFails
<1>6. CASE LoadOrStore(w)  BY <1>6, WorkerLoads
<1>. QED  BY <1>1, <1>2, <1>3, <1>4, <1>5, <1>6

Ownership == PcOK /\ OneOwner /\ NoLeak

\* Steps after which the same processes own the same orders.
LEMMA SameOwners ==
  ASSUME OneOwner, NoLeak, UNCHANGED <<jobs, inflight>>,
         \A q \in Procs : Owns(q)' = Owns(q) /\ (Owns(q) => job'[q] = job[q])
  PROVE  OneOwner' /\ NoLeak'
<1>1. \A o : Queued(o)' = Queued(o)
  BY DEF Queued
<1>2. \A o : Owner(o)' = Owner(o)
  BY DEF Owner
<1>3. OneOwner'
  BY <1>1 DEF OneOwner
<1>. QED  BY <1>1, <1>2, <1>3 DEF NoLeak

\* Steps by which p gives its order up and deletes its key.
LEMMA OwnerLeaves ==
  ASSUME OneOwner, NoLeak, UNCHANGED jobs, NEW p \in Procs, Owns(p),
         inflight' = inflight \ {job[p]},
         \A q \in Procs : (Owns(q)' <=> Owns(q) /\ q # p) /\ (q # p => job'[q] = job[q])
  PROVE  OneOwner' /\ NoLeak'
<1>1. \A o : Queued(o)' = Queued(o)
  BY DEF Queued
<1>2. \A o : Owner(o)' = Owner(o) \ {p}
  BY DEF Owner
<1>3. OneOwner'
  BY <1>1 DEF OneOwner
<1>4. Owner(job[p]) = {p} /\ ~Queued(job[p])
  BY DEF Owner, OneOwner
<1>5. \A o : o # job[p] => p \notin Owner(o)
  BY DEF Owner
<1>. QED  BY <1>1, <1>2, <1>3, <1>4, <1>5 DEF NoLeak

\* Steps by which p takes over an order o that nobody owned.
LEMMA OwnerArrives ==
  ASSUME OneOwner, NoLeak, NEW p \in Procs, NEW o \in Orders, ~Owns(p),
         Owner(o) = {}, job'[p] = o,
         \A q \in Procs : (Owns(q)' <=> Owns(q) \/ q = p) /\ (q # p => job'[q] = job[q]),
         \A q \in Procs : Owns(q) => job[q] \in Orders,
         \A q \in Orders : Queued(q)' <=> Queued(q) /\ q # o,
         inflight' = inflight \union {o}, Distinct'
  PROVE  OneOwner' /\ NoLeak'
<1>1. \A q : Owner(q)' = IF q = o THEN Owner(q) \union {p} ELSE Owner(q)
  BY DEF Owner
<1>2. \A q, r \in Procs : Owns(q)' /\ Owns(r)' /\ job'[q] = job'[r] => q = r
  BY DEF OneOwner, Owner
<1>3. \A q \in Procs : Owns(q)' => ~Queued(job[q])'
  BY DEF OneOwner
<1>4. OneOwner'
  BY <1>2, <1>3 DEF OneOwner, Distinct
<1>. QED  BY <1>1, <1>4 DEF NoLeak

LEMMA OwnershipStep == IInv /\ [Next]_vars => Ownership'
<1>. SUFFICES ASSUME IInv, [Next]_vars PROVE Ownership'
  OBVIOUS
<1>. Workers \subseteq Procs /\ Handlers \subseteq Procs /\ Scanner \in Procs
  BY DEF Procs
<1>. Scanner \notin Workers /\ Scanner \notin Handlers /\ Workers \intersect Handlers = {}
  BY ProcsAssumption
<1>. NoOrder \notin Orders
  BY OrdersAssumption
<1>. \A p \in Procs : p \notin Workers => p = Scanner \/ p \in Handlers
  BY DEF Procs
<1>0. \A p \in Procs : pc[p] \notin {"idle", "scan"} => job[p] \in Orders
  BY DEF IInv, TypeOK, PcOK
<1>00. \A p \in Procs : Owns(p) => job[p] \in Orders
  BY <1>0 DEF Owns, IInv, PcOK
<1>. Distinct
  BY DEF IInv, OneOwner, Distinct
<1>. USE DEF IInv, TypeOK, Ownership, Goto
<1>1. ASSUME NEW w \in Workers, KeepsJob(w) PROVE Ownership'
  <2>1. PICK l \in {"read", "write", "credit", "load", "finish"} : pc' = [pc EXCEPT ![w] = l]
    BY <1>1 DEF KeepsJob
  <2>2. UNCHANGED <<jobs, inflight, job>> /\ pc[w] \notin {"idle", "scan"}
    BY <1>1 DEF KeepsJob
  <2>3. \A p \in Procs : Owns(p)' = Owns(p)
    BY <2>1, <2>2 DEF Owns
  <2>4. PcOK'
    BY <2>1, <2>2 DEF PcOK
  <2>. QED  BY <2>2, <2>3, <2>4, SameOwners
<1>2. ASSUME NEW p \in Procs \ Workers, LoadOrStore(p) PROVE Ownership'
  <2>1. pc[p] = "load" /\ job[p] \in Orders /\ UNCHANGED jobs
    BY <1>0, <1>2 DEF LoadOrStore
  <2>2. CASE job[p] \in inflight
    <3>1. /\ pc' = [pc EXCEPT ![p] = Home(p)] /\ job' = [job EXCEPT ![p] = NoOrder]
          /\ UNCHANGED inflight
      BY <1>2, <2>2 DEF LoadOrStore, Return
    <3>2. Home(p) \in {"idle", "scan"} /\ (p \in Handlers => Home(p) = "idle")
      BY DEF Home
    <3>3. \A q \in Procs : Owns(q)' = Owns(q) /\ (Owns(q) => job'[q] = job[q])
      BY <2>1, <3>1, <3>2 DEF Owns
    <3>4. PcOK'
      BY <3>1, <3>2 DEF PcOK
    <3>. QED  BY <2>1, <3>1, <3>3, <3>4, SameOwners
  <2>3. CASE job[p] \notin inflight
    <3>1. /\ pc' = [pc EXCEPT ![p] = "send"] /\ UNCHANGED job
          /\ inflight' = inflight \union {job[p]}
      BY <1>2, <2>3 DEF LoadOrStore
    <3>2. \A q \in Procs : Owns(q)' <=> Owns(q) \/ q = p
      BY <2>1, <3>1 DEF Owns
    <3>3. ~Owns(p) /\ Owner(job[p]) = {} /\ ~Queued(job[p])
      BY <2>1, <2>3 DEF Owns, NoLeak
    <3>4. Distinct' /\ \A o \in Orders : Queued(o)' <=> Queued(o) /\ o # job[p]
      BY <2>1, <3>3 DEF Queued, Distinct
    <3>5. PcOK'
      BY <2>1, <3>1 DEF PcOK
    <3>. QED  BY <1>00, <2>1, <3>1, <3>2, <3>3, <3>4, <3>5, OwnerArrives
  <2>. QED  BY <2>2, <2>3
<1>3. ASSUME NEW p \in Procs, Send(p) PROVE Ownership'
  <2>1. p \notin Workers /\ pc[p] = "send" /\ job[p] \in Orders /\ UNCHANGED inflight
    BY <1>0, <1>3 DEF Send, PcOK
  <2>2. CASE Len(jobs) < QueueSize
    <3>1. /\ jobs' = Append(jobs, job[p]) /\ pc' = [pc EXCEPT ![p] = Home(p)]
          /\ job' = [job EXCEPT ![p] = NoOrder]
      BY <1>3, <2>1, <2>2 DEF Send, Return
    <3>2. Home(p) \in {"idle", "scan"} /\ (p \in Handlers => Home(p) = "idle")
      BY <2>1 DEF Home
    <3>3. Owns(p) /\ ~Queued(job[p])
      BY <2>1 DEF Owns, OneOwner
    <3>4. Distinct' /\ \A o \in Orders : Queued(o)' <=> Queued(o) \/ o = job[p]
      BY <2>1, <3>1, <3>3, QueuedAppend
    <3>5. \A q \in Procs : (Owns(q)' <=> Owns(q) /\ q # p) /\ (q # p => job'[q] = job[q])
      BY <2>1, <3>1, <3>2 DEF Owns
    <3>6. PcOK'
      BY <2>1, <3>1, <3>2 DEF PcOK
    <3>7. OneOwner'
      BY <1>00, <3>3, <3>4, <3>5 DEF OneOwner, Distinct
    <3>8. job[p] \in inflight
      BY <2>1, <3>3 DEF NoLeak, Owner
    <3>9. ASSUME NEW o \in Orders PROVE o \in inflight' <=> Queued(o)' \/ Owner(o)' # {}
      <4>1. CASE o = job[p]
        BY <2>1, <3>4, <3>8, <4>1
      <4>2. CASE o # job[p]
        <5>1. Queued(o)' <=> Queued(o)
          BY <3>4, <4>2
        <5>2. \A q \in Procs : (Owns(q)' /\ job'[q] = o) <=> (Owns(q) /\ job[q] = o)
          BY <3>1, <3>5, <4>2
        <5>3. Owner(o)' = Owner(o)
          BY <5>2 DEF Owner
        <5>. QED  BY <2>1, <5>1, <5>3 DEF NoLeak
      <4>. QED  BY <4>1, <4>2
    <3>10. NoLeak'
      BY <3>9 DEF NoLeak
    <3>. QED  BY <3>6, <3>7, <3>10
  <2>3. CASE ~(Len(jobs) < QueueSize)
    <3>1. pc' = [pc EXCEPT ![p] = "undo"] /\ UNCHANGED <<jobs, job>>
      BY <1>3, <2>3 DEF Send
    <3>2. \A q \in Procs : Owns(q)' = Owns(q)
      BY <2>1, <3>1 DEF Owns
    <3>3. PcOK'
      BY <2>1, <3>1 DEF PcOK
    <3>. QED  BY <2>1, <3>1, <3>2, <3>3, SameOwners
  <2>. QED  BY <2>2, <2>3
<1>4. ASSUME NEW p \in Procs, Undo(p) PROVE Ownership'
  <2>1. p \notin Workers /\ pc[p] = "undo" /\ job[p] \in Orders /\ Owns(p)
    BY <1>0, <1>4 DEF Undo, PcOK, Owns
  <2>2. Home(p) \in {"idle", "scan"} /\ (p \in Handlers => Home(p) = "idle")
    BY <2>1 DEF Home
  <2>3. /\ pc' = [pc EXCEPT ![p] = Home(p)] /\ job' = [job EXCEPT ![p] = NoOrder]
        /\ inflight' = inflight \ {job[p]} /\ UNCHANGED jobs
    BY <1>4, <2>1 DEF Undo, Return
  <2>4. \A q \in Procs : (Owns(q)' <=> Owns(q) /\ q # p) /\ (q # p => job'[q] = job[q])
    BY <2>1, <2>2, <2>3 DEF Owns
  <2>5. PcOK'
    BY <2>1, <2>2, <2>3 DEF PcOK
  <2>. QED  BY <2>1, <2>3, <2>4, <2>5, OwnerLeaves
<1>5. ASSUME NEW h \in Handlers, Upload(h) PROVE Ownership'
  <2>1. /\ pc[h] \in {"idle", "insert"} /\ UNCHANGED <<jobs, inflight>>
        /\ \/ \E o \in Orders : pc' = [pc EXCEPT ![h] = "insert"] /\ job' = [job EXCEPT ![h] = o]
           \/ pc' = [pc EXCEPT ![h] = "load"] /\ job' = [job EXCEPT ![h] = job[h]] /\ job[h] \in Orders
           \/ pc' = [pc EXCEPT ![h] = "idle"] /\ job' = [job EXCEPT ![h] = NoOrder]
    BY <1>0, <1>5 DEF Upload, BeginInsert, InsertOrder, InsertFails, Return, Home
  <2>2. \A q \in Procs : Owns(q)' = Owns(q) /\ (Owns(q) => job'[q] = job[q])
    BY <2>1 DEF Owns
  <2>3. /\ \A q \in Procs \ {h} : pc'[q] = pc[q] /\ job'[q] = job[q]
        /\ pc'[h] \in {"idle", "insert", "load"}
        /\ job'[h] = NoOrder <=> pc'[h] = "idle"
    BY <2>1
  <2>4. PcOK'
    BY <2>3 DEF PcOK
  <2>. QED  BY <2>1, <2>2, <2>4, SameOwners
<1>6. ASSUME UNCHANGED <<jobs, inflight, pc, job>> PROVE Ownership'
  <2>1. \A q \in Procs : Owns(q)' = Owns(q)
    BY <1>6 DEF Owns
  <2>. QED  BY <1>6, <2>1, SameOwners DEF PcOK
<1>7. ASSUME SelectPending PROVE Ownership'
  <2>1. /\ pc[Scanner] = "idle" /\ pc' = [pc EXCEPT ![Scanner] = "scan"]
        /\ UNCHANGED <<jobs, inflight, job>>
    BY <1>7 DEF SelectPending
  <2>2. \A q \in Procs : Owns(q)' = Owns(q)
    BY <2>1 DEF Owns
  <2>3. PcOK'
    BY <2>1 DEF PcOK
  <2>. QED  BY <2>1, <2>2, <2>3, SameOwners
<1>8. ASSUME ScanNext PROVE Ownership'
  <2>1. pc[Scanner] = "scan" /\ UNCHANGED <<jobs, inflight>>
    BY <1>8 DEF ScanNext
  <2>2. CASE batch = {}
    <3>1. pc' = [pc EXCEPT ![Scanner] = "idle"] /\ UNCHANGED job
      BY <1>8, <2>2 DEF ScanNext
    <3>2. \A q \in Procs : Owns(q)' = Owns(q)
      BY <2>1, <3>1 DEF Owns
    <3>3. PcOK'
      BY <2>1, <3>1 DEF PcOK
    <3>. QED  BY <2>1, <3>1, <3>2, <3>3, SameOwners
  <2>3. CASE batch # {}
    <3>1. PICK o \in Orders :
            pc' = [pc EXCEPT ![Scanner] = "load"] /\ job' = [job EXCEPT ![Scanner] = o]
      BY <1>8, <2>3 DEF ScanNext
    <3>2. \A q \in Procs : Owns(q)' = Owns(q) /\ (Owns(q) => job'[q] = job[q])
      BY <2>1, <3>1 DEF Owns
    <3>3. PcOK'
      BY <2>1, <3>1 DEF PcOK
    <3>. QED  BY <2>1, <3>2, <3>3, SameOwners
  <2>. QED  BY <2>2, <2>3
<1>9. ASSUME NEW w \in Workers, Take(w) PROVE Ownership'
  <2>1. /\ pc[w] = "idle" /\ pc' = [pc EXCEPT ![w] = "poll"] /\ jobs # << >>
        /\ job' = [job EXCEPT ![w] = Head(jobs)] /\ jobs' = Tail(jobs)
        /\ UNCHANGED inflight
    BY <1>9 DEF Take
  <2>2. /\ Head(jobs) \in Orders /\ Queued(Head(jobs)) /\ Distinct'
        /\ \A o \in Orders : Queued(o)' <=> Queued(o) /\ o # Head(jobs)
    BY <2>1, QueuedTail
  <2>3. inflight' = inflight \union {Head(jobs)} /\ Owner(Head(jobs)) = {}
    BY <2>1, <2>2 DEF NoLeak, OneOwner, Owner
  <2>4. ~Owns(w) /\ \A q \in Procs : (Owns(q)' <=> Owns(q) \/ q = w) /\ (q # w => job'[q] = job[q])
    BY <2>1 DEF Owns
  <2>5. job'[w] = Head(jobs)
    BY <2>1
  <2>6. PcOK'
    BY <2>1, <2>2 DEF PcOK
  <2>7. OneOwner' /\ NoLeak'
    BY <1>00, <2>2, <2>3, <2>4, <2>5, OwnerArrives
  <2>. QED  BY <2>6, <2>7
<1>10. ASSUME NEW w \in Workers, Finish(w) PROVE Ownership'
  <2>1. /\ pc[w] = "finish" /\ pc' = [pc EXCEPT ![w] = "idle"]
        /\ job' = [job EXCEPT ![w] = NoOrder] /\ inflight' = inflight \ {job[w]}
        /\ UNCHANGED jobs
    BY <1>10 DEF Finish
  <2>2. Owns(w) /\ \A q \in Procs : (Owns(q)' <=> Owns(q) /\ q # w) /\ (q # w => job'[q] = job[q])
    BY <2>1 DEF Owns
  <2>3. PcOK'
    BY <2>1 DEF PcOK
  <2>. QED  BY <2>1, <2>2, <2>3, OwnerLeaves
<1>11. ASSUME Restart PROVE Ownership'
  <2>1. \A p \in Procs : pc'[p] = "idle" /\ job'[p] = NoOrder
    BY <1>11 DEF Restart
  <2>2. jobs' = << >> /\ inflight' = {}
    BY <1>11 DEF Restart
  <2>3. \A p \in Procs : ~Owns(p)'
    BY <2>1 DEF Owns
  <2>4. \A o : ~Queued(o)' /\ Owner(o)' = {}
    BY <2>2, <2>3 DEF Queued, Owner
  <2>5. PcOK'
    BY <2>1 DEF PcOK
  <2>6. OneOwner'
    BY <2>2, <2>3 DEF OneOwner
  <2>. QED  BY <2>2, <2>4, <2>5, <2>6 DEF NoLeak
<1>. QED
  <2>1. ASSUME NEW p \in Procs, TryEnqueue(p) PROVE Ownership'
    BY <1>1, <1>2, <1>3, <1>4, <2>1, WorkerKeepsJob DEF TryEnqueue
  <2>2. ASSUME NEW w \in Workers, ProcessJob(w) \/ WorkerFails(w) PROVE Ownership'
    BY <1>1, <1>9, <1>10, <2>2, WorkerKeepsJob DEF ProcessJob
  <2>4. ASSUME NEW o \in Orders, ExtProgress(o) PROVE Ownership'
    BY <1>6, <2>4 DEF ExtProgress, memory
  <2>5. ASSUME UNCHANGED vars PROVE Ownership'
    BY <1>6, <2>5 DEF vars, memory
  <2>. HIDE DEF Ownership
  <2>. QED  BY <1>5, <1>7, <1>8, <1>11, <2>1, <2>2, <2>4, <2>5 DEF Next, Scan

-----------------------------------------------------------------------------
(* What the rows and the answers under way say.                              *)

\* What a worker holds between its poll and its last write is about an order
\* with a row.
LEMMA WorkersJob ==
  ASSUME IInv, NEW w \in Workers, pc[w] # "idle"
  PROVE  job[w] \in Orders /\ status[job[w]] \in Status /\ w \in Procs
<1>1. w \in Procs /\ pc[w] \notin {"idle", "scan"}
  BY DEF IInv, PcOK, Procs
<1>2. job[w] \in Orders
  BY <1>1 DEF IInv, TypeOK, PcOK
<1>3. status[job[w]] # "ABSENT"
  BY <1>1, <1>2, OrdersAssumption DEF IInv, PcOK, OnlyUploaded
<1>. QED  BY <1>1, <1>2, <1>3 DEF IInv, TypeOK

\* No step removes a row.
LEMMA RowsStay ==
  ASSUME IInv, [Next]_vars, NEW o \in Orders, status[o] # "ABSENT"
  PROVE  status'[o] # "ABSENT"
<1>. USE DEF IInv, TypeOK, database, memory
<1>1. ASSUME NEW w \in Workers, pc[w] = "write" PROVE updated[w].status # "ABSENT"
  <2>1. resp[w] \in AccrualStatus /\ updated[w].status = MapAccrualStatus(resp[w])
    BY <1>1 DEF AnswerIsFresh, WriteMovesOn
  <2>. QED  BY <2>1 DEF MapAccrualStatus, AccrualStatus, AccrualFinal
<1>2. ASSUME NEW w \in Workers, ProcessJob(w) \/ WorkerFails(w) PROVE status'[o] # "ABSENT"
  BY <1>1, <1>2 DEF ProcessJob, WorkerFails, Take, PollOrder, ReadOrder, UpdateOrderAccrual,
     CreditAccrual, Finish, PollRateLimited, PollOrReadFails, UpdateFails, CreditFails,
     Written, Credited
<1>3. ASSUME NEW h \in Handlers, Upload(h) PROVE status'[o] # "ABSENT"
  BY <1>3 DEF Upload, BeginInsert, InsertOrder, InsertFails, Inserted
<1>4. ASSUME NEW p \in Procs, TryEnqueue(p) PROVE status'[o] # "ABSENT"
  BY <1>4 DEF TryEnqueue, LoadOrStore, Send, Undo
<1>5. CASE Scan
  BY <1>5 DEF Scan, SelectPending, ScanNext
<1>6. ASSUME NEW q \in Orders, ExtProgress(q) PROVE status'[o] # "ABSENT"
  BY <1>6 DEF ExtProgress
<1>7. CASE Restart
  BY <1>7 DEF Restart
<1>8. CASE UNCHANGED vars
  BY <1>8 DEF vars
<1>. QED  BY <1>2, <1>3, <1>4, <1>5, <1>6, <1>7, <1>8 DEF Next

HasRow(o) == o \in Orders /\ status[o] # "ABSENT"

\* Other than a handler at "insert", p takes a step.
Moves(p) == pc[p] # "insert" /\ \E l \in Labels : pc' = [pc EXCEPT ![p] = l]

LEMMA OnlyUploadedStep == IInv /\ [Next]_vars => OnlyUploaded'
<1>. SUFFICES ASSUME IInv, [Next]_vars PROVE OnlyUploaded'
  OBVIOUS
<1>. Workers \subseteq Procs /\ Handlers \subseteq Procs /\ Scanner \in Procs
  BY DEF Procs
<1>. /\ pc \in [Procs -> Labels] /\ job \in [Procs -> Orders \union {NoOrder}]
     /\ jobs \in Seq(Orders) /\ batch \subseteq Orders
  BY DEF IInv, TypeOK
<1>. NoOrder \notin Orders
  BY OrdersAssumption
<1>. DEFINE Good(o, l) == o # NoOrder /\ l # "insert" => HasRow(o)
<1>0. /\ \A o : HasRow(o) => HasRow(o)'
      /\ \A p \in Procs : Good(job[p], pc[p])
      /\ \A i \in 1 .. Len(jobs) : HasRow(jobs[i])
      /\ \A o \in batch : HasRow(o)
  BY RowsStay DEF IInv, OnlyUploaded, HasRow
<1>1. ASSUME \A p \in Procs : Good(job'[p], pc'[p]),
             \A i \in 1 .. Len(jobs') : HasRow(jobs'[i]), \A o \in batch' : HasRow(o)
      PROVE  OnlyUploaded'
  BY <1>0, <1>1 DEF OnlyUploaded, HasRow
<1>2. ASSUME NEW p \in Procs, Moves(p), HasRow(job'[p]) \/ job'[p] \in {job[p], NoOrder},
             \A q \in Procs \ {p} : job'[q] = job[q]
      PROVE  \A q \in Procs : Good(job'[q], pc'[q])
  BY <1>0, <1>2 DEF Moves
<1>. HIDE DEF Good
<1>3. ASSUME NEW p \in Procs, TryEnqueue(p) PROVE OnlyUploaded'
  <2>1. /\ UNCHANGED batch
        /\ job' = job \/ job' = [job EXCEPT ![p] = NoOrder]
        /\ jobs' = jobs \/ (jobs' = Append(jobs, job[p]) /\ pc[p] = "send")
        /\ Moves(p)
    BY <1>3 DEF TryEnqueue, LoadOrStore, Send, Undo, Return, Goto, Home, Labels, Moves
  <2>2. \A q \in Procs : Good(job'[q], pc'[q])
    BY <1>2, <2>1
  <2>3. CASE jobs' = jobs
    BY <1>0, <1>1, <2>1, <2>2, <2>3
  <2>4. CASE jobs' = Append(jobs, job[p]) /\ pc[p] = "send"
    <3>1. job[p] \in Orders /\ HasRow(job[p])
      BY <1>0, <2>4 DEF IInv, PcOK, Good
    <3>2. \A i \in 1 .. Len(jobs') : jobs'[i] = job[p] \/ \E j \in 1 .. Len(jobs) : jobs'[i] = jobs[j]
      BY <2>4, <3>1, QueuedAppend
    <3>3. \A i \in 1 .. Len(jobs') : HasRow(jobs'[i])
      BY <1>0, <3>1, <3>2
    <3>. QED  BY <1>0, <1>1, <2>1, <2>2, <3>3
  <2>. QED  BY <2>1, <2>3, <2>4
<1>4. ASSUME NEW h \in Handlers, Upload(h) PROVE OnlyUploaded'
  <2>1. /\ UNCHANGED <<jobs, batch>>
        /\ \/ \E o \in Orders : job' = [job EXCEPT ![h] = o] /\ pc' = [pc EXCEPT ![h] = "insert"]
           \/ /\ UNCHANGED job /\ pc' = [pc EXCEPT ![h] = "load"]
              /\ job[h] \in Orders /\ status'[job[h]] = "NEW"
           \/ job' = [job EXCEPT ![h] = NoOrder] /\ pc' = [pc EXCEPT ![h] = "idle"]
    <3>1. h \notin Workers /\ h # Scanner
      BY ProcsAssumption
    <3>2. status \in [Orders -> Status \union {"ABSENT"}] /\ (pc[h] = "insert" => job[h] \in Orders)
      BY DEF IInv, TypeOK, PcOK
    <3>. QED
      BY <1>4, <3>1, <3>2
      DEF Upload, BeginInsert, InsertOrder, InsertFails, Inserted, Return, Home, Goto
  <2>2. \A p \in Procs \ {h} : job'[p] = job[p] /\ pc'[p] = pc[p]
    BY <2>1
  <2>3. job'[h] = NoOrder \/ pc'[h] = "insert" \/ status'[job'[h]] # "ABSENT"
    BY <2>1
  <2>4. \A p \in Procs : job'[p] # NoOrder /\ pc'[p] # "insert" => status'[job'[p]] # "ABSENT"
    BY <1>0, <2>2, <2>3 DEF HasRow, Good
  <2>. QED  BY <1>0, <2>1, <2>4 DEF OnlyUploaded, HasRow
<1>5. ASSUME SelectPending PROVE OnlyUploaded'
  <2>1. UNCHANGED <<jobs, job>> /\ (\A o \in batch' : HasRow(o)) /\ Moves(Scanner)
    BY <1>5 DEF SelectPending, Oldest, PendingOrders, Pending, HasRow, Moves, Goto, Labels
  <2>. QED  BY <1>0, <1>1, <1>2, <2>1
<1>6. ASSUME ScanNext PROVE OnlyUploaded'
  <2>1. UNCHANGED jobs /\ batch' \subseteq batch /\ Moves(Scanner)
    BY <1>6 DEF ScanNext, Moves, Goto, Labels
  <2>2. job' = job \/ \E o \in batch : job' = [job EXCEPT ![Scanner] = o]
    BY <1>6 DEF ScanNext
  <2>3. \A q \in Procs : Good(job'[q], pc'[q])
    BY <1>0, <1>2, <2>1, <2>2
  <2>. QED  BY <1>0, <1>1, <2>1, <2>3
<1>7. ASSUME NEW w \in Workers, Take(w) PROVE OnlyUploaded'
  <2>1. /\ jobs # << >> /\ jobs' = Tail(jobs) /\ UNCHANGED batch
        /\ job' = [job EXCEPT ![w] = Head(jobs)] /\ Moves(w)
    BY <1>7 DEF Take, Moves, Goto, Labels
  <2>2. /\ HasRow(Head(jobs))
        /\ \A i \in 1 .. Len(jobs') : \E j \in 1 .. Len(jobs) : jobs'[i] = jobs[j]
    BY <1>0, <2>1, QueuedTail DEF Queued
  <2>3. \A i \in 1 .. Len(jobs') : HasRow(jobs'[i])
    BY <1>0, <2>2
  <2>4. \A q \in Procs : Good(job'[q], pc'[q])
    BY <1>2, <2>1, <2>2
  <2>. QED  BY <1>0, <1>1, <2>1, <2>3, <2>4
<1>8. ASSUME NEW w \in Workers, KeepsJob(w) \/ Finish(w) PROVE OnlyUploaded'
  <2>1. /\ UNCHANGED <<jobs, batch>> /\ Moves(w)
        /\ job' = job \/ job' = [job EXCEPT ![w] = NoOrder]
    BY <1>8 DEF KeepsJob, Finish, Moves, Goto, Labels
  <2>2. \A q \in Procs : Good(job'[q], pc'[q])
    BY <1>2, <2>1
  <2>. QED  BY <1>0, <1>1, <2>1, <2>2
<1>9. ASSUME UNCHANGED <<jobs, job, batch, pc>> PROVE OnlyUploaded'
  BY <1>0, <1>1, <1>9
<1>10. ASSUME Restart PROVE OnlyUploaded'
  BY <1>10 DEF Restart, OnlyUploaded
<1>. QED
  <2>1. ASSUME NEW w \in Workers, ProcessJob(w) \/ WorkerFails(w) PROVE OnlyUploaded'
    BY <1>7, <1>8, <2>1, WorkerKeepsJob DEF ProcessJob
  <2>2. ASSUME NEW o \in Orders, ExtProgress(o) PROVE OnlyUploaded'
    BY <1>9, <2>2 DEF ExtProgress, memory
  <2>3. ASSUME UNCHANGED vars PROVE OnlyUploaded'
    BY <1>9, <2>3 DEF vars, memory
  <2>. QED  BY <1>3, <1>4, <1>5, <1>6, <1>10, <2>1, <2>2, <2>3 DEF Next, Scan

Answers == RowFollowsExt /\ AnswerIsFresh /\ WriteMovesOn /\ CreditIsFirst

\* Steps that touch neither a row nor an answer of a worker that still has one.
LEMMA AnswersFrame ==
  ASSUME IInv, UNCHANGED <<database, ext>>,
         \A w \in Workers : pc'[w] \in {"read", "write", "credit"} =>
           pc'[w] = pc[w] /\ job'[w] = job[w] /\ resp'[w] = resp[w] /\ updated'[w] = updated[w]
  PROVE  Answers'
<1>. USE DEF IInv, database
<1>1. RowFollowsExt'
  BY DEF RowFollowsExt
<1>2. AnswerIsFresh'
  BY DEF AnswerIsFresh
<1>3. WriteMovesOn'
  BY DEF WriteMovesOn
<1>4. CreditIsFirst'
  BY DEF CreditIsFirst
<1>. QED  BY <1>1, <1>2, <1>3, <1>4 DEF Answers

\* A worker that holds an order is the only one that does.
LEMMA OnlyHolder ==
  ASSUME IInv, NEW w \in Workers, NEW v \in Workers,
         pc[w] # "idle", pc[v] # "idle", job[w] = job[v]
  PROVE  w = v
  BY DEF IInv, OneOwner, Owns, Procs

\* The statement of UpdateOrderAccrual, when it takes effect, stores what the
\* accrual system says about a pending order.
LEMMA WrittenVerdict ==
  ASSUME IInv, NEW w \in Workers, pc[w] = "write"
  PROVE  LET o == job[w]  s == updated[w].status  a == updated[w].accrual
         IN  /\ o \in Orders /\ status[o] \in Pending /\ credited[o] = 0 /\ accrual[o] = 0
             /\ s = "PROCESSING" \/ s \in Final
             /\ s # status[o]
             /\ ext[o] # "UNREGISTERED"
             /\ s \in Final => ext[o] = s
             /\ a = IF s = "PROCESSED" THEN Reward[o] ELSE 0
<1>1. job[w] \in Orders /\ status[job[w]] \in Status
  BY WorkersJob
<1>2. /\ status[job[w]] \in Pending /\ resp[w] \in AccrualStatus
      /\ updated[w].status = MapAccrualStatus(resp[w]) /\ updated[w].status # status[job[w]]
      /\ updated[w].accrual = IF resp[w] = "PROCESSED" THEN Reward[job[w]] ELSE 0
      /\ ext[job[w]] # "UNREGISTERED" /\ (resp[w] \in AccrualFinal => ext[job[w]] = resp[w])
  BY DEF IInv, WriteMovesOn, AnswerIsFresh
<1>3. credited[job[w]] = 0 /\ accrual[job[w]] = 0
  BY <1>1, <1>2 DEF IInv, RowFollowsExt, Pending
<1>. QED
  BY <1>1, <1>2, <1>3 DEF MapAccrualStatus, AccrualStatus, AccrualFinal, Final, Pending

\* What ApplyAccrualInfo makes of the row when the answer has been read.
LEMMA ReadVerdict ==
  ASSUME IInv, NEW w \in Workers, pc[w] = "read",
         NEW u, u = ApplyAccrualInfo(RowOf(job[w]), Answer(job[w], resp[w])),
         u # RowOf(job[w])
  PROVE  /\ status[job[w]] \in Pending
         /\ u.status = MapAccrualStatus(resp[w])
         /\ u.status # status[job[w]]
         /\ u.accrual = IF resp[w] = "PROCESSED" THEN Reward[job[w]] ELSE 0
<1>1. job[w] \in Orders /\ status[job[w]] \in Status
  BY WorkersJob
<1>2. /\ resp[w] \in AccrualStatus
      /\ status[job[w]] \in Final => resp[w] = status[job[w]]
  BY DEF IInv, AnswerIsFresh
<1>3. Reward[job[w]] \in Nat /\ accrual[job[w]] \in Nat
  BY <1>1, RewardAssumption DEF IInv, TypeOK
<1>4. /\ u.status = MapAccrualStatus(resp[w])
      /\ u.accrual = IF resp[w] = "PROCESSED" /\ Reward[job[w]] > 0
                     THEN Reward[job[w]] ELSE accrual[job[w]]
  BY DEF ApplyAccrualInfo, Answer, RowOf
<1>5. u = [status |-> u.status, accrual |-> u.accrual]
  BY DEF ApplyAccrualInfo
<1>6. u.status # status[job[w]] \/ u.accrual # accrual[job[w]]
  BY <1>5 DEF RowOf
<1>7. /\ status[job[w]] = "PROCESSED" => accrual[job[w]] = Reward[job[w]]
      /\ status[job[w]] # "PROCESSED" => accrual[job[w]] = 0
  BY <1>1 DEF IInv, RowFollowsExt
<1>. QED
  BY <1>1, <1>2, <1>3, <1>4, <1>6, <1>7
  DEF MapAccrualStatus, AccrualStatus, AccrualFinal, Status, Final, Pending

\* The order of an open INSERT, and what its commit does to table orders.
LEMMA InsertedRow ==
  ASSUME IInv, NEW h \in Handlers, pc[h] = "insert"
  PROVE  /\ job[h] \in Orders
         /\ Inserted(h) =>
              /\ status[job[h]] = "ABSENT"
              /\ status' = [status EXCEPT ![job[h]] = "NEW"]
              /\ uploadedAt' = [uploadedAt EXCEPT ![job[h]] = startedAt[h]]
              /\ UNCHANGED <<accrual, credited>>
<1>1. h \in Procs
  BY DEF Procs
<1>. QED  BY <1>1 DEF IInv, TypeOK, PcOK, Inserted

LEMMA InsertedAnswers ==
  ASSUME IInv, NEW h \in Handlers, pc[h] = "insert", Inserted(h), UNCHANGED <<ext, resp, updated>>,
         \A w \in Workers : pc'[w] = pc[w] /\ job'[w] = job[w]
  PROVE  Answers'
<1>. DEFINE o == job[h]
<1>1. /\ o \in Orders
      /\ status[o] = "ABSENT" /\ status' = [status EXCEPT ![o] = "NEW"]
      /\ UNCHANGED <<accrual, credited>>
  BY InsertedRow
<1>. HIDE DEF o
<1>2. \A w \in Workers : pc[w] \in {"read", "write", "credit"} => job[w] # o /\ job[w] \in Orders
  BY <1>1, WorkersJob DEF Status, Pending, Final
<1>3. RowFollowsExt'
  BY <1>1 DEF IInv, TypeOK, RowFollowsExt
<1>4. \A w \in Workers : pc'[w] \in {"read", "write", "credit"} =>
        /\ pc'[w] = pc[w] /\ job'[w] = job[w]
        /\ status'[job[w]] = status[job[w]] /\ credited'[job[w]] = credited[job[w]]
  BY <1>1, <1>2 DEF IInv, TypeOK
<1>5. AnswerIsFresh'
  BY <1>4 DEF IInv, AnswerIsFresh
<1>6. WriteMovesOn'
  BY <1>4 DEF IInv, WriteMovesOn
<1>7. CreditIsFirst'
  BY <1>4 DEF IInv, CreditIsFirst
<1>. QED  BY <1>3, <1>5, <1>6, <1>7 DEF Answers

LEMMA WrittenAnswers ==
  ASSUME IInv, NEW w \in Workers, pc[w] = "write", Written(w),
         NEW l \in {AfterWrite(w), "finish"}, Goto(w, l),
         UNCHANGED <<ext, job, resp, updated>>
  PROVE  Answers'
<1>. DEFINE o == job[w]  s == updated[w].status  a == updated[w].accrual
<1>1. /\ o \in Orders /\ status[o] \in Pending /\ credited[o] = 0 /\ accrual[o] = 0
      /\ s = "PROCESSING" \/ s \in Final
      /\ s # status[o]
      /\ ext[o] # "UNREGISTERED"
      /\ s \in Final => ext[o] = s
      /\ a = IF s = "PROCESSED" THEN Reward[o] ELSE 0
  BY WrittenVerdict
<1>2. /\ status' = [status EXCEPT ![o] = s] /\ accrual' = [accrual EXCEPT ![o] = a]
      /\ UNCHANGED credited
  BY DEF Written
<1>3. pc' = [pc EXCEPT ![w] = l] /\ w \in Procs
  BY DEF Goto, Procs
<1>4. l \in {"credit", "load", "finish"} /\ (l = "credit" => s = "PROCESSED")
  BY DEF AfterWrite
<1>5. \A v \in Workers : pc[v] \in {"read", "write", "credit"} /\ v # w => job[v] # o /\ job[v] \in Orders
  BY OnlyHolder, WorkersJob
<1>6. \A v \in Workers : pc'[v] \in {"read", "write", "credit"} =>
        (v = w /\ l = "credit") \/ (v # w /\ pc'[v] = pc[v])
  BY <1>3, <1>4 DEF IInv, TypeOK
<1>. HIDE DEF o, s, a
<1>. USE DEF IInv, TypeOK
<1>7. RowFollowsExt'
  BY <1>1, <1>2 DEF RowFollowsExt, Final, Pending
<1>8. \A v \in Workers : pc'[v] \in {"read", "write"} =>
        pc[v] = pc'[v] /\ job'[v] = job[v] /\ status'[job[v]] = status[job[v]]
  <2>. SUFFICES ASSUME NEW v \in Workers, pc'[v] \in {"read", "write"}
                PROVE  pc[v] = pc'[v] /\ job'[v] = job[v] /\ status'[job[v]] = status[job[v]]
    OBVIOUS
  <2>1. v # w /\ pc'[v] = pc[v]
    BY <1>3, <1>6
  <2>. QED  BY <1>2, <1>5, <2>1
<1>9. AnswerIsFresh' /\ WriteMovesOn'
  <2>1. ASSUME NEW v \in Workers, pc'[v] \in {"read", "write"}
        PROVE  /\ pc[v] \in {"read", "write"} /\ job'[v] = job[v] /\ status'[job[v]] = status[job[v]]
               /\ resp' = resp /\ ext' = ext
    BY <1>8, <2>1
  <2>2. ASSUME NEW v \in Workers, pc'[v] = "write"
        PROVE  /\ pc[v] = "write" /\ job'[v] = job[v] /\ status'[job[v]] = status[job[v]]
               /\ resp' = resp /\ updated' = updated
    BY <1>8, <2>2
  <2>3. AnswerIsFresh'
    <3>. SUFFICES ASSUME NEW v \in Workers, pc'[v] \in {"read", "write"}
                  PROVE  /\ resp'[v] \in AccrualStatus
                         /\ ext'[job'[v]] # "UNREGISTERED"
                         /\ resp'[v] \in AccrualFinal => ext'[job'[v]] = resp'[v]
                         /\ status'[job'[v]] \in Final => resp'[v] = status'[job'[v]]
      BY DEF AnswerIsFresh
    <3>1. /\ resp[v] \in AccrualStatus
          /\ ext[job[v]] # "UNREGISTERED"
          /\ resp[v] \in AccrualFinal => ext[job[v]] = resp[v]
          /\ status[job[v]] \in Final => resp[v] = status[job[v]]
      BY <2>1 DEF AnswerIsFresh
    <3>. QED  BY <2>1, <3>1
  <2>4. WriteMovesOn'
    <3>. SUFFICES ASSUME NEW v \in Workers, pc'[v] = "write"
                  PROVE  /\ status'[job'[v]] \in Pending
                         /\ updated'[v].status = MapAccrualStatus(resp'[v])
                         /\ updated'[v].status # status'[job'[v]]
                         /\ updated'[v].accrual =
                              IF resp'[v] = "PROCESSED" THEN Reward[job'[v]] ELSE 0
      BY DEF WriteMovesOn
    <3>1. /\ status[job[v]] \in Pending
          /\ updated[v].status = MapAccrualStatus(resp[v])
          /\ updated[v].status # status[job[v]]
          /\ updated[v].accrual = IF resp[v] = "PROCESSED" THEN Reward[job[v]] ELSE 0
      BY <2>2 DEF WriteMovesOn
    <3>. QED  BY <2>2, <3>1
  <2>. QED  BY <2>3, <2>4
<1>10. CreditIsFirst'
  <2>. SUFFICES ASSUME NEW v \in Workers, pc'[v] = "credit"
                PROVE  /\ status'[job'[v]] = "PROCESSED"
                       /\ credited'[job'[v]] = 0
                       /\ updated'[v].accrual = Reward[job'[v]]
    BY DEF CreditIsFirst
  <2>1. CASE v = w
    BY <1>1, <1>2, <1>4, <1>6, <2>1 DEF o, s, a
  <2>2. CASE v # w
    BY <1>2, <1>5, <1>6, <2>2 DEF CreditIsFirst
  <2>. QED  BY <2>1, <2>2
<1>. QED  BY <1>7, <1>8, <1>9, <1>10 DEF Answers

LEMMA CreditedAnswers ==
  ASSUME IInv, NEW w \in Workers, pc[w] = "credit", Credited(w), Goto(w, "finish"),
         UNCHANGED <<ext, job, resp, updated>>
  PROVE  Answers'
<1>1. /\ job[w] \in Orders /\ status[job[w]] = "PROCESSED" /\ credited[job[w]] = 0
      /\ updated[w].accrual = Reward[job[w]]
  BY WorkersJob DEF IInv, CreditIsFirst
<1>2. credited' = [credited EXCEPT ![job[w]] = Reward[job[w]]] /\ UNCHANGED <<status, accrual>>
  BY <1>1 DEF Credited
<1>3. pc' = [pc EXCEPT ![w] = "finish"] /\ w \in Procs
  BY DEF Goto, Procs
<1>4. \A v \in Workers : pc'[v] \in {"read", "write", "credit"} =>
        v # w /\ pc'[v] = pc[v] /\ job[v] # job[w] /\ job[v] \in Orders
  <2>. SUFFICES ASSUME NEW v \in Workers, pc'[v] \in {"read", "write", "credit"}
                PROVE  v # w /\ pc'[v] = pc[v] /\ job[v] # job[w] /\ job[v] \in Orders
    OBVIOUS
  <2>1. pc \in [Procs -> Labels] /\ v \in Procs
    BY DEF IInv, TypeOK, Procs
  <2>2. v # w /\ pc'[v] = pc[v]
    BY <1>3, <2>1
  <2>3. pc[v] # "idle" /\ pc[w] # "idle"
    BY <2>2
  <2>. QED  BY <2>2, <2>3, OnlyHolder, WorkersJob
<1>5. RowFollowsExt'
  <2>. SUFFICES ASSUME NEW o \in Orders
                PROVE  /\ status'[o] = "PROCESSING" => ext[o] # "UNREGISTERED"
                       /\ status'[o] = "INVALID"    => ext[o] = "INVALID"
                       /\ status'[o] = "PROCESSED"  => ext[o] = "PROCESSED" /\ accrual'[o] = Reward[o]
                       /\ status'[o] # "PROCESSED"  => accrual'[o] = 0 /\ credited'[o] = 0
                       /\ credited'[o] \in {0, Reward[o]}
    BY DEF RowFollowsExt
  <2>1. CASE o = job[w]
    BY <1>1, <1>2, <2>1 DEF IInv, TypeOK, RowFollowsExt
  <2>2. CASE o # job[w]
    BY <1>1, <1>2, <2>2 DEF IInv, TypeOK, RowFollowsExt
  <2>. QED  BY <2>1, <2>2
<1>. USE DEF IInv, TypeOK
<1>6. AnswerIsFresh'
  BY <1>2, <1>4 DEF AnswerIsFresh
<1>7. WriteMovesOn'
  BY <1>2, <1>4 DEF WriteMovesOn
<1>8. CreditIsFirst'
  BY <1>2, <1>4 DEF CreditIsFirst
<1>. QED  BY <1>5, <1>6, <1>7, <1>8 DEF Answers

LEMMA AnswersStep == IInv /\ [Next]_vars => Answers'
<1>. SUFFICES ASSUME IInv, [Next]_vars PROVE Answers'
  OBVIOUS
<1>. Workers \subseteq Procs /\ Handlers \subseteq Procs /\ Scanner \in Procs
  BY DEF Procs
<1>. Scanner \notin Workers /\ Workers \intersect Handlers = {}
  BY ProcsAssumption
<1>0. pc \in [Procs -> Labels] /\ job \in [Procs -> Orders \union {NoOrder}]
      /\ resp \in [Workers -> AccrualStatus \union {NoAnswer}]
      /\ updated \in [Workers -> Row \union {NoRow}]
      /\ ext \in [Orders -> AccrualStatus \union {"UNREGISTERED"}]
  BY DEF IInv, TypeOK
<1>1. ASSUME NEW p \in Procs, TryEnqueue(p) PROVE Answers'
  <2>1. /\ UNCHANGED <<database, ext, resp, updated>>
        /\ job' = job \/ (p \notin Workers /\ job' = [job EXCEPT ![p] = NoOrder])
        /\ \E l \in {"send", "undo", "finish", "scan", "idle"} : pc' = [pc EXCEPT ![p] = l]
    BY <1>1 DEF TryEnqueue, LoadOrStore, Send, Undo, Return, Goto, Home
  <2>2. \A w \in Workers : pc'[w] \in {"read", "write", "credit"} => pc'[w] = pc[w] /\ job'[w] = job[w]
    BY <1>0, <2>1
  <2>. QED  BY <2>1, <2>2, AnswersFrame
<1>2. ASSUME NEW h \in Handlers, Upload(h) PROVE Answers'
  <2>1. /\ UNCHANGED <<ext, resp, updated>>
        /\ UNCHANGED database \/ (pc[h] = "insert" /\ Inserted(h))
        /\ \A w \in Workers : pc'[w] = pc[w] /\ job'[w] = job[w]
    BY <1>0, <1>2 DEF Upload, BeginInsert, InsertOrder, InsertFails, Return, Goto
  <2>. QED  BY <2>1, InsertedAnswers, AnswersFrame
<1>3. ASSUME Scan PROVE Answers'
  <2>1. /\ UNCHANGED <<database, ext, resp, updated>>
        /\ \A w \in Workers : pc'[w] = pc[w] /\ job'[w] = job[w]
    BY <1>0, <1>3 DEF Scan, SelectPending, ScanNext, Goto
  <2>. QED  BY <2>1, AnswersFrame
<1>4. ASSUME NEW w \in Workers, Take(w) \/ PollRateLimited(w) \/ PollOrReadFails(w) \/ Finish(w)
      PROVE  Answers'
  <2>1. /\ UNCHANGED <<database, ext>>
        /\ \E l \in {"poll", "load", "finish", "idle"} : pc' = [pc EXCEPT ![w] = l]
        /\ \A v \in Workers \ {w} : job'[v] = job[v] /\ resp'[v] = resp[v] /\ updated'[v] = updated[v]
    BY <1>0, <1>4 DEF Take, PollRateLimited, PollOrReadFails, Finish, Goto
  <2>2. \A v \in Workers : pc'[v] \in {"read", "write", "credit"} => v # w /\ pc'[v] = pc[v]
    BY <1>0, <2>1
  <2>. QED  BY <2>1, <2>2, AnswersFrame
<1>5. ASSUME NEW w \in Workers, PollOrder(w) PROVE Answers'
  <2>1. UNCHANGED <<database, ext, job, updated>> /\ pc[w] = "poll"
    BY <1>5 DEF PollOrder
  <2>2. CASE ext[job[w]] = "UNREGISTERED"
    <3>1. pc' = [pc EXCEPT ![w] = "finish"] /\ UNCHANGED resp
      BY <1>5, <2>2 DEF PollOrder, Goto
    <3>. QED  BY <1>0, <2>1, <3>1, AnswersFrame
  <2>3. CASE ext[job[w]] # "UNREGISTERED"
    <3>1. pc' = [pc EXCEPT ![w] = "read"] /\ resp' = [resp EXCEPT ![w] = ext[job[w]]]
      BY <1>5, <2>3 DEF PollOrder, Goto
    <3>2. job[w] \in Orders /\ ext[job[w]] \in AccrualStatus
      BY <1>0, <2>1, <2>3, WorkersJob
    <3>3. status[job[w]] \in Final => ext[job[w]] = status[job[w]]
      BY <3>2 DEF IInv, RowFollowsExt, Final
    <3>4. AnswerIsFresh'
      BY <1>0, <2>1, <2>3, <3>1, <3>2, <3>3 DEF IInv, AnswerIsFresh, database
    <3>5. WriteMovesOn' /\ CreditIsFirst'
      BY <1>0, <2>1, <3>1 DEF IInv, WriteMovesOn, CreditIsFirst, database
    <3>6. RowFollowsExt'
      BY <2>1 DEF IInv, RowFollowsExt, database
    <3>. QED  BY <3>4, <3>5, <3>6 DEF Answers
  <2>. QED  BY <2>2, <2>3
<1>6. ASSUME NEW w \in Workers, ReadOrder(w) PROVE Answers'
  <2>. DEFINE u == ApplyAccrualInfo(RowOf(job[w]), Answer(job[w], resp[w]))
  <2>1. UNCHANGED <<database, ext, job, resp>> /\ pc[w] = "read"
    BY <1>6 DEF ReadOrder
  <2>2. CASE u = RowOf(job[w])
    <3>1. pc' = [pc EXCEPT ![w] = "finish"] /\ UNCHANGED updated
      BY <1>6, <2>2 DEF ReadOrder, Goto
    <3>. QED  BY <1>0, <2>1, <3>1, AnswersFrame
  <2>3. CASE u # RowOf(job[w])
    <3>1. pc' = [pc EXCEPT ![w] = "write"] /\ updated' = [updated EXCEPT ![w] = u]
      BY <1>6, <2>3 DEF ReadOrder, Goto
    <3>2. /\ status[job[w]] \in Pending
          /\ u.status = MapAccrualStatus(resp[w])
          /\ u.status # status[job[w]]
          /\ u.accrual = IF resp[w] = "PROCESSED" THEN Reward[job[w]] ELSE 0
      BY <2>1, <2>3, ReadVerdict
    <3>. HIDE DEF u
    <3>3. AnswerIsFresh'
      BY <1>0, <2>1, <3>1 DEF IInv, AnswerIsFresh, database
    <3>4. WriteMovesOn'
      BY <1>0, <2>1, <3>1, <3>2 DEF IInv, WriteMovesOn, database
    <3>5. CreditIsFirst'
      BY <1>0, <2>1, <3>1 DEF IInv, CreditIsFirst, database
    <3>6. RowFollowsExt'
      BY <2>1 DEF IInv, RowFollowsExt, database
    <3>. QED  BY <3>3, <3>4, <3>5, <3>6 DEF Answers
  <2>. QED  BY <2>2, <2>3
<1>7. ASSUME NEW w \in Workers, UpdateOrderAccrual(w) \/ UpdateFails(w) PROVE Answers'
  <2>1. /\ pc[w] = "write" /\ UNCHANGED <<ext, job, resp, updated>>
        /\ \/ Written(w) /\ \E l \in {AfterWrite(w), "finish"} : Goto(w, l)
           \/ UNCHANGED database /\ Goto(w, "finish")
    BY <1>7 DEF UpdateOrderAccrual, UpdateFails
  <2>2. CASE UNCHANGED database /\ Goto(w, "finish")
    BY <1>0, <2>1, <2>2, AnswersFrame DEF Goto
  <2>. QED  BY <2>1, <2>2, WrittenAnswers
<1>8. ASSUME NEW w \in Workers, CreditAccrual(w) \/ CreditFails(w) PROVE Answers'
  <2>1. /\ pc[w] = "credit" /\ UNCHANGED <<ext, job, resp, updated>> /\ Goto(w, "finish")
        /\ Credited(w) \/ UNCHANGED database
    BY <1>8 DEF CreditAccrual, CreditFails
  <2>2. CASE UNCHANGED database
    BY <1>0, <2>1, <2>2, AnswersFrame DEF Goto
  <2>. QED  BY <2>1, <2>2, CreditedAnswers
<1>9. ASSUME NEW o \in Orders, ExtProgress(o) PROVE Answers'
  <2>1. /\ UNCHANGED <<database, pc, job, resp, updated>>
        /\ \A q \in Orders : ext'[q] # "UNREGISTERED" \/ ext[q] = "UNREGISTERED"
        /\ \A q \in Orders : ext[q] \in AccrualFinal => ext'[q] = ext[q]
    BY <1>0, <1>9 DEF ExtProgress, memory, AccrualStatus, AccrualFinal
  <2>2. RowFollowsExt'
    BY <1>0, <2>1 DEF IInv, RowFollowsExt, database, AccrualFinal
  <2>3. AnswerIsFresh'
    <3>1. \A w \in Workers : pc[w] \in {"read", "write"} => job[w] \in Orders
      BY WorkersJob
    <3>. QED  BY <2>1, <3>1 DEF IInv, AnswerIsFresh, database
  <2>4. WriteMovesOn' /\ CreditIsFirst'
    BY <2>1 DEF IInv, WriteMovesOn, CreditIsFirst, database
  <2>. QED  BY <2>2, <2>3, <2>4 DEF Answers
<1>10. ASSUME Restart PROVE Answers'
  <2>1. UNCHANGED <<database, ext>> /\ \A w \in Workers : pc'[w] = "idle"
    BY <1>10 DEF Restart
  <2>. QED  BY <2>1, AnswersFrame
<1>11. ASSUME UNCHANGED vars PROVE Answers'
  BY <1>11, AnswersFrame DEF vars, memory
<1>. QED
  <2>1. ASSUME NEW w \in Workers, ProcessJob(w) \/ WorkerFails(w) PROVE Answers'
    BY <1>4, <1>5, <1>6, <1>7, <1>8, <2>1 DEF ProcessJob, WorkerFails
  <2>. QED  BY <1>1, <1>2, <1>3, <1>9, <1>10, <1>11, <2>1 DEF Next

-----------------------------------------------------------------------------
(* The theorems.                                                            *)

\* IInv is inductive, so it holds in every reachable state.
THEOREM Invariance == Spec => []IInv
<1>1. IInv /\ [Next]_vars => IInv'
  BY TypeStep, OwnershipStep, OnlyUploadedStep, AnswersStep DEF IInv, Ownership, Answers
<1>. QED  BY InitIInv, <1>1, PTL DEF Spec

\* Every variable keeps its type, whatever the number of orders, goroutines
\* and faults.
THEOREM TypeCorrect == Spec => []TypeOK
<1>1. IInv => TypeOK
  BY DEF IInv
<1>. QED  BY <1>1, Invariance, PTL

\* No order is processed twice at a time (worker.go:157-174).
THEOREM Exclusion == Spec => []OneOwner
<1>1. IInv => OneOwner
  BY DEF IInv
<1>. QED  BY <1>1, Invariance, PTL

\* inflight has exactly the keys of the orders somebody is responsible for, so
\* none is shut out for good (worker.go:162-174).
THEOREM NothingLeaks == Spec => []NoLeak
<1>1. IInv => NoLeak
  BY DEF IInv
<1>. QED  BY <1>1, Invariance, PTL

\* No worker comes to the send of its own tryEnqueue.
WorkersNeverSend == \A w \in Workers : pc[w] \notin {"send", "undo"}

\* The requeue of a worker is without effect (worker.go:190, 242): the order is
\* still in inflight, its key is deleted when processJob returns.
THEOREM RequeueIsVain == Spec => []WorkersNeverSend
<1>1. IInv => WorkersNeverSend
  BY DEF IInv, PcOK, WorkersNeverSend
<1>. QED  BY <1>1, Invariance, PTL

\* Whatever is credited for an order is its reward.
THEOREM CreditCorrect == Spec => []CreditIsReward
<1>1. IInv => CreditIsReward
  BY DEF IInv, TypeOK, RowFollowsExt, CreditIsReward
<1>. QED  BY <1>1, Invariance, PTL

\* A step of the pool is a step of OrderBook, or changes nothing OrderBook
\* knows of.
LEMMA BookStep == IInv /\ [Next]_vars => [Book!Next]_(Book!vars)
<1>. SUFFICES ASSUME IInv, [Next]_vars PROVE [Book!Next]_(Book!vars)
  OBVIOUS
<1>. USE DEF Book!vars, database
<1>1. ASSUME NEW w \in Workers, pc[w] = "write", Written(w), UNCHANGED ext
      PROVE  Book!Next
  <2>. DEFINE o == job[w]  s == updated[w].status  a == updated[w].accrual
  <2>1. /\ o \in Orders /\ status[o] \in Pending /\ credited[o] = 0 /\ accrual[o] = 0
        /\ s = "PROCESSING" \/ s \in Final
        /\ s # status[o]
        /\ ext[o] # "UNREGISTERED"
        /\ s \in Final => ext[o] = s
        /\ a = IF s = "PROCESSED" THEN Reward[o] ELSE 0
    BY <1>1, WrittenVerdict
  <2>2. /\ status' = [status EXCEPT ![o] = s] /\ accrual' = [accrual EXCEPT ![o] = a]
        /\ UNCHANGED <<credited, ext>>
    BY <1>1 DEF Written
  <2>3. accrual \in [Orders -> Nat]
    BY DEF IInv, TypeOK
  <2>. HIDE DEF o, s, a
  <2>4. s # "PROCESSED" => UNCHANGED accrual
    BY <2>1, <2>2, <2>3
  <2>5. CASE s = "PROCESSING"
    BY <2>1, <2>2, <2>4, <2>5 DEF Book!Next, Book!Start, Pending
  <2>6. CASE s = "INVALID"
    BY <2>1, <2>2, <2>4, <2>6 DEF Book!Next, Book!Reject, Book!Pending, Pending, Final
  <2>7. CASE s = "PROCESSED"
    BY <2>1, <2>2, <2>7 DEF Book!Next, Book!Approve, Book!Pending, Pending, Final
  <2>. QED  BY <2>1, <2>5, <2>6, <2>7 DEF Final
<1>2. ASSUME NEW w \in Workers, pc[w] = "credit", Credited(w), UNCHANGED ext
      PROVE  Book!Next
  <2>1. /\ job[w] \in Orders /\ status[job[w]] = "PROCESSED" /\ credited[job[w]] = 0
        /\ updated[w].accrual = Reward[job[w]]
    BY <1>2, WorkersJob DEF IInv, CreditIsFirst
  <2>2. credited' = [credited EXCEPT ![job[w]] = Reward[job[w]]] /\ UNCHANGED <<status, accrual>>
    BY <1>2, <2>1 DEF Credited
  <2>. QED  BY <1>2, <2>1, <2>2 DEF Book!Next, Book!Credit
<1>3. ASSUME NEW h \in Handlers, pc[h] = "insert", Inserted(h), UNCHANGED ext PROVE Book!Next
  BY <1>3, InsertedRow DEF Book!Next, Book!Upload
<1>4. ASSUME NEW o \in Orders, ExtProgress(o) PROVE Book!Next
  <2>1. ext[o] \notin AccrualFinal /\ \E s \in AccrualStatus : ext' = [ext EXCEPT ![o] = s]
    BY <1>4 DEF ExtProgress, AccrualStatus, AccrualFinal
  <2>. QED
    BY <1>4, <2>1
    DEF ExtProgress, Book!Next, Book!Progress, Book!AccrualFinal, Book!AccrualStatus,
        AccrualFinal, AccrualStatus
<1>5. ASSUME NEW w \in Workers, ProcessJob(w) \/ WorkerFails(w)
      PROVE  Book!Next \/ UNCHANGED <<database, ext>>
  BY <1>1, <1>2, <1>5 DEF ProcessJob, WorkerFails, Take, PollOrder, ReadOrder,
     UpdateOrderAccrual, CreditAccrual, Finish, PollRateLimited, PollOrReadFails,
     UpdateFails, CreditFails
<1>6. ASSUME NEW h \in Handlers, Upload(h) PROVE Book!Next \/ UNCHANGED <<database, ext>>
  BY <1>3, <1>6 DEF Upload, BeginInsert, InsertOrder, InsertFails
<1>7. ASSUME NEW p \in Procs, TryEnqueue(p) PROVE UNCHANGED <<database, ext>>
  BY <1>7 DEF TryEnqueue, LoadOrStore, Send, Undo
<1>8. CASE Scan \/ Restart \/ UNCHANGED vars
  BY <1>8 DEF Scan, SelectPending, ScanNext, Restart, vars
<1>. QED  BY <1>4, <1>5, <1>6, <1>7, <1>8 DEF Next

\* The pool implements the promise of OrderBook.
THEOREM Implementation == Spec => ImplementsOrderBook
<1>1. Init => Book!Init
  BY DEF Init, Book!Init
<1>. QED  BY <1>1, BookStep, Invariance, PTL DEF Spec, Book!Spec, ImplementsOrderBook

\* OrderBook never overwrites a verdict; by BookStep neither does the pool.
THEOREM VerdictIsKept == Spec => FinalStatusIsFinal
<1>. DEFINE Kept == \A o \in Orders : status[o] \in Final =>
                      status'[o] = status[o] /\ accrual'[o] = accrual[o]
<1>1. IInv /\ [Next]_vars => Kept
  <2>. SUFFICES ASSUME IInv, [Next]_vars PROVE Kept
    OBVIOUS
  <2>1. status \in [Orders -> Status \union {"ABSENT"}] /\ accrual \in [Orders -> Nat]
    BY DEF IInv, TypeOK
  <2>2. Book!Next \/ UNCHANGED <<status, accrual>>
    BY BookStep DEF Book!vars
  <2>3. ASSUME NEW o \in Orders,
               Book!Upload(o) \/ Book!Start(o) \/ Book!Reject(o) \/ Book!Approve(o)
               \/ Book!Credit(o) \/ Book!Progress(o)
        PROVE  Kept
    BY <2>1, <2>3 DEF Book!Upload, Book!Start, Book!Reject, Book!Approve, Book!Credit,
       Book!Progress, Book!Pending, Pending, Final
  <2>. QED  BY <2>2, <2>3 DEF Book!Next
<1>2. IInv /\ [Next]_vars => [Kept]_vars
  BY <1>1
<1>. QED  BY <1>2, Invariance, PTL DEF Spec, FinalStatusIsFinal
-----------------------------------------------------------------------------
(* A reward that is lost.                                                   *)

\* A step that leaves the tables alone, and those at "credit" where they are.
LEMMA SameLost ==
  ASSUME UNCHANGED <<status, credited>>,
         \A w \in Workers : /\ pc'[w] = "credit" <=> pc[w] = "credit"
                            /\ pc[w] = "credit" => job'[w] = job[w]
  PROVE  \A o \in Orders : Lost(o)' <=> Lost(o)
  BY DEF Lost

\* The UPDATE of a pending row loses nothing if the worker then goes on, and
\* the credit is given to an order that was not lost.
LEMMA LossStep ==
  ASSUME IInv, [Next]_vars, NEW o \in Orders
  PROVE  /\ Lost(o)' => Lost(o) \/ faults' > faults
         /\ Lost(o) => Lost(o)'
<1>0. /\ Workers \subseteq Procs /\ Workers \intersect Handlers = {} /\ Scanner \notin Workers
      /\ pc \in [Procs -> Labels] /\ job \in [Procs -> Orders \union {NoOrder}]
      /\ status \in [Orders -> Status \union {"ABSENT"}]
      /\ credited \in [Orders -> Nat] /\ faults \in Nat
  BY ProcsAssumption, BoundsAssumption DEF Procs, IInv, TypeOK
<1>. DEFINE Goal == (Lost(o)' => Lost(o) \/ faults' > faults) /\ (Lost(o) => Lost(o)')
<1>1. ASSUME NEW p \in Procs, TryEnqueue(p) PROVE Goal
  <2>1. /\ UNCHANGED <<status, credited>>
        /\ pc[p] # "credit"
        /\ \E l \in {"send", "undo", "finish", "scan", "idle"} : pc' = [pc EXCEPT ![p] = l]
        /\ job' = job \/ (p \notin Workers /\ job' = [job EXCEPT ![p] = NoOrder])
    BY <1>1 DEF TryEnqueue, LoadOrStore, Send, Undo, Return, Goto, Home, database
  <2>. QED  BY <1>0, <2>1, SameLost
<1>2. ASSUME NEW h \in Handlers, Upload(h) PROVE Goal
  <2>1. /\ UNCHANGED database \/ (pc[h] = "insert" /\ Inserted(h))
        /\ \A w \in Workers : pc'[w] = pc[w] /\ job'[w] = job[w]
    BY <1>0, <1>2 DEF Upload, BeginInsert, InsertOrder, InsertFails, Return, Goto
  <2>2. UNCHANGED credited /\ (status'[o] = "PROCESSED" <=> status[o] = "PROCESSED")
    BY <1>0, <2>1, InsertedRow DEF database
  <2>. QED  BY <2>1, <2>2 DEF Lost
<1>3. ASSUME Scan PROVE Goal
  <2>1. /\ UNCHANGED <<status, credited>>
        /\ \A w \in Workers : pc'[w] = pc[w] /\ job'[w] = job[w]
    BY <1>0, <1>3 DEF Scan, SelectPending, ScanNext, Goto, database
  <2>. QED  BY <2>1, SameLost
<1>4. ASSUME NEW w \in Workers,
             \/ Take(w) \/ PollOrder(w) \/ ReadOrder(w) \/ Finish(w)
             \/ PollRateLimited(w) \/ PollOrReadFails(w)
      PROVE  Goal
  <2>1. /\ UNCHANGED <<status, credited>>
        /\ pc[w] # "credit"
        /\ \E l \in {"poll", "read", "write", "load", "finish", "idle"} : pc' = [pc EXCEPT ![w] = l]
        /\ \A v \in Workers \ {w} : job'[v] = job[v]
    BY <1>0, <1>4 DEF Take, PollOrder, ReadOrder, Finish, PollRateLimited, PollOrReadFails,
       Goto, database
  <2>. QED  BY <1>0, <2>1, SameLost
<1>5. ASSUME NEW w \in Workers, UpdateOrderAccrual(w) \/ UpdateFails(w) PROVE Goal
  <2>1. /\ pc[w] = "write" /\ UNCHANGED <<credited, job>> /\ job[w] \in Orders
        /\ \E l \in Labels : pc' = [pc EXCEPT ![w] = l]
    BY <1>5, WorkersJob DEF UpdateOrderAccrual, UpdateFails, Written, database, Goto,
       AfterWrite, Labels
  <2>2. status[job[w]] \in Pending /\ \A q \in Orders : q # job[w] => status'[q] = status[q]
    BY <1>0, <1>5, <2>1 DEF UpdateOrderAccrual, UpdateFails, Written, database, IInv, WriteMovesOn
  <2>3. CASE o # job[w]
    BY <1>0, <2>1, <2>2, <2>3 DEF Lost
  <2>4. CASE o = job[w]
    <3>1. ~Lost(o)
      BY <2>2, <2>4 DEF Lost, Pending
    <3>2. CASE UpdateFails(w)
      BY <1>0, <3>1, <3>2 DEF UpdateFails, Fail
    <3>3. CASE UpdateOrderAccrual(w)
      <4>1. /\ status'[o] = updated[w].status /\ pc'[w] = AfterWrite(w) /\ credited[o] = 0
            /\ updated[w].status = "PROCESSED" => updated[w].accrual = Reward[o]
        BY <1>0, <2>1, <2>4, <3>3, WrittenVerdict DEF UpdateOrderAccrual, Written, Goto
      <4>2. Reward[o] \in Nat
        BY RewardAssumption
      <4>3. ~Lost(o)'
        BY <2>1, <2>4, <4>1, <4>2 DEF Lost, AfterWrite
      <4>. QED  BY <3>1, <4>3
    <3>. QED  BY <1>5, <3>2, <3>3
  <2>. QED  BY <2>3, <2>4
<1>6. ASSUME NEW w \in Workers, CreditAccrual(w) \/ CreditFails(w) PROVE Goal
  <2>1. /\ pc[w] = "credit" /\ pc' = [pc EXCEPT ![w] = "finish"] /\ UNCHANGED <<job, status>>
        /\ Credited(w) \/ UNCHANGED credited
    BY <1>6 DEF CreditAccrual, CreditFails, Credited, database, Goto
  <2>2. CASE o # job[w]
    BY <1>0, <2>1, <2>2 DEF Lost, Credited
  <2>3. CASE o = job[w]
    <3>1. ~Lost(o)
      BY <2>1, <2>3 DEF Lost
    <3>2. CASE CreditFails(w)
      BY <1>0, <3>1, <3>2 DEF CreditFails, Fail
    <3>3. CASE CreditAccrual(w)
      <4>1. credited'[o] = Reward[o]
        BY <1>0, <2>1, <2>3, <3>3 DEF CreditAccrual, Credited, IInv, CreditIsFirst
      <4>. QED  BY <3>1, <4>1 DEF Lost
    <3>. QED  BY <1>6, <3>2, <3>3
  <2>. QED  BY <2>2, <2>3
<1>7. ASSUME NEW q \in Orders, ExtProgress(q) PROVE Goal
  BY <1>7, SameLost DEF ExtProgress, database, memory
<1>8. ASSUME Restart PROVE Goal
  <2>1. /\ faults' > faults /\ UNCHANGED <<status, credited>>
        /\ \A w \in Workers : pc'[w] = "idle"
    BY <1>0, <1>8 DEF Restart, Fail, database
  <2>. QED  BY <2>1 DEF Lost
<1>9. CASE UNCHANGED vars
  BY <1>9, SameLost DEF vars, database, memory
<1>. QED
  <2>1. ASSUME NEW w \in Workers, ProcessJob(w) \/ WorkerFails(w) PROVE Goal
    BY <1>4, <1>5, <1>6, <2>1 DEF ProcessJob, WorkerFails
  <2>. QED  BY <1>1, <1>2, <1>3, <1>7, <1>8, <1>9, <2>1 DEF Next

\* No schedule of any number of goroutines loses a reward: it takes a failed
\* statement or a restart (worker.go:215-239).
THEOREM LossNeedsFault == Spec => LostOnlyByFault
<1>1. IInv /\ [Next]_vars => [\A o \in Orders : Lost(o)' => Lost(o) \/ faults' > faults]_vars
  BY LossStep
<1>. QED  BY <1>1, Invariance, PTL DEF Spec, LostOnlyByFault

\* A lost reward stays lost, whatever the pool does afterwards: the promise of
\* docs/pool-architecture.md:55 is broken for good.
THEOREM LossIsForGood == Spec => LossIsFinal
<1>1. IInv /\ [Next]_vars => [\A o \in Orders : Lost(o) => Lost(o)']_vars
  BY LossStep
<1>. QED  BY <1>1, Invariance, PTL DEF Spec, LossIsFinal
-----------------------------------------------------------------------------
(* How many orders the pool holds.                                          *)

LEMMA QueueSizeType == QueueSize \in Nat
<1>1. Cardinality(Workers) \in Nat
  BY ProcsAssumption, FS_CardinalityType
<1>2. QueueFactor * Cardinality(Workers) \in Nat
  BY <1>1, BoundsAssumption
<1>. QED  BY <1>2, BoundsAssumption DEF QueueSize

\* The places of the channel and the owners of orders are as many as the
\* orders they stand for, and no order is counted twice.
LEMMA InvCounts ==
  ASSUME IInv
  PROVE  Cardinality(inflight) = Len(jobs) + Cardinality({p \in Procs : Owns(p)})
<1>. DEFINE Places == 1 .. Len(jobs)
            Owners == {p \in Procs : Owns(p)}
            A == {o \in Orders : Queued(o)}
            B == {o \in Orders : Owner(o) # {}}
            f == [i \in Places |-> jobs[i]]
            g == [p \in Owners |-> job[p]]
<1>1. jobs \in Seq(Orders) /\ Len(jobs) \in Nat /\ \A i \in Places : jobs[i] \in Orders
  BY LenProperties, ElementOfSeq DEF IInv, TypeOK
<1>2. f \in Bijection(Places, A)
  <2>1. \A i \in Places : jobs[i] \in A
    BY <1>1 DEF Queued
  <2>2. \A i, j \in Places : jobs[i] = jobs[j] => i = j
    BY DEF IInv, OneOwner
  <2>3. \A o \in A : \E i \in Places : jobs[i] = o
    BY DEF Queued
  <2>4. /\ f \in [Places -> A]
        /\ \A i, j \in Places : f[i] = f[j] => i = j
        /\ \A o \in A : \E i \in Places : f[i] = o
    BY <2>1, <2>2, <2>3
  <2>. HIDE DEF f, A, Places
  <2>. QED  BY <2>4, Fun_IsBij
<1>3. g \in Bijection(Owners, B)
  <2>1. \A p \in Owners : job[p] \in Orders
    BY DEF IInv, TypeOK, PcOK, Owns
  <2>2. \A p \in Owners : job[p] \in B
    BY <2>1 DEF Owner
  <2>3. \A p, q \in Owners : job[p] = job[q] => p = q
    BY DEF IInv, OneOwner
  <2>4. \A o \in B : \E p \in Owners : job[p] = o
    BY DEF Owner
  <2>5. /\ g \in [Owners -> B]
        /\ \A p, q \in Owners : g[p] = g[q] => p = q
        /\ \A o \in B : \E p \in Owners : g[p] = o
    BY <2>2, <2>3, <2>4
  <2>. HIDE DEF g, B, Owners
  <2>. QED  BY <2>5, Fun_IsBij
<1>4. A \in SUBSET Orders /\ B \in SUBSET Orders
  OBVIOUS
<1>5. A \cap B = {}
  BY DEF IInv, OneOwner, Owner
<1>6. inflight = A \cup B
  <2>1. inflight \in SUBSET Orders
    BY DEF IInv, TypeOK
  <2>2. \A o \in Orders : o \in inflight <=> o \in A \/ o \in B
    BY DEF IInv, NoLeak
  <2>. HIDE DEF A, B
  <2>. QED  BY <1>4, <2>1, <2>2
<1>7. IsFiniteSet(Places) /\ Cardinality(Places) = Len(jobs)
  <2>. DEFINE n == Len(jobs)
  <2>1. n \in Nat
    BY <1>1
  <2>. HIDE DEF n
  <2>2. IsFiniteSet(1 .. n) /\ Cardinality(1 .. n) = IF 1 > n THEN 0 ELSE n - 1 + 1
    BY <2>1, FS_Interval
  <2>3. IsFiniteSet(1 .. n) /\ Cardinality(1 .. n) = n
    BY <2>1, <2>2
  <2>. QED  BY <2>3 DEF n
<1>. HIDE DEF A, B, f, g, Places, Owners
<1>8. IsFiniteSet(A) /\ IsFiniteSet(B)
  BY <1>4, OrdersAssumption, FS_Subset
<1>9. Cardinality(A) = Len(jobs)
  BY <1>2, <1>7, FS_Bijection, Fun_ExistsBij
<1>10. Cardinality(Owners) = Cardinality(B)
  <2>1. IsFiniteSet(Owners)
    BY <1>3, <1>8, FS_Injection DEF Bijection
  <2>. QED  BY <1>3, <2>1, FS_Bijection, Fun_ExistsBij
<1>11. Cardinality(A \cup B) = Cardinality(A) + Cardinality(B)
  <2>1. Cardinality(A \cup B) = Cardinality(A) + Cardinality(B) - 0
    BY <1>5, <1>8, FS_Union, FS_EmptySet
  <2>. QED  BY <1>8, <2>1, FS_CardinalityType
<1>. QED  BY <1>6, <1>9, <1>10, <1>11 DEF Owners

LEMMA QueueStep ==
  ASSUME IInv, [Next]_vars, Len(jobs) =< QueueSize
  PROVE  Len(jobs') =< QueueSize
<1>1. jobs \in Seq(Orders) /\ Len(jobs) \in Nat /\ QueueSize \in Nat
  BY LenProperties, QueueSizeType DEF IInv, TypeOK
<1>2. ASSUME NEW p \in Procs, Send(p) PROVE Len(jobs') =< QueueSize
  <2>1. job[p] \in Orders
    BY <1>2 DEF Send, IInv, TypeOK, PcOK
  <2>2. CASE Len(jobs) < QueueSize
    <3>1. jobs' = Append(jobs, job[p])
      BY <1>2, <2>2 DEF Send
    <3>2. Len(jobs') = Len(jobs) + 1
      BY <1>1, <2>1, <3>1, AppendProperties
    <3>. QED  BY <1>1, <2>2, <3>2
  <2>3. CASE ~(Len(jobs) < QueueSize)
    BY <1>2, <2>3 DEF Send
  <2>. QED  BY <2>2, <2>3
<1>3. ASSUME NEW w \in Workers, Take(w) PROVE Len(jobs') =< QueueSize
  <2>1. jobs # << >> /\ jobs' = Tail(jobs)
    BY <1>3 DEF Take
  <2>2. Len(jobs') = Len(jobs) - 1
    BY <1>1, <2>1, HeadTailProperties
  <2>. QED  BY <1>1, <2>2
<1>4. ASSUME Restart PROVE Len(jobs') =< QueueSize
  BY <1>1, <1>4, EmptySeq DEF Restart
<1>5. \/ \E p \in Procs : Send(p)
      \/ \E w \in Workers : Take(w)
      \/ Restart
      \/ UNCHANGED jobs
  BY DEF Next, TryEnqueue, LoadOrStore, Undo, Upload, BeginInsert, InsertOrder, InsertFails, Scan,
     SelectPending, ScanNext, ProcessJob, PollOrder, ReadOrder, UpdateOrderAccrual,
     CreditAccrual, Finish, WorkerFails, PollRateLimited, PollOrReadFails, UpdateFails,
     CreditFails, ExtProgress, memory, vars
<1>. QED  BY <1>2, <1>3, <1>4, <1>5

\* What the pool holds in memory is bounded by the channel's size and the
\* number of goroutines at work, however many orders are pending.
THEOREM MemoryIsBounded == Spec => []InflightIsCounted
<1>1. Init => Len(jobs) =< QueueSize
  BY QueueSizeType, EmptySeq DEF Init
<1>2. IInv /\ [Next]_vars /\ Len(jobs) =< QueueSize => Len(jobs') =< QueueSize
  BY QueueStep
<1>3. IInv /\ Len(jobs) =< QueueSize => InflightIsCounted
  BY InvCounts DEF InflightIsCounted
<1>4. (Len(jobs) =< QueueSize)' <=> Len(jobs') =< QueueSize
  BY DEF QueueSize
<1>. QED  BY <1>1, <1>2, <1>3, <1>4, Invariance, PTL DEF Spec
-----------------------------------------------------------------------------
(* The places of the pending orders.                                        *)

\* The others leave open INSERTs alone (a restart rolls them back), and move
\* rows from pending to final only.
LEMMA OthersStep ==
  ASSUME IInv, [Next]_vars, \A h \in Handlers : ~Upload(h)
  PROVE  /\ UNCHANGED uploadedAt
         /\ \A q \in Orders : status'[q] = status[q] \/ (status[q] \in Pending /\ status'[q] \in Status)
         /\ \A g \in Handlers : pc'[g] = "insert" =>
              pc[g] = "insert" /\ job'[g] = job[g] /\ startedAt'[g] = startedAt[g]
<1>0. /\ Workers \subseteq Procs /\ Handlers \subseteq Procs /\ Scanner \in Procs
      /\ Workers \intersect Handlers = {} /\ Scanner \notin Handlers
      /\ pc \in [Procs -> Labels] /\ job \in [Procs -> Orders \union {NoOrder}]
  BY ProcsAssumption DEF Procs, IInv, TypeOK
<1>. DEFINE Rows  == /\ UNCHANGED uploadedAt
                     /\ \A q \in Orders :
                          status'[q] = status[q] \/ (status[q] \in Pending /\ status'[q] \in Status)
            Opens == \A g \in Handlers : pc'[g] = "insert" =>
                       pc[g] = "insert" /\ job'[g] = job[g] /\ startedAt'[g] = startedAt[g]
<1>1. ASSUME NEW w \in Workers, pc[w] = "write", Written(w) PROVE Rows
  <2>1. status' = [status EXCEPT ![job[w]] = updated[w].status] /\ UNCHANGED uploadedAt
    BY <1>1 DEF Written
  <2>2. /\ job[w] \in Orders /\ status[job[w]] \in Pending
        /\ updated[w].status \in Status
    BY <1>1, WrittenVerdict DEF Status, Pending
  <2>. QED  BY <2>1, <2>2 DEF IInv, TypeOK
<1>2. ASSUME NEW w \in Workers, ProcessJob(w) \/ WorkerFails(w) PROVE Rows /\ Opens
  <2>1. UNCHANGED <<status, uploadedAt>> \/ (pc[w] = "write" /\ Written(w))
    BY <1>2 DEF ProcessJob, WorkerFails, Take, PollOrder, ReadOrder, UpdateOrderAccrual,
       CreditAccrual, Finish, PollRateLimited, PollOrReadFails, UpdateFails, CreditFails,
       Credited, database
  <2>2. /\ UNCHANGED startedAt
        /\ \E l \in Labels : pc' = [pc EXCEPT ![w] = l]
        /\ \A g \in Handlers : job'[g] = job[g]
    BY <1>0, <1>2 DEF ProcessJob, WorkerFails, Take, PollOrder, ReadOrder, UpdateOrderAccrual,
       CreditAccrual, Finish, PollRateLimited, PollOrReadFails, UpdateFails, CreditFails,
       Goto, AfterWrite, Labels
  <2>3. Opens
    BY <1>0, <2>2
  <2>4. Rows
    BY <1>1, <2>1
  <2>. QED  BY <2>3, <2>4
<1>3. ASSUME NEW p \in Procs, TryEnqueue(p) PROVE Rows /\ Opens
  <2>1. /\ UNCHANGED <<status, uploadedAt, startedAt>>
        /\ \E l \in {"send", "undo", "finish", "scan", "idle"} : pc' = [pc EXCEPT ![p] = l]
        /\ job' = job \/ job' = [job EXCEPT ![p] = NoOrder]
    BY <1>3 DEF TryEnqueue, LoadOrStore, Send, Undo, Return, Goto, Home, database
  <2>2. Opens
    BY <1>0, <2>1
  <2>. QED  BY <2>1, <2>2
<1>4. ASSUME Scan PROVE Rows /\ Opens
  <2>1. /\ UNCHANGED <<status, uploadedAt, startedAt>>
        /\ \A g \in Handlers : pc'[g] = pc[g] /\ job'[g] = job[g]
    BY <1>0, <1>4 DEF Scan, SelectPending, ScanNext, Goto, database
  <2>. QED  BY <2>1
<1>5. ASSUME NEW q \in Orders, ExtProgress(q) PROVE Rows /\ Opens
  BY <1>5 DEF ExtProgress, database, memory
<1>6. ASSUME Restart PROVE Rows /\ Opens
  <2>1. /\ UNCHANGED <<status, uploadedAt>>
        /\ \A g \in Handlers : pc'[g] = "idle"
    BY <1>0, <1>6 DEF Restart, database
  <2>. QED  BY <2>1
<1>7. ASSUME UNCHANGED vars PROVE Rows /\ Opens
  BY <1>7 DEF vars, database, memory
<1>. HIDE DEF Rows, Opens
<1>8. Rows /\ Opens
  BY <1>2, <1>3, <1>4, <1>5, <1>6, <1>7 DEF Next
<1>. QED  BY <1>8 DEF Rows, Opens

\* Nobody comes before an order but those that did.
LEMMA AheadShrinks ==
  ASSUME IInv, [Next]_vars, NEW o \in PendingOrders
  PROVE  status'[o] \in Status /\ uploadedAt'[o] = uploadedAt[o] /\ Ahead(o)' \subseteq Ahead(o)
<1>0. /\ Handlers \subseteq Procs /\ o \in Orders /\ status[o] \in Pending /\ uploadedAt[o] \in Nat
      /\ pc \in [Procs -> Labels] /\ job \in [Procs -> Orders \union {NoOrder}]
      /\ status \in [Orders -> Status \union {"ABSENT"}] /\ uploadedAt \in [Orders -> Nat]
      /\ startedAt \in [Handlers -> Nat]
  BY DEF Procs, IInv, TypeOK, PendingOrders
<1>. DEFINE Goal == status'[o] \in Status /\ uploadedAt'[o] = uploadedAt[o] /\ Ahead(o)' \subseteq Ahead(o)
<1>1. ASSUME NEW h \in Handlers, NEW q \in Orders, BeginInsert(h, q) PROVE Goal
  <2>1. /\ UNCHANGED <<status, uploadedAt>>
        /\ startedAt' = [startedAt EXCEPT ![h] = Now]
        /\ \A g \in Handlers \ {h} : pc'[g] = pc[g] /\ job'[g] = job[g]
    BY <1>0, <1>1 DEF BeginInsert, Goto, database
  <2>2. Now \in Nat /\ uploadedAt[o] < Now
    BY <1>0, NowIsLater DEF IInv
  <2>3. ~(startedAt'[h] < uploadedAt'[o])
    BY <1>0, <2>1, <2>2
  <2>4. Ahead(o)' \subseteq Ahead(o)
    BY <1>0, <2>1, <2>3 DEF Ahead, PendingOrders
  <2>. QED  BY <1>0, <2>1, <2>4 DEF Status
<1>2. ASSUME NEW h \in Handlers, InsertOrder(h) \/ InsertFails(h) PROVE Goal
  <2>1. /\ pc[h] = "insert" /\ job[h] \in Orders
        /\ UNCHANGED <<status, uploadedAt>> \/ Inserted(h)
        /\ pc'[h] # "insert"
        /\ \A g \in Handlers \ {h} : pc'[g] = pc[g] /\ job'[g] = job[g] /\ startedAt'[g] = startedAt[g]
    <3>1. h \notin Workers /\ h # Scanner
      BY ProcsAssumption
    <3>. QED
      BY <1>0, <1>2, <3>1, InsertedRow DEF InsertOrder, InsertFails, Return, Home, Goto, database
  <2>2. CASE UNCHANGED <<status, uploadedAt>>
    <3>1. Ahead(o)' \subseteq Ahead(o)
      BY <1>0, <2>1, <2>2 DEF Ahead, PendingOrders
    <3>. QED  BY <1>0, <2>2, <3>1 DEF Status
  <2>3. CASE Inserted(h)
    <3>1. /\ status[job[h]] = "ABSENT"
          /\ \A q \in Orders : q # job[h] => status'[q] = status[q] /\ uploadedAt'[q] = uploadedAt[q]
          /\ uploadedAt'[job[h]] = startedAt[h]
      BY <1>0, <2>1, <2>3, InsertedRow
    <3>2. o # job[h]
      BY <1>0, <3>1 DEF Pending
    <3>3. uploadedAt'[o] = uploadedAt[o] /\ status'[o] = status[o]
      BY <1>0, <3>1, <3>2
    <3>4. ASSUME NEW q \in PendingOrders', uploadedAt'[q] < uploadedAt'[o] PROVE q \in Ahead(o)
      <4>1. CASE q = job[h]
        BY <2>1, <3>1, <3>3, <3>4, <4>1 DEF Ahead
      <4>2. CASE q # job[h]
        BY <1>0, <3>1, <3>3, <3>4, <4>2 DEF Ahead, PendingOrders
      <4>. QED  BY <4>1, <4>2
    <3>5. ASSUME NEW g \in Handlers, pc'[g] = "insert", startedAt'[g] < uploadedAt'[o]
          PROVE  job'[g] \in Ahead(o)
      BY <2>1, <3>3, <3>5 DEF Ahead
    <3>6. Ahead(o)' \subseteq Ahead(o)
      BY <3>4, <3>5 DEF Ahead
    <3>. QED  BY <1>0, <3>3, <3>6 DEF Status
  <2>. QED  BY <2>1, <2>2, <2>3
<1>3. ASSUME \A h \in Handlers : ~Upload(h) PROVE Goal
  <2>1. /\ UNCHANGED uploadedAt
        /\ \A q \in Orders : status'[q] = status[q] \/ (status[q] \in Pending /\ status'[q] \in Status)
        /\ \A g \in Handlers : pc'[g] = "insert" =>
             pc[g] = "insert" /\ job'[g] = job[g] /\ startedAt'[g] = startedAt[g]
    BY <1>3, OthersStep
  <2>2. PendingOrders' \subseteq PendingOrders
    BY <2>1 DEF PendingOrders
  <2>3. Ahead(o)' \subseteq Ahead(o)
    BY <2>1, <2>2 DEF Ahead
  <2>. QED  BY <1>0, <2>1, <2>3 DEF Status
<1>. QED  BY <1>1, <1>2, <1>3 DEF Upload

LEMMA StepKeepsPlace ==
  ASSUME IInv, [Next]_vars, NEW o \in FirstInLine
  PROVE  status'[o] \in Final \/ o \in FirstInLine'
<1>1. o \in PendingOrders /\ o \in Orders /\ Cardinality(Ahead(o)) < PollBatch
  BY DEF FirstInLine, PendingOrders
<1>2. status'[o] \in Status /\ Ahead(o)' \subseteq Ahead(o)
  BY <1>1, AheadShrinks
<1>3. IsFiniteSet(Ahead(o))
  <2>1. \A h \in Handlers : pc[h] = "insert" => job[h] \in Orders
    BY InsertedRow
  <2>2. Ahead(o) \subseteq Orders
    BY <2>1 DEF Ahead, PendingOrders
  <2>. QED  BY <2>2, OrdersAssumption, FS_Subset
<1>4. Cardinality(Ahead(o)') =< Cardinality(Ahead(o)) /\ Cardinality(Ahead(o)') \in Nat
  BY <1>2, <1>3, SubsetCardinality
<1>5. Cardinality(Ahead(o)') < PollBatch
  <2>1. Cardinality(Ahead(o)) \in Nat
    BY <1>3, FS_CardinalityType
  <2>. QED  BY <1>1, <1>4, <2>1, BoundsAssumption
<1>. QED  BY <1>1, <1>2, <1>5 DEF FirstInLine, PendingOrders, Status

\* The scanner's order by uploaded_at is fair: once an order is among the
\* first PollBatch in line, it stays there until its verdict, however many
\* INSERTs overlap (repo.go:40, 111-113).
THEOREM NoOvertaking == Spec => PlaceIsKept
<1>1. IInv /\ [Next]_vars =>
        [\A o \in FirstInLine : status'[o] \in Final \/ o \in FirstInLine']_vars
  BY StepKeepsPlace
<1>. QED  BY <1>1, Invariance, PTL DEF Spec, PlaceIsKept
=============================================================================
