--------------------------- MODULE PollingProofs ---------------------------
(***************************************************************************)
(* The deadline of the pool (RateLimit), for any number of workers and any *)
(* delays: no answer 429 that was taken into account is lost to a          *)
(* concurrent one, the deadline never moves back, and concurrent answers   *)
(* do not add up.                                                          *)
(*                                                                         *)
(* The workers with their clients (Polling): they use the deadline as      *)
(* RateLimit says they do, so what is proved there holds of them; the      *)
(* pause that an answer 429 asks for is kept; and a pause is broken only   *)
(* by the requests of one call of each worker.                             *)
(***************************************************************************)
EXTENDS Polling, TLAPS

THEOREM InitInvariant == Init => IInv
  BY DelaysAssumption, TimeAssumption
  DEF Init, IInv, TypeOK, DeadlineKept, PauseIsBounded, WriteIsBounded

\* What one answer 429 asks for is a delay within the bound.
LEMMA DelayIsBounded ==
  ASSUME NEW d \in RetryAfter
  PROVE  Delay(d) \in Nat /\ Delay(d) =< Longest
  BY DelaysAssumption DEF Delay

\* A sum that wraps around is a time in the past.
LEMMA WrapIsBounded ==
  ASSUME NEW n \in Nat
  PROVE  Wrap(n) \in Int /\ Wrap(n) =< n
  BY WidthAssumption DEF Wrap

\* One step preserves the invariant and does not move the deadline back: the
\* swap writes only over the value that LoadDeadline compared with.
LEMMA StepInvariant ==
  ASSUME IInv, [Next]_vars
  PROVE  IInv' /\ until =< until'
<1> USE DEF IInv, TypeOK, DeadlineKept, PauseIsBounded, WriteIsBounded
<1>1. ASSUME NEW w \in Workers, ReadDeadline(w)
      PROVE  IInv' /\ until =< until'
  <2>1. /\ wake' = [wake EXCEPT ![w] = until] /\ pc' = [pc EXCEPT ![w] = "wait"]
        /\ UNCHANGED <<now, ctx, until, newUntil, current>>
    BY <1>1 DEF ReadDeadline, Goto
  <2>2. TypeOK' /\ DeadlineKept' /\ PauseIsBounded'
    BY <1>1, <2>1 DEF ReadDeadline
  <2>3. WriteIsBounded'
    BY <2>1
  <2> QED BY <2>1, <2>2, <2>3
<1>2. ASSUME NEW w \in Workers, Wake(w)
      PROVE  IInv' /\ until =< until'
  BY <1>2, DelaysAssumption, TimeAssumption DEF Wake, Goto
<1>3. ASSUME NEW w \in Workers, Answered(w)
      PROVE  IInv' /\ until =< until'
  BY <1>3 DEF Answered, Goto
<1>4. ASSUME NEW w \in Workers, NEW d \in RetryAfter, RateLimited(w, d)
      PROVE  IInv' /\ until =< until'
  <2> DEFINE new == Wrap(now + Delay(d))
  <2>1. /\ newUntil' = [newUntil EXCEPT ![w] = new]
        /\ pc' = [pc EXCEPT ![w] = "load"]
        /\ UNCHANGED <<now, ctx, until, wake, current>>
    BY <1>4 DEF RateLimited, Goto
  <2>2. new \in Int /\ new =< now + Longest
    <3>1. now + Delay(d) \in Nat /\ now + Delay(d) =< now + Longest
      BY DelayIsBounded, DelaysAssumption, TimeAssumption
    <3> QED BY <3>1, WrapIsBounded, DelaysAssumption, TimeAssumption
  <2> HIDE DEF new
  <2>3. TypeOK'
    BY <2>1, <2>2
  <2>4. DeadlineKept' /\ PauseIsBounded'
    BY <2>1, DelaysAssumption
  <2>5. WriteIsBounded'
    BY <2>1, <2>2, DelaysAssumption
  <2> QED BY <2>1, <2>3, <2>4, <2>5
<1>5. ASSUME NEW w \in Workers, LoadDeadline(w)
      PROVE  IInv' /\ until =< until'
  <2>1. CASE newUntil[w] =< until
    BY <1>5, <2>1 DEF LoadDeadline, Goto
  <2>2. CASE ~(newUntil[w] =< until)
    BY <1>5, <2>2 DEF LoadDeadline, Goto
  <2> QED BY <2>1, <2>2
<1>6. ASSUME NEW w \in Workers, CompareAndSwap(w)
      PROVE  IInv' /\ until =< until'
  <2>1. CASE until = current[w]
    <3>1. /\ until' = newUntil[w]
          /\ pc' = [pc EXCEPT ![w] = "idle"]
          /\ current' = [current EXCEPT ![w] = 0]
          /\ UNCHANGED <<now, ctx, wake, newUntil>>
          /\ until < newUntil[w]
      BY <1>6, <2>1 DEF CompareAndSwap, Goto
    <3> QED BY <3>1
  <2>2. CASE until # current[w]
    BY <1>6, <2>2 DEF CompareAndSwap, Goto
  <2> QED BY <2>1, <2>2
<1>7. ASSUME Tick
      PROVE  IInv' /\ until =< until'
  BY <1>7, DelaysAssumption, TimeAssumption DEF Tick
<1>8. ASSUME Cancel
      PROVE  IInv' /\ until =< until'
  BY <1>8 DEF Cancel
<1>9. ASSUME UNCHANGED vars
      PROVE  IInv' /\ until =< until'
  BY <1>9 DEF vars
<1> QED BY <1>1, <1>2, <1>3, <1>4, <1>5, <1>6, <1>7, <1>8, <1>9
        DEF Next, WaitRateLimit, SetRateLimit

THEOREM Invariance == Spec => []IInv
  BY InitInvariant, StepInvariant, PTL DEF Spec

\* Every variable has its type.
THEOREM TypeCorrect == Spec => []TypeOK
  BY Invariance, PTL DEF IInv

\* "The latest of the deadlines of concurrent writes is kept"
\* (internal/order/worker.go:273), whatever compare-and-swaps fail.
THEOREM LatestIsKept == Spec => []DeadlineKept
  BY Invariance, PTL DEF IInv

\* The pause ahead is never longer than one answer 429 can ask for.
THEOREM PauseBounded == Spec => []PauseIsBounded
  BY Invariance, PTL DEF IInv

\* setRateLimit only ever moves the deadline into the future.
THEOREM DeadlineMonotone == Spec => DeadlineGrows
<1>1. IInv /\ [Next]_vars => [until =< until']_vars
  BY StepInvariant
<1> QED BY <1>1, Invariance, PTL DEF Spec, DeadlineGrows

\* A worker sleeps no longer than one answer 429 can ask for, also when others
\* move the deadline while it sleeps.
THEOREM WaitBounded == Spec => []WaitIsBounded
<1>1. IInv => WaitIsBounded
  BY DEF IInv, WriteIsBounded, WaitIsBounded
<1> QED BY <1>1, Invariance, PTL

\* The loop of setRateLimit is lock-free: whoever fails to swap was overtaken
\* by a worker whose swap moved the deadline on.
THEOREM SwapsProgress == Spec => SwapFailsForward
<1>1. ASSUME IInv, [Next]_vars, NEW w \in Workers, pc[w] = "swap", pc'[w] = "load"
      PROVE  current[w] < until
  <2>1. current[w] \in Nat /\ until \in Nat /\ current[w] =< until
    BY <1>1 DEF IInv, TypeOK, WriteIsBounded
  <2>2. until # current[w]
    <3>1. ASSUME NEW v \in Workers, NEW l, Goto(v, l) PROVE v = w
      <4>1. pc' = [pc EXCEPT ![v] = l] /\ pc \in [Workers -> {"idle", "wait", "poll", "load", "swap"}]
        BY <1>1, <3>1 DEF Goto, IInv, TypeOK
      <4> QED BY <1>1, <4>1
    <3>2. PICK v \in Workers : ReadDeadline(v) \/ Wake(v) \/ Answered(v) \/ LoadDeadline(v)
                               \/ CompareAndSwap(v) \/ \E d \in RetryAfter : RateLimited(v, d)
      BY <1>1 DEF Next, WaitRateLimit, SetRateLimit, Tick, Cancel, vars
    <3>3. v = w
      BY <3>1, <3>2 DEF ReadDeadline, Wake, Answered, LoadDeadline, CompareAndSwap, RateLimited
    <3>4. CompareAndSwap(w)
      BY <1>1, <3>2, <3>3 DEF ReadDeadline, Wake, Answered, LoadDeadline, RateLimited
    <3>5. CASE until = current[w]
      BY <1>1, <3>4, <3>5 DEF CompareAndSwap, Goto, IInv, TypeOK
    <3> QED BY <3>5
  <2> QED BY <2>1, <2>2
<1>2. IInv /\ [Next]_vars =>
        [\A w \in Workers : pc[w] = "swap" /\ pc'[w] = "load" => current[w] < until]_vars
  BY <1>1
<1> QED BY <1>2, Invariance, PTL DEF Spec, SwapFailsForward

-----------------------------------------------------------------------------

\* What the type of the two parts says, name by name.
CallTypes ==
  /\ phase   \in [Workers -> {"idle", "ready", "sent", "backoff", "done"}]
  /\ attempt \in [Workers -> 0 .. RetryMax + 1]
  /\ result  \in [Workers -> Client!Results \union {Client!None}]

\* A call that may send has not used up its requests.
AttemptLeft ==
  \A w \in Workers :
    /\ phase[w] = "idle" => attempt[w] = 0
    /\ phase[w] \in {"ready", "backoff"} => attempt[w] =< RetryMax

\* A worker that waits read the present deadline, or it has sent nothing since
\* that was set; so while it polls, what it sent early it sent in this call.
EarlyIsOfThisCall ==
  \A w \in Workers :
    /\ early[w] =< RetryMax + 1
    /\ pc[w] = "wait" => wake[w] = until \/ early[w] = 0
    /\ pc[w] = "poll" /\ ctx = "live" /\ now < until => early[w] =< attempt[w]

\* What setRateLimit is to write is what the answer asked for.
AskedIsWritten ==
  \A w \in Workers : asked[w] < Half => asked[w] =< newUntil[w] \/ asked[w] = 0

PollInv == /\ IInv /\ PollTypeOK /\ CallTypes /\ AttemptLeft
           /\ EarlyIsOfThisCall /\ AskedIsWritten

-----------------------------------------------------------------------------
\* The remainder of a number that fits is the number.
LEMMA ModOfSmall ==
  ASSUME NEW a \in Nat, NEW b \in Nat, a < b
  PROVE  a % b = a
  OBVIOUS

\* A header that asks for a time that fits into 64 bits gets it.
LEMMA ParseOfSmall ==
  ASSUME NEW h \in Nat, h > 0, h * Second < Half
  PROVE  Client!ParseRetryAfter(h) = h * Second
<1>1. h =< h * Second /\ h * Second \in Nat /\ h # NoHeader
  BY HeadersAssumption
<1>2. h \in (-Half) .. (Half - 1)
  BY <1>1, WidthAssumption
<1>3. h * Second + Half \in Nat /\ h * Second + Half < 2 * Half
  BY <1>1, WidthAssumption
<1>4. (h * Second + Half) % (2 * Half) = h * Second + Half
  BY <1>3, ModOfSmall, WidthAssumption
<1> QED BY <1>1, <1>2, <1>4, WidthAssumption DEF Client!ParseRetryAfter

\* The delay that goes from the client to setRateLimit is one of RetryAfter.
LEMMA ResultIsDelay ==
  ASSUME CallTypes, NEW w \in Workers
  PROVE  /\ result[w].header \in Headers
         /\ Client!ParseRetryAfter(result[w].header) \in RetryAfter
  BY HeadersAssumption DEF CallTypes, Client!Results, Client!None

\* A worker with its client takes the steps that RateLimit allows.
LEMMA StepIsRateLimit ==
  ASSUME CallTypes, [PollNext]_pollVars
  PROVE  [Next]_vars
<1>1. ASSUME NEW w \in Workers, Step(w)
      PROVE  [Next]_vars
  <2>1. CASE Pause(w)
    BY <2>1 DEF Pause, Next, WaitRateLimit
  <2>2. CASE StartPoll(w)
    BY <2>2 DEF StartPoll, Next, WaitRateLimit
  <2>3. CASE Request(w) \/ Receive(w)
    BY <2>3 DEF Request, Receive
  <2>4. CASE EndPoll(w)
    BY <2>4, ResultIsDelay DEF EndPoll, Next
  <2>5. CASE SetLimit(w)
    BY <2>5 DEF SetLimit, Next
  <2> QED BY <1>1, <2>1, <2>2, <2>3, <2>4, <2>5 DEF Step
<1>2. CASE Tick \/ Cancel
  BY <1>2 DEF Next
<1>3. CASE UNCHANGED pollVars
  BY <1>3 DEF pollVars
<1> QED BY <1>1, <1>2, <1>3 DEF PollNext

THEOREM InitPollInv == PollInit => PollInv
<1> SUFFICES ASSUME PollInit PROVE PollInv
  OBVIOUS
<1>1. IInv
  BY InitInvariant DEF PollInit
<1>2. CallTypes /\ AttemptLeft
  BY HeadersAssumption DEF PollInit, Client!Init, CallTypes, AttemptLeft
<1>3. PollTypeOK
  BY <1>1, <1>2 DEF PollInit, Init, Client!Init, IInv, CallTypes, PollTypeOK, Client!TypeOK
<1>4. EarlyIsOfThisCall
  <2>1. 0 =< RetryMax + 1
    BY HeadersAssumption
  <2>2. \A w \in Workers : early[w] = 0 /\ pc[w] \notin {"wait", "poll"}
    BY DEF PollInit, Init
  <2>3. \A w \in Workers : early[w] =< RetryMax + 1
    BY <2>1, <2>2
  <2> QED BY <2>2, <2>3 DEF EarlyIsOfThisCall
<1>5. AskedIsWritten
  BY HeadersAssumption DEF PollInit, AskedIsWritten
<1> QED BY <1>1, <1>2, <1>3, <1>4, <1>5 DEF PollInv

-----------------------------------------------------------------------------
\* The steps of the workers alone.
LEMMA PauseStep ==
  ASSUME PollInv, NEW w \in Workers, Pause(w)
  PROVE  PollTypeOK' /\ CallTypes' /\ AttemptLeft' /\ EarlyIsOfThisCall' /\ AskedIsWritten'
<1> USE DEF PollInv
<1>1. /\ wake' = [wake EXCEPT ![w] = until]
      /\ pc' = [pc EXCEPT ![w] = "wait"]
      /\ pc[w] = "idle"
      /\ UNCHANGED <<now, ctx, until, newUntil, current, phase, attempt, result, asked, early>>
  BY DEF Pause, ReadDeadline, Goto, calls
<1>2. CallTypes' /\ AttemptLeft' /\ AskedIsWritten'
  BY <1>1 DEF CallTypes, AttemptLeft, AskedIsWritten
<1>3. PollTypeOK'
  <2>1. TypeOK' /\ Client!TypeOK'
    BY <1>1, <1>2 DEF PollTypeOK, TypeOK, CallTypes, Client!TypeOK
  <2> QED BY <1>1, <2>1 DEF PollTypeOK, TypeOK
<1>4. EarlyIsOfThisCall'
  BY <1>1 DEF EarlyIsOfThisCall, PollTypeOK, TypeOK
<1> QED BY <1>2, <1>3, <1>4

LEMMA StartPollStep ==
  ASSUME PollInv, NEW w \in Workers, StartPoll(w)
  PROVE  PollTypeOK' /\ CallTypes' /\ AttemptLeft' /\ EarlyIsOfThisCall' /\ AskedIsWritten'
<1> USE DEF PollInv
<1>1. /\ wake' = [wake EXCEPT ![w] = 0]
      /\ pc' = [pc EXCEPT ![w] = "poll"]
      /\ pc[w] = "wait" /\ (wake[w] =< now \/ ctx = "cancelled")
      /\ phase[w] = "idle" /\ phase' = [phase EXCEPT ![w] = "ready"]
      /\ UNCHANGED <<now, ctx, until, newUntil, current, attempt, result, asked, early>>
  BY DEF StartPoll, Wake, Goto, Client!GetOrderInfo
<1>2. CallTypes' /\ AskedIsWritten'
  BY <1>1 DEF CallTypes, AskedIsWritten
<1>3. AttemptLeft'
  BY <1>1, HeadersAssumption DEF CallTypes, AttemptLeft
<1>4. PollTypeOK'
  <2>1. TypeOK' /\ Client!TypeOK'
    BY <1>1, <1>2 DEF PollTypeOK, TypeOK, CallTypes, Client!TypeOK
  <2> QED BY <1>1, <2>1 DEF PollTypeOK, TypeOK, CallTypes
<1>5. ctx = "live" /\ now < until => early[w] = 0
  BY <1>1 DEF EarlyIsOfThisCall, PollTypeOK, TypeOK
<1>6. attempt[w] \in Nat
  BY HeadersAssumption DEF CallTypes
<1>7. EarlyIsOfThisCall'
  BY <1>1, <1>5, <1>6 DEF EarlyIsOfThisCall, PollTypeOK, TypeOK
<1> QED BY <1>2, <1>3, <1>4, <1>7

\* The steps of the client, which change no variable of RateLimit.
LEMMA RequestStep ==
  ASSUME PollInv, NEW w \in Workers, Request(w)
  PROVE  PollTypeOK' /\ CallTypes' /\ AttemptLeft' /\ EarlyIsOfThisCall' /\ AskedIsWritten'
<1> USE DEF PollInv
<1>1. /\ UNCHANGED <<now, ctx, until, pc, wake, newUntil, current, asked>>
      /\ phase[w] = "ready"
      /\ attempt' = [attempt EXCEPT ![w] = attempt[w] + 1]
      /\ early' = [early EXCEPT ![w] = IF ctx = "live" /\ now < until
                                       THEN early[w] + 1 ELSE early[w]]
  BY DEF Request, Client!Send, vars
<1>2. \/ phase' = [phase EXCEPT ![w] = "sent"] /\ result' = result
      \/ /\ phase' = [phase EXCEPT ![w] = "done"]
         /\ result' = [result EXCEPT ![w] = [kind |-> "server", header |-> NoHeader]]
  BY DEF Request, Client!Send, Client!GivesUp, Client!Returns
<1>3. RetryMax \in Nat /\ NoHeader \in Headers
  BY HeadersAssumption
<1>4. attempt[w] \in Nat /\ attempt[w] =< RetryMax
  BY <1>1, <1>3 DEF CallTypes, AttemptLeft
<1>5. CallTypes'
  <2>1. attempt' \in [Workers -> 0 .. RetryMax + 1]
    BY <1>1, <1>3, <1>4 DEF CallTypes
  <2>2. phase' \in [Workers -> {"idle", "ready", "sent", "backoff", "done"}]
    BY <1>2 DEF CallTypes
  <2>3. result' \in [Workers -> Client!Results \union {Client!None}]
    BY <1>2, <1>3 DEF CallTypes, Client!Results
  <2> QED BY <2>1, <2>2, <2>3 DEF CallTypes, Client!Results, Client!None
<1>6. phase'[w] # "idle" /\ phase'[w] \notin {"ready", "backoff"}
  BY <1>2 DEF CallTypes
<1>7. \A v \in Workers \ {w} : phase'[v] = phase[v] /\ attempt'[v] = attempt[v]
  BY <1>1, <1>2 DEF CallTypes
<1>8. AttemptLeft'
  BY <1>6, <1>7 DEF AttemptLeft
<1>9. early[w] \in Nat /\ early'[w] \in Nat
  BY <1>1 DEF PollTypeOK
<1>10. PollTypeOK'
  <2>1. TypeOK' /\ Client!TypeOK'
    BY <1>1, <1>5 DEF PollTypeOK, TypeOK, CallTypes, Client!TypeOK
  <2>2. early' \in [Workers -> Nat] /\ asked' \in [Workers -> Nat]
    BY <1>1 DEF PollTypeOK
  <2> QED BY <1>1, <1>6, <1>7, <2>1, <2>2 DEF PollTypeOK
<1>11. EarlyIsOfThisCall'
  <2>1. early'[w] =< RetryMax + 1
    BY <1>1, <1>3, <1>4, <1>9 DEF EarlyIsOfThisCall, PollTypeOK
  <2>2. attempt'[w] = attempt[w] + 1 /\ pc'[w] = "poll"
    BY <1>1 DEF CallTypes, PollTypeOK
  <2>3. ctx = "live" /\ now < until => early'[w] =< attempt'[w]
    BY <1>1, <1>4, <1>9, <2>2 DEF EarlyIsOfThisCall, PollTypeOK
  <2>4. \A v \in Workers \ {w} : early'[v] = early[v]
    BY <1>1 DEF PollTypeOK
  <2> QED BY <1>1, <1>7, <2>1, <2>2, <2>3, <2>4 DEF EarlyIsOfThisCall
<1>12. AskedIsWritten'
  BY <1>1 DEF AskedIsWritten
<1> QED BY <1>5, <1>8, <1>10, <1>11, <1>12

LEMMA ReceiveStep ==
  ASSUME PollInv, NEW w \in Workers, Receive(w)
  PROVE  PollTypeOK' /\ CallTypes' /\ AttemptLeft' /\ EarlyIsOfThisCall' /\ AskedIsWritten'
<1> USE DEF PollInv
<1>1. /\ UNCHANGED <<now, ctx, until, pc, wake, newUntil, current, asked, early, attempt>>
      /\ phase[w] \in {"sent", "backoff"}
  BY DEF Receive, Client!Exchange, Client!SentCancelled, Client!FailsTemporarily,
         Client!Answers, Client!Retry, vars
<1>2. RetryMax \in Nat /\ NoHeader \in Headers
  BY HeadersAssumption
<1>3. \/ /\ \/ \E k \in {"info", "not_found", "other", "server"} :
                  result' = [result EXCEPT ![w] = [kind |-> k, header |-> NoHeader]]
            \/ \E h \in Headers :
                  result' = [result EXCEPT ![w] = [kind |-> "rate_limited", header |-> h]]
         /\ phase' = [phase EXCEPT ![w] = "done"]
      \/ /\ result' = result
         /\ \/ phase' = [phase EXCEPT ![w] = "backoff"] /\ attempt[w] =< RetryMax
            \/ phase' = [phase EXCEPT ![w] = "ready"] /\ phase[w] = "backoff"
  BY DEF Receive, Client!Exchange, Client!SentCancelled, Client!FailsTemporarily,
         Client!Answers, Client!Retry, Client!GivesUp, Client!Returns
<1>4. CallTypes'
  <2>1. phase' \in [Workers -> {"idle", "ready", "sent", "backoff", "done"}]
    BY <1>3 DEF CallTypes
  <2>2. result' \in [Workers -> Client!Results \union {Client!None}]
    BY <1>2, <1>3 DEF CallTypes, Client!Results
  <2> QED BY <1>1, <2>1, <2>2 DEF CallTypes, Client!Results, Client!None
<1>5. /\ \A v \in Workers \ {w} : phase'[v] = phase[v]
      /\ phase'[w] # "idle"
      /\ phase'[w] \in {"ready", "backoff"} => attempt[w] =< RetryMax
  BY <1>3 DEF CallTypes, AttemptLeft
<1>6. AttemptLeft'
  BY <1>1, <1>5 DEF AttemptLeft
<1>7. PollTypeOK'
  <2>1. TypeOK' /\ Client!TypeOK'
    BY <1>1, <1>4 DEF PollTypeOK, TypeOK, CallTypes, Client!TypeOK
  <2> QED BY <1>1, <1>5, <2>1 DEF PollTypeOK
<1>8. EarlyIsOfThisCall' /\ AskedIsWritten'
  BY <1>1 DEF EarlyIsOfThisCall, AskedIsWritten
<1> QED BY <1>4, <1>6, <1>7, <1>8

-----------------------------------------------------------------------------
\* What setRateLimit is to write is not earlier than what the answer asked
\* for, unless that is beyond the end of time.
LEMMA AskedFits ==
  ASSUME now \in Nat, NEW h \in Headers, h = NoHeader \/ h \in Int, AskedUntil(h) < Half
  PROVE  \/ AskedUntil(h) = 0
         \/ AskedUntil(h) = Wrap(now + Delay(Client!ParseRetryAfter(h)))
<1>1. CASE h = NoHeader
  <2>1. Client!ParseRetryAfter(h) = 0 /\ AskedUntil(h) = now + Backoff
    BY <1>1, HeadersAssumption DEF Client!ParseRetryAfter, AskedUntil
  <2>2. Delay(0) = Backoff
    BY DEF Delay
  <2> QED BY <2>1, <2>2 DEF Wrap
<1>2. CASE h \in Int /\ h > 0
  <2>1. h # NoHeader /\ h * Second \in Nat /\ h * Second > 0
    BY <1>2, HeadersAssumption
  <2>2. AskedUntil(h) = now + h * Second
    BY <1>2, <2>1 DEF AskedUntil
  <2>3. h * Second < Half
    BY <2>1, <2>2, WidthAssumption
  <2>4. Client!ParseRetryAfter(h) = h * Second
    BY <1>2, <2>3, ParseOfSmall
  <2>5. Delay(h * Second) = h * Second
    BY <2>1 DEF Delay
  <2> QED BY <2>2, <2>4, <2>5 DEF Wrap
<1>3. CASE h \in Int /\ ~(h > 0)
  BY <1>3, HeadersAssumption DEF AskedUntil
<1> QED BY <1>1, <1>2, <1>3

LEMMA EndPollStep ==
  ASSUME PollInv, IInv', NEW w \in Workers, EndPoll(w)
  PROVE  PollTypeOK' /\ CallTypes' /\ AttemptLeft' /\ EarlyIsOfThisCall' /\ AskedIsWritten'
<1> USE DEF PollInv
<1> DEFINE h == result[w].header
<1>1. /\ UNCHANGED <<now, ctx, until, wake, current, early>>
      /\ phase' = [phase EXCEPT ![w] = "idle"]
      /\ attempt' = [attempt EXCEPT ![w] = 0]
      /\ result' = [result EXCEPT ![w] = Client!None]
      /\ pc[w] = "poll"
  BY DEF EndPoll, RateLimited, Answered, Client!Return
<1>2. \/ /\ pc' = [pc EXCEPT ![w] = "idle"]
         /\ UNCHANGED <<newUntil, asked>>
      \/ /\ pc' = [pc EXCEPT ![w] = "load"]
         /\ newUntil' = [newUntil EXCEPT ![w] = Wrap(now + Delay(Client!ParseRetryAfter(h)))]
         /\ asked' = [asked EXCEPT ![w] = AskedUntil(h)]
  BY DEF EndPoll, RateLimited, Answered, Goto
<1>3. RetryMax \in Nat /\ h \in Headers /\ (h = NoHeader \/ h \in Int)
  BY HeadersAssumption, ResultIsDelay
<1>4. CallTypes' /\ AttemptLeft'
  BY <1>1, <1>3 DEF CallTypes, AttemptLeft
<1>5. TypeOK' /\ Client!TypeOK'
  BY <1>4 DEF IInv, CallTypes, Client!TypeOK
<1>6. now \in Nat /\ AskedUntil(h) \in Nat
  BY <1>3, HeadersAssumption, DelaysAssumption, TimeAssumption
  DEF AskedUntil, PollTypeOK, TypeOK
<1>7. PollTypeOK'
  <2>1. early' \in [Workers -> Nat]
    BY <1>1 DEF PollTypeOK
  <2>2. asked' \in [Workers -> Nat]
    BY <1>2, <1>6 DEF PollTypeOK
  <2>3. \A v \in Workers : pc'[v] = "poll" <=> phase'[v] # "idle"
    BY <1>1, <1>2 DEF PollTypeOK, TypeOK, CallTypes
  <2> QED BY <1>5, <2>1, <2>2, <2>3 DEF PollTypeOK
<1>8. EarlyIsOfThisCall'
  BY <1>1, <1>2 DEF EarlyIsOfThisCall, PollTypeOK, TypeOK, CallTypes
<1>9. AskedIsWritten'
  <2>1. CASE UNCHANGED <<newUntil, asked>>
    BY <2>1 DEF AskedIsWritten
  <2>2. CASE /\ newUntil' = [newUntil EXCEPT ![w] = Wrap(now + Delay(Client!ParseRetryAfter(h)))]
             /\ asked' = [asked EXCEPT ![w] = AskedUntil(h)]
    <3>1. asked'[w] = AskedUntil(h) /\ newUntil'[w] = Wrap(now + Delay(Client!ParseRetryAfter(h)))
      BY <2>2 DEF PollTypeOK, TypeOK
    <3>2. asked'[w] < Half => asked'[w] = 0 \/ asked'[w] = newUntil'[w]
      BY <1>3, <1>6, <3>1, AskedFits
    <3>3. \A v \in Workers \ {w} : asked'[v] = asked[v] /\ newUntil'[v] = newUntil[v]
      BY <2>2 DEF PollTypeOK, TypeOK
    <3>4. asked'[w] \in Nat
      BY <1>6, <3>1
    <3> QED BY <3>2, <3>3, <3>4 DEF AskedIsWritten
  <2> QED BY <1>2, <2>1, <2>2
<1> QED BY <1>4, <1>7, <1>8, <1>9

LEMMA SetLimitStep ==
  ASSUME PollInv, IInv', NEW w \in Workers, SetLimit(w)
  PROVE  PollTypeOK' /\ CallTypes' /\ AttemptLeft' /\ EarlyIsOfThisCall' /\ AskedIsWritten'
<1> USE DEF PollInv
<1>1. /\ UNCHANGED <<now, ctx, wake, newUntil, phase, attempt, result, asked>>
      /\ pc[w] \in {"load", "swap"}
      /\ pc' = [pc EXCEPT ![w] = "idle"] \/ pc' = [pc EXCEPT ![w] = "load"]
           \/ pc' = [pc EXCEPT ![w] = "swap"]
  BY DEF SetLimit, SetRateLimit, LoadDeadline, CompareAndSwap, Goto, calls
<1>2. \/ UNCHANGED <<until, early>>
      \/ early' = [v \in Workers |-> 0]
  BY DEF SetLimit
<1>3. CallTypes' /\ AttemptLeft' /\ AskedIsWritten'
  BY <1>1 DEF CallTypes, AttemptLeft, AskedIsWritten
<1>4. PollTypeOK'
  <2>1. TypeOK' /\ Client!TypeOK'
    BY <1>3 DEF IInv, CallTypes, Client!TypeOK
  <2>2. early' \in [Workers -> Nat]
    BY <1>2 DEF PollTypeOK
  <2>3. asked' \in [Workers -> Nat]
    BY <1>1 DEF PollTypeOK
  <2>4. \A v \in Workers : pc'[v] = "poll" <=> phase'[v] # "idle"
    BY <1>1 DEF PollTypeOK, TypeOK
  <2> QED BY <2>1, <2>2, <2>3, <2>4 DEF PollTypeOK
<1>5. EarlyIsOfThisCall'
  <2>1. RetryMax \in Nat /\ \A v \in Workers : attempt[v] \in Nat
    BY HeadersAssumption DEF CallTypes
  <2>2. \A v \in Workers : pc'[v] \in {"wait", "poll"} => pc'[v] = pc[v]
    BY <1>1 DEF PollTypeOK, TypeOK
  <2>3. CASE UNCHANGED <<until, early>>
    BY <1>1, <2>2, <2>3 DEF EarlyIsOfThisCall
  <2>4. CASE early' = [v \in Workers |-> 0]
    <3>1. \A v \in Workers : early'[v] = 0 /\ early'[v] =< RetryMax + 1 /\ early'[v] =< attempt'[v]
      BY <1>1, <2>1, <2>4
    <3> QED BY <3>1 DEF EarlyIsOfThisCall
  <2> QED BY <1>2, <2>3, <2>4
<1> QED BY <1>3, <1>4, <1>5

\* Time passes, a signal comes, or nothing happens.
LEMMA ClockStep ==
  ASSUME PollInv, IInv',
         \/ (Tick \/ Cancel) /\ UNCHANGED <<calls, asked, early>>
         \/ UNCHANGED pollVars
  PROVE  PollTypeOK' /\ CallTypes' /\ AttemptLeft' /\ EarlyIsOfThisCall' /\ AskedIsWritten'
<1> USE DEF PollInv
<1>1. /\ UNCHANGED <<until, pc, wake, newUntil, phase, attempt, result, asked, early>>
      /\ now' = now \/ now' = now + 1
      /\ ctx' = "live" => ctx = "live"
  BY DEF Tick, Cancel, pollVars, vars, calls
<1>2. CallTypes' /\ AttemptLeft' /\ AskedIsWritten'
  BY <1>1 DEF CallTypes, AttemptLeft, AskedIsWritten
<1>3. PollTypeOK'
  BY <1>1, <1>2 DEF IInv, PollTypeOK, CallTypes, Client!TypeOK
<1>4. now \in Nat /\ until \in Nat
  BY DEF PollTypeOK, TypeOK
<1>5. EarlyIsOfThisCall'
  BY <1>1, <1>4 DEF EarlyIsOfThisCall
<1> QED BY <1>2, <1>3, <1>5

-----------------------------------------------------------------------------
LEMMA StepPollInv ==
  ASSUME PollInv, [PollNext]_pollVars
  PROVE  PollInv'
<1>1. [Next]_vars
  BY StepIsRateLimit DEF PollInv
<1>2. IInv'
  BY <1>1, StepInvariant DEF PollInv
<1>3. ASSUME NEW w \in Workers, Step(w)
      PROVE  PollTypeOK' /\ CallTypes' /\ AttemptLeft' /\ EarlyIsOfThisCall' /\ AskedIsWritten'
  BY <1>2, <1>3, PauseStep, StartPollStep, RequestStep, ReceiveStep, EndPollStep, SetLimitStep
  DEF Step
<1>4. CASE \/ (Tick \/ Cancel) /\ UNCHANGED <<calls, asked, early>>
           \/ UNCHANGED pollVars
  BY <1>2, <1>4, ClockStep DEF PollInv
<1> QED BY <1>2, <1>3, <1>4 DEF PollNext, PollInv

THEOREM PollInvariance == PollSpec => []PollInv
  BY InitPollInv, StepPollInv, PTL DEF PollSpec

\* The workers with their clients implement the rate limit alone, so that the
\* theorems of RateLimitProofs hold of them.
THEOREM ImplementsRateLimit == PollSpec => Spec
<1>1. PollInit => Init
  BY DEF PollInit
<1>2. PollInv /\ [PollNext]_pollVars => [Next]_vars
  BY StepIsRateLimit DEF PollInv
<1> QED BY <1>1, <1>2, PollInvariance, PTL DEF PollSpec, Spec

\* A call is open exactly while its worker polls, and sends at most
\* RetryMax + 1 requests (retry.go:17).
THEOREM PollTypeCorrect == PollSpec => []PollTypeOK
  BY PollInvariance, PTL DEF PollInv

\* Concurrent answers 429 do not add up (worker.go:273).
THEOREM PollPauseBounded == PollSpec => []PauseIsBounded
  BY ImplementsRateLimit, PauseBounded, PTL

\* A pause is broken only by the requests of one call of a worker: those of
\* the call before which the worker had read the deadline (worker.go:255).
THEOREM PauseHolds == PollSpec => []PauseHoldsBut
<1>1. PollInv => PauseHoldsBut
  BY DEF PollInv, EarlyIsOfThisCall, PauseHoldsBut
<1> QED BY <1>1, PollInvariance, PTL

\* The pause an answer 429 asks for is kept, whatever the other workers do
\* (worker.go:274), if its end fits into 64 bits.
THEOREM AskedKept == PollSpec => []AskedIsKept
<1>1. PollInv => AskedIsKept
  <2> SUFFICES ASSUME PollInv, NEW w \in Workers,
                      pc[w] \notin {"load", "swap"}, asked[w] < Half
               PROVE  asked[w] =< until
    BY DEF AskedIsKept
  <2>1. newUntil[w] =< until
    BY DEF PollInv, IInv, DeadlineKept
  <2>2. asked[w] \in Nat /\ newUntil[w] \in Int /\ until \in Nat
    BY DEF PollInv, PollTypeOK, TypeOK
  <2>3. asked[w] =< newUntil[w] \/ asked[w] = 0
    BY DEF PollInv, AskedIsWritten
  <2> QED BY <2>1, <2>2, <2>3
<1> QED BY <1>1, PollInvariance, PTL
=============================================================================
