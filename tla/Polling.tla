------------------------------ MODULE Polling ------------------------------
(***************************************************************************)
(* Workers that poll the accrual system: each waits for the rate limit     *)
(* (RateLimit) and then calls the client (AccrualClient), which may send   *)
(* several requests with pauses in between.  processJob and PollOrder join *)
(* the two: an answer 429 goes from the one to the other.                  *)
(***************************************************************************)
EXTENDS RateLimit

CONSTANTS RetryMax, Headers, NoHeader, Second   \* as in AccrualClient

VARIABLES
  phase, attempt, result,   \* of the call of each worker
  asked,    \* history: the deadline a worker's last answer 429 asked for,
            \* before anything wraps around
  early     \* history: requests of a worker during the pause that ends at
            \* the present deadline

Client ==
  INSTANCE AccrualClient
  WITH Callers <- Workers, ctx <- ctx, phase <- phase, attempt <- attempt, result <- result

calls    == <<phase, attempt, result>>
pollVars == <<vars, calls, asked, early>>

\* RetryAfter of RateLimit is what the client makes of the headers.
ASSUME HeadersAssumption ==
  /\ Headers \subseteq Int \union {NoHeader}
  /\ NoHeader \in Headers /\ NoHeader \notin Int
  /\ RetryMax \in Nat /\ Second \in Nat \ {0}
  /\ RetryAfter = {Client!ParseRetryAfter(h) : h \in Headers}

\* What an answer 429 asks for; a number below 1 asks for nothing.
AskedUntil(h) ==
  IF h = NoHeader THEN now + Backoff ELSE IF h > 0 THEN now + h * Second ELSE 0

-----------------------------------------------------------------------------
Pause(w) == ReadDeadline(w) /\ UNCHANGED <<calls, asked, early>>

\* PollOrder calls the client when waitRateLimit returns.
StartPoll(w) == Wake(w) /\ Client!GetOrderInfo(w) /\ UNCHANGED <<asked, early>>

\* The client knows nothing of the deadline.
Request(w) ==
  /\ Client!Send(w)
  /\ early' = [early EXCEPT ![w] = IF ctx = "live" /\ now < until THEN @ + 1 ELSE @]
  /\ UNCHANGED <<vars, asked>>

Receive(w) == Client!Exchange(w) /\ UNCHANGED <<vars, asked, early>>

\* PollOrder and the switch of processJob.
EndPoll(w) ==
  /\ IF result[w].kind = "rate_limited"
     THEN /\ RateLimited(w, Client!ParseRetryAfter(result[w].header))
          /\ asked' = [asked EXCEPT ![w] = AskedUntil(result[w].header)]
     ELSE Answered(w) /\ UNCHANGED asked
  /\ Client!Return(w)
  /\ UNCHANGED early

SetLimit(w) ==
  /\ SetRateLimit(w)
  /\ early' = IF until' = until THEN early ELSE [v \in Workers |-> 0]
  /\ UNCHANGED <<calls, asked>>

PollInit ==
  /\ Init /\ Client!Init
  /\ asked = [w \in Workers |-> 0]
  /\ early = [w \in Workers |-> 0]

Step(w) ==
  Pause(w) \/ StartPoll(w) \/ Request(w) \/ Receive(w) \/ EndPoll(w) \/ SetLimit(w)

PollNext ==
  \/ \E w \in Workers : Step(w)
  \/ (Tick \/ Cancel) /\ UNCHANGED <<calls, asked, early>>

PollSpec == PollInit /\ [][PollNext]_pollVars

\* Workers are scheduled, time passes and an attempt is answered or times out
\* (Config.Timeout).
Fairness ==
  /\ WF_pollVars(Tick /\ UNCHANGED <<calls, asked, early>>)
  /\ \A w \in Workers :
       WF_pollVars(StartPoll(w) \/ Request(w) \/ Receive(w) \/ EndPoll(w) \/ SetLimit(w))

FairPollSpec == PollSpec /\ Fairness

-----------------------------------------------------------------------------
\* Every variable has its type, and a call is open exactly while its worker polls.
PollTypeOK ==
  /\ TypeOK /\ Client!TypeOK
  /\ asked \in [Workers -> Nat]
  /\ early \in [Workers -> Nat]
  /\ \A w \in Workers : pc[w] = "poll" <=> phase[w] # "idle"

\* The pause an answer 429 asks for is kept, as long as its end fits into 64
\* bits (client.go:133, worker.go:278): it is not lost to a concurrent answer
\* or to a failed compare-and-swap.
AskedIsKept ==
  \A w \in Workers :
    pc[w] \notin {"load", "swap"} /\ asked[w] < Half => asked[w] =< until

\* "Pause for all workers" (docs/accrual-client.md:127).  A worker reads the
\* deadline once, and its client repeats a request without looking at it, so
\* requests do leave during a pause; but only those of the one call that had
\* its deadline read before.
PauseHoldsBut ==
  \A w \in Workers : early[w] =< RetryMax + 1

\* A worker comes out of its wait, its call and the loop of setRateLimit,
\* unless the deadline it waits for lies beyond the end of the instance.
WorkerResumes ==
  \A w \in Workers :
    pc[w] # "idle" /\ wake[w] =< MaxTime ~> pc[w] = "idle"
=============================================================================
