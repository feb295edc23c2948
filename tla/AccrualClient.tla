--------------------------- MODULE AccrualClient ---------------------------
(***************************************************************************)
(* One call of GetOrderInfo (pkg/accrualclient) per caller: the requests   *)
(* it sends, when it sends another one, and what it returns.               *)
(*                                                                         *)
(*   idle -> ready -> sent -> done -> idle                                 *)
(*                    sent -> backoff -> ready                             *)
(*                                                                         *)
(* The loop over the attempts is go-retryablehttp's, external, driven by   *)
(* accrualCheckRetry.  A number is never empty here: numbers come from     *)
(* rows, and the handler stores no empty one.                              *)
(*                                                                         *)
(* A definition marked "Variant" is a faulty form of the one after it, to  *)
(* show that a property notices the difference.  Nothing uses it.          *)
(***************************************************************************)
EXTENDS Integers

CONSTANTS
  Callers,
  RetryMax,     \* 3: the program leaves Config.RetryMax at 0
  Headers,      \* the integers and NoHeader: values of Retry-After
  NoHeader,     \* no header, or one that is no integer
  Second,       \* time.Second
  Half          \* 2^63: integers are in -Half .. Half - 1

VARIABLES
  ctx,          \* the context of the calls, "live" or "cancelled"
  phase,
  attempt,      \* requests of the call so far
  result        \* what the call returns, when it is done

calls == <<phase, attempt, result>>

None == [kind |-> "none", header |-> NoHeader]

Results == [kind : {"info", "not_found", "rate_limited", "server", "other"},
            header : Headers]

\* strconv.Atoi refuses what does not fit; the product wraps around.
ParseRetryAfter(header) ==
  IF header = NoHeader THEN 0
  ELSE IF header \notin (-Half) .. (Half - 1) THEN 0
  ELSE ((header * Second + Half) % (2 * Half)) - Half

\* The call is over: what GetOrderInfo makes of an answer or of an error.
Returns(c, kind, header) ==
  /\ phase'  = [phase EXCEPT ![c] = "done"]
  /\ result' = [result EXCEPT ![c] = [kind |-> kind, header |-> header]]

\* "giving up after ... attempt(s)" is read as ErrServer: also after a single
\* attempt, when the context was cancelled.
GivesUp(c) == Returns(c, "server", NoHeader)

-----------------------------------------------------------------------------
GetOrderInfo(c) ==
  /\ phase[c] = "idle"
  /\ phase' = [phase EXCEPT ![c] = "ready"]
  /\ UNCHANGED <<ctx, attempt, result>>

\* An attempt: a request, or an error at once when ctx is cancelled, which
\* accrualCheckRetry does not retry.
Send(c) ==
  /\ phase[c] = "ready"
  /\ attempt' = [attempt EXCEPT ![c] = @ + 1]
  /\ IF ctx = "live"
     THEN phase' = [phase EXCEPT ![c] = "sent"] /\ UNCHANGED result
     ELSE GivesUp(c)
  /\ UNCHANGED ctx

\* Whatever comes after ctx was cancelled is an error, not retried.
SentCancelled(c) ==
  /\ phase[c] = "sent"
  /\ ctx = "cancelled"
  /\ GivesUp(c)
  /\ UNCHANGED <<ctx, attempt>>

\* Variant: retried for ever.
FailsTemporarilyEndless(c) ==
  /\ phase[c] = "sent"
  /\ ctx = "live"
  /\ phase' = [phase EXCEPT ![c] = "backoff"]
  /\ UNCHANGED <<ctx, attempt, result>>

\* A network error, a timeout of the attempt, or 500.
FailsTemporarily(c) ==
  /\ phase[c] = "sent"
  /\ ctx = "live"
  /\ IF attempt[c] =< RetryMax
     THEN phase' = [phase EXCEPT ![c] = "backoff"] /\ UNCHANGED result
     ELSE GivesUp(c)
  /\ UNCHANGED <<ctx, attempt>>

\* Any other answer is final.  "other" is an unexpected code, or a body that
\* cannot be read or decoded.
Answers(c) ==
  /\ phase[c] = "sent"
  /\ ctx = "live"
  /\ \/ \E kind \in {"info", "not_found", "other"} : Returns(c, kind, NoHeader)
     \/ \E h \in Headers : Returns(c, "rate_limited", h)
  /\ UNCHANGED <<ctx, attempt>>

\* The pause between two attempts ends, or is cut short.
Retry(c) ==
  /\ phase[c] = "backoff"
  /\ \/ phase' = [phase EXCEPT ![c] = "ready"] /\ UNCHANGED result
     \/ ctx = "cancelled" /\ Returns(c, "other", NoHeader)
  /\ UNCHANGED <<ctx, attempt>>

\* The caller has its result.
Return(c) ==
  /\ phase[c] = "done"
  /\ phase'   = [phase   EXCEPT ![c] = "idle"]
  /\ attempt' = [attempt EXCEPT ![c] = 0]
  /\ result'  = [result  EXCEPT ![c] = None]
  /\ UNCHANGED ctx

Init ==
  /\ phase   = [c \in Callers |-> "idle"]
  /\ attempt = [c \in Callers |-> 0]
  /\ result  = [c \in Callers |-> None]

Exchange(c) == SentCancelled(c) \/ FailsTemporarily(c) \/ Answers(c) \/ Retry(c)

-----------------------------------------------------------------------------
\* Every variable has its type; no call sends more than RetryMax + 1 requests.
TypeOK ==
  /\ phase   \in [Callers -> {"idle", "ready", "sent", "backoff", "done"}]
  /\ attempt \in [Callers -> 0 .. RetryMax + 1]
  /\ result  \in [Callers -> Results \union {None}]
=============================================================================
