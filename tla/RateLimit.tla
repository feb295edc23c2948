----------------------------- MODULE RateLimit -----------------------------
(***************************************************************************)
(* The pause after an answer 429 (waitRateLimit and setRateLimit in        *)
(* internal/order/worker.go).  The workers share one deadline, an atomic   *)
(* integer.  A worker reads it once before it polls, sleeps until the      *)
(* moment it read, and polls; an answer 429 moves the deadline with a loop *)
(* of compare-and-swap.                                                    *)
(*                                                                         *)
(*   idle -> wait -> poll -> idle                                          *)
(*                   poll -> load -> swap -> idle                          *)
(*                                                                         *)
(* Time is a number of ticks since 1970, signed and of limited width.      *)
(* What happens in "poll" is the subject of module Polling.                *)
(*                                                                         *)
(* A definition marked "Variant" is a faulty form of the one after it, to  *)
(* show that a property notices the difference.  Nothing uses it.          *)
(***************************************************************************)
EXTENDS Integers

CONSTANTS
  Workers,
  RetryAfter,       \* what an answer 429 may ask for; 0 without a usable header
  Backoff,          \* defaultRateLimitBackoff
  Longest,          \* the longest pause an answer can lead to
  Half,             \* 2^63: a time is less, and Half itself wraps to -Half
  MaxTime           \* bound: the time at which the clock stops

ASSUME DelaysAssumption ==
  /\ RetryAfter \subseteq Int
  /\ Backoff \in Nat \ {0}
  /\ Longest \in Nat
  /\ \A d \in RetryAfter \union {Backoff} : d =< Longest
ASSUME TimeAssumption == MaxTime \in Nat \ {0}
\* Delays and times fit the type they have.
ASSUME WidthAssumption == Half \in Nat /\ Longest < Half /\ MaxTime < Half

VARIABLES
  now,
  ctx,          \* the context of the pool, "live" or "cancelled"
  until,        \* rateLimitUntilUnixNano, 0 is no limit
  pc,
  wake,         \* the deadline a worker read in waitRateLimit, 0 outside it
  newUntil,     \* a worker's local of setRateLimit; keeps its last value
  current       \* likewise, 0 outside its loop

vars == <<now, ctx, until, pc, wake, newUntil, current>>

Goto(w, l) == pc' = [pc EXCEPT ![w] = l]

-----------------------------------------------------------------------------
\* waitRateLimit loads the deadline, ...
ReadDeadline(w) ==
  /\ pc[w] = "idle"
  /\ wake' = [wake EXCEPT ![w] = until]
  /\ Goto(w, "wait")
  /\ UNCHANGED <<now, ctx, until, newUntil, current>>

\* Variant: the deadline is not looked at.
WakeAtOnce(w) ==
  /\ pc[w] = "wait"
  /\ wake' = [wake EXCEPT ![w] = 0]
  /\ Goto(w, "poll")
  /\ UNCHANGED <<now, ctx, until, newUntil, current>>

\* ... sleeps if it is ahead, or until the context is cancelled, and the
\* worker polls.
Wake(w) ==
  /\ pc[w] = "wait"
  /\ wake[w] =< now \/ ctx = "cancelled"
  /\ wake' = [wake EXCEPT ![w] = 0]
  /\ Goto(w, "poll")
  /\ UNCHANGED <<now, ctx, until, newUntil, current>>

\* Any answer but 429, or none.
Answered(w) ==
  /\ pc[w] = "poll"
  /\ Goto(w, "idle")
  /\ UNCHANGED <<now, ctx, until, wake, newUntil, current>>

\* setRateLimit after an answer 429; a header may hold any integer.
Delay(retryAfter) == IF retryAfter =< 0 THEN Backoff ELSE retryAfter

\* Add(retryAfter).UnixNano() of a sum that may need one bit more.
Wrap(n) == IF n < Half THEN n ELSE n - 2 * Half

\* Variant: pauses add up.
RateLimitedAdds(w, retryAfter) ==
  /\ pc[w] = "poll"
  /\ newUntil' = [newUntil EXCEPT ![w] =
                    Wrap((IF until > now THEN until ELSE now) + Delay(retryAfter))]
  /\ Goto(w, "load")
  /\ UNCHANGED <<now, ctx, until, wake, current>>

RateLimited(w, retryAfter) ==
  /\ pc[w] = "poll"
  /\ newUntil' = [newUntil EXCEPT ![w] = Wrap(now + Delay(retryAfter))]
  /\ Goto(w, "load")
  /\ UNCHANGED <<now, ctx, until, wake, current>>

LoadDeadline(w) ==
  /\ pc[w] = "load"
  /\ IF newUntil[w] =< until
     THEN Goto(w, "idle") /\ UNCHANGED current
     ELSE Goto(w, "swap") /\ current' = [current EXCEPT ![w] = until]
  /\ UNCHANGED <<now, ctx, until, wake, newUntil>>

\* Variants: a failed swap that gives up; one that tries the same swap again.
SwapOnce(w) ==
  /\ pc[w] = "swap"
  /\ until' = IF until = current[w] THEN newUntil[w] ELSE until
  /\ current' = [current EXCEPT ![w] = 0]
  /\ Goto(w, "idle")
  /\ UNCHANGED <<now, ctx, wake, newUntil>>

SwapAgain(w) ==
  /\ pc[w] = "swap"
  /\ IF until = current[w]
     THEN /\ until' = newUntil[w]
          /\ current' = [current EXCEPT ![w] = 0]
          /\ Goto(w, "idle")
     ELSE UNCHANGED <<until, current, pc>>
  /\ UNCHANGED <<now, ctx, wake, newUntil>>

CompareAndSwap(w) ==
  /\ pc[w] = "swap"
  /\ current' = [current EXCEPT ![w] = 0]
  /\ IF until = current[w]
     THEN until' = newUntil[w] /\ Goto(w, "idle")
     ELSE Goto(w, "load") /\ UNCHANGED until
  /\ UNCHANGED <<now, ctx, wake, newUntil>>

Tick ==
  /\ now < MaxTime
  /\ now' = now + 1
  /\ UNCHANGED <<ctx, until, pc, wake, newUntil, current>>

\* A signal: the process is to stop.
Cancel ==
  /\ ctx = "live"
  /\ ctx' = "cancelled"
  /\ UNCHANGED <<now, until, pc, wake, newUntil, current>>

Init ==
  /\ now      = 1
  /\ ctx      = "live"
  /\ until    = 0
  /\ pc       = [w \in Workers |-> "idle"]
  /\ wake     = [w \in Workers |-> 0]
  /\ newUntil = [w \in Workers |-> 0]
  /\ current  = [w \in Workers |-> 0]

WaitRateLimit(w) == ReadDeadline(w) \/ Wake(w)

SetRateLimit(w) == LoadDeadline(w) \/ CompareAndSwap(w)

Next ==
  \/ \E w \in Workers :
       \/ WaitRateLimit(w) \/ Answered(w) \/ SetRateLimit(w)
       \/ \E d \in RetryAfter : RateLimited(w, d)
  \/ Tick \/ Cancel

Spec == Init /\ [][Next]_vars

-----------------------------------------------------------------------------
\* Every variable has its type.
TypeOK ==
  /\ now \in 1 .. MaxTime
  /\ ctx \in {"live", "cancelled"}
  /\ until \in Nat
  /\ pc \in [Workers -> {"idle", "wait", "poll", "load", "swap"}]
  /\ wake     \in [Workers -> Nat]
  /\ newUntil \in [Workers -> Int]
  /\ current  \in [Workers -> Nat]

\* "The latest of the deadlines of concurrent writes is kept"
\* (worker.go:273): no answer 429 that was taken into account is lost to
\* another one, whatever swaps failed meanwhile.
DeadlineKept ==
  \A w \in Workers : pc[w] \notin {"load", "swap"} => newUntil[w] =< until

\* The deadline only moves into the future, also when a sum wraps around.
DeadlineGrows == [][until =< until']_vars

\* Answers 429 that come together do not add up: the pool never has a pause
\* ahead that is longer than one answer can ask for.
PauseIsBounded == until =< now + Longest

\* No worker sleeps longer than one answer can ask for, whenever it read the
\* deadline.
WaitIsBounded == \A w \in Workers : wake[w] =< now + Longest

\* A compare-and-swap fails only because another one moved the deadline on, so
\* the loops of setRateLimit cannot keep each other from ending.
SwapFailsForward ==
  [][\A w \in Workers : pc[w] = "swap" /\ pc'[w] = "load" => current[w] < until]_vars

-----------------------------------------------------------------------------
\* The inductive invariant: what a worker is about to write, or sleeps for, is
\* a deadline that PauseIsBounded allows, and what it read was one.
WriteIsBounded ==
  \A w \in Workers : /\ newUntil[w] =< now + Longest
                     /\ wake[w] =< now + Longest
                     /\ current[w] =< until
                     /\ pc[w] = "swap" => current[w] < newUntil[w]

IInv == TypeOK /\ DeadlineKept /\ PauseIsBounded /\ WriteIsBounded
=============================================================================
