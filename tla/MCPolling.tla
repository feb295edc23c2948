----------------------------- MODULE MCPolling -----------------------------
(* Instances of Polling for TLC. *)
EXTENDS Polling

CONSTANTS w1, w2

\* With Half = 8 and 2 ticks a second, 2 asks for 4 ticks, which is beyond the
\* end of time at the last tick, and 5 wraps around to less than nothing.
HeadersMC == {NoHeader, 2, 5}
RetryAfterMC == {Client!ParseRetryAfter(h) : h \in HeadersMC}
=============================================================================
