-------------------------------- MODULE Luhn --------------------------------
(***************************************************************************)
(* Valid of pkg/luhn, which decides what order numbers the service takes:  *)
(* its loop over the bytes of a number, with the index from 0 as in the    *)
(* code.  Two calls are run side by side, one for the number that is meant *)
(* and one for the number as it was typed, with one mistake: a check digit *)
(* is there to tell the two apart.  The calls share nothing but the index. *)
(*                                                                         *)
(* A definition marked "Variant" is a faulty form of the one after it, to  *)
(* show that a property notices the difference.  Nothing uses it.          *)
(***************************************************************************)
EXTENDS Integers, Functions

CONSTANTS
  Lengths,   \* of numbers; nobody bounds them, and 0 is one
  Others     \* bytes that are no digits

Digits == 0 .. 9
Calls  == {"meant", "typed"}

ASSUME InputsAssumption == Lengths \subseteq Nat /\ Others \intersect Digits = {}

VARIABLES
  length,
  number,    \* the argument of each call
  i,
  sum,
  result     \* "none" while a call runs

vars == <<length, number, i, sum, result>>

Index == 0 .. length - 1

\* Variants: the parity counted from the left; a product of two digits.
DigitToAddFromLeft(d, at) ==
  IF at % 2 = 0 THEN IF 2 * d > 9 THEN 2 * d - 9 ELSE 2 * d ELSE d

DigitToAddUnreduced(d, at) == IF at % 2 = length % 2 THEN 2 * d ELSE d

DigitToAdd(d, at) ==
  IF at % 2 = length % 2 THEN IF 2 * d > 9 THEN 2 * d - 9 ELSE 2 * d ELSE d

\* One iteration; a call returns at a byte that is no digit.
Iterate ==
  /\ i < length
  /\ i' = i + 1
  /\ result' = [c \in Calls |-> IF number[c][i] \in Digits THEN result[c] ELSE "invalid"]
  /\ sum'    = [c \in Calls |-> IF result[c] = "none" /\ number[c][i] \in Digits
                                THEN sum[c] + DigitToAdd(number[c][i], i) ELSE sum[c]]
  /\ UNCHANGED <<length, number>>

Return ==
  /\ i = length
  /\ \E c \in Calls : result[c] = "none"
  /\ result' = [c \in Calls |-> IF result[c] = "none"
                                THEN IF sum[c] % 10 = 0 THEN "valid" ELSE "invalid"
                                ELSE result[c]]
  /\ UNCHANGED <<length, number, i, sum>>

\* A digit in the place of another one.
WrongDigit(s) == {[s EXCEPT ![p] = d] : p \in DOMAIN s, d \in Digits}

\* Two adjacent bytes in the wrong order; 09 and 90 cannot be told apart.
Swapped(s) ==
  {[s EXCEPT ![p] = s[p + 1], ![p + 1] = s[p]] :
     p \in {q \in DOMAIN s : q + 1 \in DOMAIN s /\ {s[q], s[q + 1]} # {0, 9}}}

Init ==
  /\ length \in Lengths
  /\ \E s \in [Index -> Digits \union Others] : \E t \in WrongDigit(s) \union Swapped(s) \union {s} :
       number = [c \in Calls |-> IF c = "meant" THEN s ELSE t]
  /\ i = 0
  /\ sum    = [c \in Calls |-> 0]
  /\ result = [c \in Calls |-> "none"]

Next == Iterate \/ Return

Spec == Init /\ [][Next]_vars

-----------------------------------------------------------------------------
\* The formula of Luhn, counted from the right: every second digit is doubled
\* and the digits of all numbers are added.
IsLuhn(s) ==
  /\ \A p \in Index : s[p] \in Digits
  /\ LET Doubled(p)  == (length - 1 - p) % 2 = 1
         DigitSum(n) == (n \div 10) + (n % 10)
     IN  SumFunction([p \in Index |-> IF Doubled(p) THEN DigitSum(2 * s[p]) ELSE s[p]]) % 10 = 0

\* The loop computes the formula, though it counts from the left.
ReturnsLuhn ==
  \A c \in Calls : result[c] # "none" => (result[c] = "valid" <=> IsLuhn(number[c]))

\* A number that is accepted is not accepted with one mistake in it.
TypoIsCaught ==
  number["typed"] # number["meant"] => \E c \in Calls : result[c] # "valid"
=============================================================================
