----------------------------- MODULE LuhnProofs -----------------------------
(***************************************************************************)
(* For numbers of any length: a number that Valid accepts is not accepted  *)
(* with one wrong digit, nor with two adjacent digits swapped, 0 and 9     *)
(* apart; and Valid computes the formula of Luhn.                          *)
(***************************************************************************)
EXTENDS Luhn, SumProofs

\* What a digit adds, doubled or not.
Weight(d, doubled) == IF doubled THEN IF 2 * d > 9 THEN 2 * d - 9 ELSE 2 * d ELSE d

Doubled(at) == at % 2 = length % 2

\* The difference of the two sums stands at the place of the mistake.
ReplacedAt(p, d) ==
  /\ number["typed"] = [number["meant"] EXCEPT ![p] = d]
  /\ sum["typed"] - sum["meant"] =
       IF i =< p THEN 0
       ELSE Weight(d, Doubled(p)) - Weight(number["meant"][p], Doubled(p))

SwappedAt(p) ==
  LET a == number["meant"][p]
      b == number["meant"][p + 1]
  IN  /\ number["typed"] = [number["meant"] EXCEPT ![p] = b, ![p + 1] = a]
      /\ {a, b} # {0, 9}
      /\ sum["typed"] - sum["meant"] =
           IF i =< p THEN 0
           ELSE IF i = p + 1 THEN Weight(b, Doubled(p)) - Weight(a, Doubled(p))
           ELSE Weight(b, Doubled(p)) + Weight(a, ~Doubled(p))
                - Weight(a, Doubled(p)) - Weight(b, ~Doubled(p))

TypeInv ==
  /\ length \in Nat
  /\ i \in 0 .. length
  /\ number \in [Calls -> [Index -> Digits \union Others]]
  /\ sum \in [Calls -> Nat]
  /\ result \in [Calls -> {"none", "valid", "invalid"}]

\* As long as neither call has found a byte that is no digit.
Parallel ==
  (\A c \in Calls : result[c] # "invalid") =>
    /\ \A p \in Index : p < i => number["meant"][p] \in Digits /\ number["typed"][p] \in Digits
    /\ \/ number["typed"] = number["meant"]
       \/ \E p \in Index, d \in Digits : ReplacedAt(p, d)
       \/ \E p \in Index : p + 1 \in Index /\ SwappedAt(p)

\* A result comes from the whole sum.
ResultInv ==
  \A c \in Calls : result[c] = "valid" => i = length /\ sum[c] % 10 = 0

LuhnInv == TypeInv /\ Parallel /\ ResultInv

-----------------------------------------------------------------------------
\* Two digits add the same only if they are equal.
LEMMA WeightInjective ==
  ASSUME NEW d \in Digits, NEW e \in Digits, NEW doubled \in BOOLEAN,
         (Weight(d, doubled) - Weight(e, doubled)) % 10 = 0
  PROVE  d = e
  BY DEF Digits, Weight

\* Two adjacent digits add the same in both orders only if they are equal, or
\* 0 and 9.
LEMMA SwapShows ==
  ASSUME NEW a \in Digits, NEW b \in Digits, NEW doubled \in BOOLEAN, {a, b} # {0, 9},
         (Weight(b, doubled) + Weight(a, ~doubled)
            - Weight(a, doubled) - Weight(b, ~doubled)) % 10 = 0
  PROVE  a = b
<1>1. CASE doubled
  BY <1>1 DEF Digits, Weight
<1>2. CASE ~doubled
  BY <1>2 DEF Digits, Weight
<1> QED BY <1>1, <1>2

LEMMA ParityAlternates ==
  ASSUME NEW n \in Int, NEW k \in Int
  PROVE  (n + 1) % 2 = k % 2 <=> ~(n % 2 = k % 2)
  OBVIOUS

THEOREM InitLuhnInv == Init => LuhnInv
<1> SUFFICES ASSUME Init PROVE LuhnInv
  OBVIOUS
<1>1. length \in Nat /\ i = 0
  BY InputsAssumption DEF Init
<1>2. PICK s \in [Index -> Digits \union Others] :
        \E t \in WrongDigit(s) \union Swapped(s) \union {s} :
          number = [c \in Calls |-> IF c = "meant" THEN s ELSE t]
  BY DEF Init
<1>3. PICK t \in WrongDigit(s) \union Swapped(s) \union {s} :
        number = [c \in Calls |-> IF c = "meant" THEN s ELSE t]
  BY <1>2
<1>4. number["meant"] = s /\ number["typed"] = t
  BY <1>3 DEF Calls
<1>5. sum["typed"] - sum["meant"] = 0
  BY DEF Init, Calls
<1>6. \A p \in Index : p \in Nat /\ i =< p
  BY <1>1 DEF Index
<1>7. /\ t \in [Index -> Digits \union Others]
      /\ \/ t = s
         \/ \E p \in Index, d \in Digits : ReplacedAt(p, d)
         \/ \E p \in Index : p + 1 \in Index /\ SwappedAt(p)
  <2>1. CASE t \in WrongDigit(s)
    <3>1. PICK p \in Index, d \in Digits : t = [s EXCEPT ![p] = d]
      BY <2>1 DEF WrongDigit
    <3>2. ReplacedAt(p, d)
      BY <1>4, <1>5, <1>6, <3>1 DEF ReplacedAt
    <3> QED BY <3>1, <3>2
  <2>2. CASE t \in Swapped(s)
    <3>1. PICK p \in Index : /\ p + 1 \in Index /\ {s[p], s[p + 1]} # {0, 9}
                             /\ t = [s EXCEPT ![p] = s[p + 1], ![p + 1] = s[p]]
      BY <2>2 DEF Swapped
    <3>2. SwappedAt(p)
      BY <1>4, <1>5, <1>6, <3>1 DEF SwappedAt
    <3>3. s[p] \in Digits \union Others /\ s[p + 1] \in Digits \union Others
      BY <3>1
    <3> QED BY <3>1, <3>2, <3>3
  <2> QED BY <2>1, <2>2
<1>8. TypeInv
  <2>1. number \in [Calls -> [Index -> Digits \union Others]]
    BY <1>3, <1>7
  <2> QED BY <1>1, <2>1 DEF Init, TypeInv
<1>9. Parallel
  <2>1. \A p \in Index : ~(p < i)
    BY <1>1 DEF Index
  <2> QED BY <1>4, <1>7, <2>1 DEF Parallel
<1>10. ResultInv
  BY DEF Init, ResultInv
<1> QED BY <1>8, <1>9, <1>10 DEF LuhnInv

\* A return moves neither the index nor the sums.
LEMMA ParallelFrame ==
  ASSUME Parallel, UNCHANGED <<length, number, i, sum>>,
         (\A c \in Calls : result'[c] # "invalid") => \A c \in Calls : result[c] # "invalid"
  PROVE  Parallel'
<1>1. \A p, d : ReplacedAt(p, d)' <=> ReplacedAt(p, d)
  BY DEF ReplacedAt, Doubled
<1>2. \A p : SwappedAt(p)' <=> SwappedAt(p)
  BY DEF SwappedAt, Doubled
<1>3. Index' = Index
  BY DEF Index
<1> QED BY <1>1, <1>2, <1>3 DEF Parallel

\* An iteration in which no call returns.
LEMMA IterateParallel ==
  ASSUME LuhnInv, Iterate, \A c \in Calls : result'[c] # "invalid"
  PROVE  /\ \A p \in Index : p < i' => number["meant"][p] \in Digits /\ number["typed"][p] \in Digits
         /\ \/ number["typed"] = number["meant"]
            \/ \E p \in Index, d \in Digits : ReplacedAt(p, d)'
            \/ \E p \in Index : p + 1 \in Index /\ SwappedAt(p)'
<1> DEFINE m == number["meant"]
           t == number["typed"]
           P(p) == Doubled(p)
<1>1. /\ i \in Nat /\ length \in Nat /\ i < length /\ i \in Index
      /\ i' = i + 1 /\ length' = length /\ number' = number
      /\ m \in [Index -> Digits \union Others] /\ t \in [Index -> Digits \union Others]
      /\ sum["meant"] \in Nat /\ sum["typed"] \in Nat
  <2>1. /\ i \in Nat /\ length \in Nat /\ i < length
        /\ i' = i + 1 /\ length' = length /\ number' = number
    BY DEF Iterate, LuhnInv, TypeInv
  <2>2. i \in Index
    BY <2>1 DEF Index
  <2>3. "meant" \in Calls /\ "typed" \in Calls
    BY DEF Calls
  <2>4. /\ m \in [Index -> Digits \union Others] /\ t \in [Index -> Digits \union Others]
        /\ sum["meant"] \in Nat /\ sum["typed"] \in Nat
    BY <2>3 DEF LuhnInv, TypeInv
  <2> QED BY <2>1, <2>2, <2>4
<1>2. \A c \in Calls : number[c][i] \in Digits /\ result[c] = "none"
  BY DEF Iterate, LuhnInv, TypeInv, ResultInv
<1>3. m[i] \in Digits /\ t[i] \in Digits
  BY <1>2 DEF Calls
<1>4. /\ sum'["meant"] = sum["meant"] + Weight(m[i], P(i))
      /\ sum'["typed"] = sum["typed"] + Weight(t[i], P(i))
  BY <1>2 DEF Iterate, Calls, DigitToAdd, Weight, Doubled
<1>5. \A d \in Digits, b \in BOOLEAN : Weight(d, b) \in Int
  BY DEF Digits, Weight
<1>6. /\ \A p \in Index : p < i => m[p] \in Digits /\ t[p] \in Digits
      /\ \/ t = m
         \/ \E p \in Index, d \in Digits : ReplacedAt(p, d)
         \/ \E p \in Index : p + 1 \in Index /\ SwappedAt(p)
  BY <1>2 DEF LuhnInv, Parallel
<1>7. \A p \in Index : p < i' => m[p] \in Digits /\ t[p] \in Digits
  BY <1>1, <1>3, <1>6 DEF Index
<1>8. \A p \in Index : P(p) \in BOOLEAN /\ P(p)' = P(p) /\ p \in Int
  BY <1>1 DEF Doubled, Index
<1>9. sum'["typed"] - sum'["meant"]
        = (sum["typed"] - sum["meant"]) + (Weight(t[i], P(i)) - Weight(m[i], P(i)))
  BY <1>1, <1>3, <1>4, <1>5, <1>8
<1>10. ASSUME NEW p \in Index, NEW d \in Digits, ReplacedAt(p, d)
       PROVE  ReplacedAt(p, d)'
  <2>1. t = [m EXCEPT ![p] = d]
    BY <1>10 DEF ReplacedAt
  <2>2. sum'["typed"] - sum'["meant"] =
          IF i' =< p THEN 0 ELSE Weight(d, P(p)) - Weight(m[p], P(p))
    <3>1. CASE i < p
      BY <1>1, <1>3, <1>5, <1>8, <1>9, <1>10, <2>1, <3>1 DEF ReplacedAt
    <3>2. CASE i = p
      BY <1>1, <1>3, <1>5, <1>8, <1>9, <1>10, <2>1, <3>2 DEF ReplacedAt
    <3>3. CASE i > p
      <4>1. m[p] \in Digits /\ t[i] = m[i]
        BY <1>1, <1>6, <1>8, <2>1, <3>3
      <4> QED BY <1>1, <1>3, <1>5, <1>8, <1>9, <1>10, <3>3, <4>1 DEF ReplacedAt
    <3>4. i < p \/ i = p \/ i > p
      BY <1>1, <1>8
    <3> QED BY <3>1, <3>2, <3>3, <3>4
  <2> QED BY <1>1, <1>8, <2>1, <2>2 DEF ReplacedAt
<1>11. ASSUME NEW p \in Index, p + 1 \in Index, SwappedAt(p)
       PROVE  SwappedAt(p)'
  <2>1. /\ t = [m EXCEPT ![p] = m[p + 1], ![p + 1] = m[p]]
        /\ {m[p], m[p + 1]} # {0, 9}
    BY <1>11 DEF SwappedAt
  <2>2. t[p] = m[p + 1] /\ t[p + 1] = m[p]
    BY <1>1, <1>8, <1>11, <2>1
  <2>3. P(p + 1) <=> ~P(p)
    <3>1. p \in Int /\ length \in Int
      BY <1>1, <1>8
    <3>2. (p + 1) % 2 = length % 2 <=> ~(p % 2 = length % 2)
      BY <3>1, ParityAlternates
    <3> QED BY <3>2 DEF Doubled
  <2>4. sum'["typed"] - sum'["meant"] =
          IF i' =< p THEN 0
          ELSE IF i' = p + 1 THEN Weight(m[p + 1], P(p)) - Weight(m[p], P(p))
          ELSE Weight(m[p + 1], P(p)) + Weight(m[p], ~P(p))
               - Weight(m[p], P(p)) - Weight(m[p + 1], ~P(p))
    <3>1. CASE i < p
      BY <1>1, <1>3, <1>5, <1>8, <1>9, <1>11, <2>1, <3>1 DEF SwappedAt
    <3>2. CASE i = p
      BY <1>1, <1>3, <1>5, <1>8, <1>9, <1>11, <2>2, <3>2 DEF SwappedAt
    <3>3. CASE i = p + 1
      <4>1. m[p] \in Digits /\ t[p] \in Digits
        BY <1>1, <1>6, <1>8, <3>3
      <4>2. Weight(t[i], P(i)) = Weight(m[p], ~P(p)) /\ Weight(m[i], P(i)) = Weight(m[p + 1], ~P(p))
        BY <2>2, <2>3, <3>3 DEF Weight
      <4>3. /\ Weight(m[p], P(p)) \in Int /\ Weight(m[p + 1], P(p)) \in Int
            /\ Weight(m[p], ~P(p)) \in Int /\ Weight(m[p + 1], ~P(p)) \in Int
        BY <1>5, <1>8, <2>2, <4>1
      <4>4. sum["typed"] - sum["meant"] = Weight(m[p + 1], P(p)) - Weight(m[p], P(p))
        BY <1>8, <1>11, <3>3 DEF SwappedAt
      <4> HIDE DEF P, m, t
      <4> QED BY <1>1, <1>8, <1>9, <3>3, <4>2, <4>3, <4>4
    <3>4. CASE i > p + 1
      <4>1. t[i] = m[i]
        BY <1>1, <1>8, <2>1, <3>4
      <4>2. sum'["typed"] - sum'["meant"] = sum["typed"] - sum["meant"]
        BY <1>1, <1>3, <1>5, <1>8, <1>9, <4>1
      <4> QED BY <1>1, <1>8, <1>11, <3>4, <4>2 DEF SwappedAt
    <3>5. i < p \/ i = p \/ i = p + 1 \/ i > p + 1
      BY <1>1, <1>8
    <3> QED BY <3>1, <3>2, <3>3, <3>4, <3>5
  <2> QED BY <1>1, <1>8, <2>1, <2>4 DEF SwappedAt
<1> QED BY <1>6, <1>7, <1>10, <1>11

LEMMA StepLuhnInv ==
  ASSUME LuhnInv, [Next]_vars
  PROVE  LuhnInv'
<1>1. CASE Iterate
  <2>1. /\ i \in Nat /\ length \in Nat /\ i < length /\ i' = i + 1
        /\ length' = length /\ number' = number /\ i \in Index
    BY <1>1 DEF Iterate, LuhnInv, TypeInv, Index
  <2>2. \A c \in Calls : result[c] # "valid"
    BY <2>1 DEF LuhnInv, ResultInv
  <2>3. /\ result' = [c \in Calls |-> IF number[c][i] \in Digits THEN result[c] ELSE "invalid"]
        /\ result \in [Calls -> {"none", "valid", "invalid"}]
    BY <1>1 DEF Iterate, LuhnInv, TypeInv
  <2>4. result' \in [Calls -> {"none", "valid", "invalid"}] /\ \A c \in Calls : result'[c] # "valid"
    BY <2>2, <2>3
  <2>5. \A c \in Calls : number[c][i] \in Digits => DigitToAdd(number[c][i], i) \in Nat
    BY <2>1 DEF Digits, DigitToAdd
  <2>6. sum' \in [Calls -> Nat]
    BY <1>1, <2>5 DEF Iterate, LuhnInv, TypeInv
  <2>7. TypeInv'
    BY <2>1, <2>4, <2>6 DEF LuhnInv, TypeInv, Index
  <2>8. Parallel'
    BY <1>1, <2>1, IterateParallel DEF Parallel, Index
  <2>9. ResultInv'
    BY <2>4 DEF ResultInv
  <2> QED BY <2>7, <2>8, <2>9 DEF LuhnInv
<1>2. CASE Return
  <2>1. /\ i = length /\ UNCHANGED <<length, number, i, sum>>
        /\ result' = [c \in Calls |-> IF result[c] = "none"
                                      THEN IF sum[c] % 10 = 0 THEN "valid" ELSE "invalid"
                                      ELSE result[c]]
    BY <1>2 DEF Return
  <2>2. TypeInv'
    BY <2>1 DEF LuhnInv, TypeInv, Index
  <2>3. ResultInv'
    BY <2>1 DEF LuhnInv, ResultInv
  <2>4. (\A c \in Calls : result'[c] # "invalid") => \A c \in Calls : result[c] # "invalid"
    BY <2>1
  <2>5. Parallel'
    BY <2>1, <2>4, ParallelFrame DEF LuhnInv
  <2> QED BY <2>2, <2>3, <2>5 DEF LuhnInv
<1>3. CASE UNCHANGED vars
  <2>1. UNCHANGED <<length, number, i, sum, result>>
    BY <1>3 DEF vars
  <2>2. TypeInv' /\ ResultInv'
    BY <2>1 DEF LuhnInv, TypeInv, ResultInv, Index
  <2>3. Parallel'
    BY <2>1, ParallelFrame DEF LuhnInv
  <2> QED BY <2>2, <2>3 DEF LuhnInv
<1> QED BY <1>1, <1>2, <1>3 DEF Next

\* Both calls return TRUE only for equal numbers.
LEMMA InvImpliesCaught == LuhnInv => TypoIsCaught
<1> SUFFICES ASSUME LuhnInv, \A c \in Calls : result[c] = "valid",
                    number["typed"] # number["meant"]
             PROVE  FALSE
  BY DEF TypoIsCaught, LuhnInv, TypeInv
<1> DEFINE m == number["meant"]
           t == number["typed"]
<1>1. /\ i = length /\ length \in Nat
      /\ sum["meant"] \in Nat /\ sum["typed"] \in Nat
      /\ sum["meant"] % 10 = 0 /\ sum["typed"] % 10 = 0
  BY DEF LuhnInv, TypeInv, ResultInv, Calls
<1>2. (sum["typed"] - sum["meant"]) % 10 = 0
  BY <1>1
<1>3. \A p \in Index : p \in Int /\ p < i /\ Doubled(p) \in BOOLEAN
  BY <1>1 DEF Index, Doubled
<1>4. /\ \A p \in Index : m[p] \in Digits /\ t[p] \in Digits
      /\ \/ \E p \in Index, d \in Digits : ReplacedAt(p, d)
         \/ \E p \in Index : p + 1 \in Index /\ SwappedAt(p)
  BY <1>3 DEF LuhnInv, Parallel
<1>5. m \in [Index -> Digits \union Others]
  BY DEF LuhnInv, TypeInv, Calls
<1>6. ASSUME NEW p \in Index, NEW d \in Digits, ReplacedAt(p, d)
      PROVE  FALSE
  <2>1. ~(i =< p)
    BY <1>1, <1>3
  <2>2. (Weight(d, Doubled(p)) - Weight(m[p], Doubled(p))) % 10 = 0
    BY <1>2, <1>6, <2>1 DEF ReplacedAt
  <2>3. d = m[p]
    BY <1>3, <1>4, <2>2, WeightInjective
  <2> QED BY <1>5, <1>6, <2>3 DEF ReplacedAt
<1>7. ASSUME NEW p \in Index, p + 1 \in Index, SwappedAt(p)
      PROVE  FALSE
  <2>1. ~(i =< p) /\ ~(i = p + 1)
    BY <1>1, <1>3, <1>7
  <2>2. (Weight(m[p + 1], Doubled(p)) + Weight(m[p], ~Doubled(p))
           - Weight(m[p], Doubled(p)) - Weight(m[p + 1], ~Doubled(p))) % 10 = 0
    BY <1>2, <1>7, <2>1 DEF SwappedAt
  <2>3. {m[p], m[p + 1]} # {0, 9}
    BY <1>7 DEF SwappedAt
  <2>4. m[p] = m[p + 1]
    BY <1>3, <1>4, <1>7, <2>2, <2>3, SwapShows
  <2> QED BY <1>5, <1>7, <2>4 DEF SwappedAt
<1> QED BY <1>4, <1>6, <1>7

\* A number that is accepted is not accepted with one mistake in it
\* (pkg/luhn/luhn.go:14), however long it is.
THEOREM CatchesTypos == Spec => []TypoIsCaught
  BY InitLuhnInv, StepLuhnInv, InvImpliesCaught, PTL DEF Spec

-----------------------------------------------------------------------------
(* The loop and the formula.                                                 *)

\* What the formula adds for each byte.
FormulaOf(s) ==
  [p \in Index |-> IF (length - 1 - p) % 2 = 1
                   THEN ((2 * s[p]) \div 10) + ((2 * s[p]) % 10) ELSE s[p]]

\* What the loop has added is the formula's sum over the bytes it has seen.
LoopInv ==
  \A c \in Calls :
    /\ result[c] # "invalid" =>
         /\ \A p \in Index : p < i => number[c][p] \in Digits
         /\ sum[c] = SumFunctionOnSet(FormulaOf(number[c]), 0 .. i - 1)
    /\ result[c] = "invalid" => ~IsLuhn(number[c])

LEMMA FormulaSums ==
  ASSUME NEW s
  PROVE  IsLuhn(s) <=> /\ \A p \in Index : s[p] \in Digits
                       /\ SumFunctionOnSet(FormulaOf(s), Index) % 10 = 0
<1>1. DOMAIN FormulaOf(s) = Index
  BY DEF FormulaOf
<1>2. SumFunction(FormulaOf(s)) = SumFunctionOnSet(FormulaOf(s), Index)
  BY <1>1 DEF SumFunction
<1> QED BY <1>2 DEF IsLuhn, FormulaOf

\* Counted from the left or from the right, the same bytes are doubled, and a
\* product of two digits less 9 is the sum of its digits.
LEMMA FormulaIsDigitToAdd ==
  ASSUME length \in Nat, NEW p \in Index, NEW s, s[p] \in Digits
  PROVE  FormulaOf(s)[p] = DigitToAdd(s[p], p) /\ DigitToAdd(s[p], p) \in Nat
<1>1. p \in Nat
  BY DEF Index
<1>2. (length - 1 - p) % 2 = 1 <=> p % 2 = length % 2
  BY <1>1
<1>3. \A d \in Digits : ((2 * d) \div 10) + ((2 * d) % 10) = IF 2 * d > 9 THEN 2 * d - 9 ELSE 2 * d
  BY DEF Digits
<1>4. FormulaOf(s)[p] = DigitToAdd(s[p], p)
  BY <1>2, <1>3 DEF FormulaOf, DigitToAdd
<1>5. DigitToAdd(s[p], p) \in Nat
  BY DEF DigitToAdd, Digits
<1> QED BY <1>4, <1>5

LEMMA InitLoopInv == Init => LoopInv
<1> SUFFICES ASSUME Init PROVE LoopInv
  OBVIOUS
<1>1. length \in Nat /\ i = 0 /\ 0 .. i - 1 = {}
  BY InputsAssumption DEF Init
<1>2. \A p \in Index : ~(p < i)
  BY <1>1 DEF Index
<1>3. \A c \in Calls : sum[c] = SumFunctionOnSet(FormulaOf(number[c]), 0 .. i - 1)
  BY <1>1, SumOfNothing DEF Init
<1> QED BY <1>2, <1>3 DEF Init, LoopInv

LEMMA StepLoopInv ==
  ASSUME LuhnInv, LoopInv, [Next]_vars
  PROVE  LoopInv'
<1>1. ASSUME UNCHANGED <<length, number>>, NEW s
      PROVE  FormulaOf(s)' = FormulaOf(s) /\ (IsLuhn(s)' <=> IsLuhn(s)) /\ Index' = Index
  BY <1>1 DEF FormulaOf, IsLuhn, Index
<1>2. CASE Iterate
  <2>1. /\ i \in Nat /\ length \in Nat /\ i < length /\ i \in Index /\ i' = i + 1
        /\ UNCHANGED <<length, number>>
        /\ sum \in [Calls -> Nat] /\ result \in [Calls -> {"none", "valid", "invalid"}]
        /\ result' = [c \in Calls |-> IF number[c][i] \in Digits THEN result[c] ELSE "invalid"]
        /\ sum' = [c \in Calls |-> IF result[c] = "none" /\ number[c][i] \in Digits
                                   THEN sum[c] + DigitToAdd(number[c][i], i) ELSE sum[c]]
    BY <1>2 DEF Iterate, LuhnInv, TypeInv, Index
  <2>2. ASSUME NEW c \in Calls, result'[c] # "invalid"
        PROVE  /\ \A p \in Index : p < i' => number[c][p] \in Digits
               /\ sum'[c] = SumFunctionOnSet(FormulaOf(number[c]), 0 .. i' - 1)
    <3> DEFINE f == FormulaOf(number[c])
               S == 0 .. i - 1
    <3>1. number[c][i] \in Digits /\ result[c] = "none"
      BY <2>1, <2>2 DEF LuhnInv, ResultInv
    <3>2. /\ \A p \in Index : p < i => number[c][p] \in Digits
          /\ sum[c] = SumFunctionOnSet(f, S)
      BY <3>1 DEF LoopInv
    <3>3. \A p \in Index : p < i' => number[c][p] \in Digits
      BY <2>1, <3>1, <3>2 DEF Index
    <3>4. 0 .. i' - 1 = S \union {i} /\ i \notin S /\ S \union {i} \subseteq Index
      BY <2>1 DEF Index
    <3>5. IsFiniteSet(S)
      BY <2>1, FS_Interval
    <3>6. \A p \in S \union {i} : f[p] \in Int
      <4>1. \A p \in S \union {i} : p \in Index /\ number[c][p] \in Digits
        BY <2>1, <3>3, <3>4
      <4> QED BY <2>1, <4>1, FormulaIsDigitToAdd
    <3>7. f[i] = DigitToAdd(number[c][i], i)
      BY <2>1, <3>1, FormulaIsDigitToAdd
    <3> HIDE DEF f, S
    <3>8. SumFunctionOnSet(f, S \union {i}) = SumFunctionOnSet(f, S) + f[i]
      BY <3>4, <3>5, <3>6, SumAdd
    <3>9. sum'[c] = sum[c] + DigitToAdd(number[c][i], i)
      BY <2>1, <3>1
    <3>10. sum'[c] = SumFunctionOnSet(f, 0 .. i' - 1)
      BY <3>2, <3>4, <3>7, <3>8, <3>9
    <3> QED BY <3>3, <3>10 DEF f
  <2>3. ASSUME NEW c \in Calls, result'[c] = "invalid"
        PROVE  ~IsLuhn(number[c])
    <3>1. CASE result[c] = "invalid"
      BY <3>1 DEF LoopInv
    <3>2. CASE number[c][i] \notin Digits
      BY <2>1, <3>2, FormulaSums
    <3> QED BY <2>1, <2>3, <3>1, <3>2
  <2> QED BY <1>1, <2>1, <2>2, <2>3 DEF LoopInv
<1>3. CASE Return
  <2>1. /\ i = length /\ length \in Nat /\ UNCHANGED <<length, number, i, sum>>
        /\ result' = [c \in Calls |-> IF result[c] = "none"
                                      THEN IF sum[c] % 10 = 0 THEN "valid" ELSE "invalid"
                                      ELSE result[c]]
    BY <1>3 DEF Return, LuhnInv, TypeInv
  <2>2. ASSUME NEW c \in Calls, result'[c] = "invalid"
        PROVE  ~IsLuhn(number[c])
    <3>1. CASE result[c] = "invalid"
      BY <3>1 DEF LoopInv
    <3>2. CASE result[c] = "none" /\ sum[c] % 10 # 0
      <4>1. sum[c] = SumFunctionOnSet(FormulaOf(number[c]), Index)
        BY <2>1, <3>2 DEF LoopInv, Index
      <4> QED BY <3>2, <4>1, FormulaSums
    <3> QED BY <2>1, <2>2, <3>1, <3>2
  <2>3. ASSUME NEW c \in Calls, result'[c] # "invalid"
        PROVE  result[c] # "invalid"
    BY <2>1, <2>3
  <2> QED BY <1>1, <2>1, <2>2, <2>3 DEF LoopInv
<1>4. CASE UNCHANGED vars
  BY <1>1, <1>4 DEF vars, LoopInv
<1> QED BY <1>2, <1>3, <1>4 DEF Next

LEMMA LoopInvReturns == LuhnInv /\ LoopInv => ReturnsLuhn
<1> SUFFICES ASSUME LuhnInv, LoopInv, NEW c \in Calls, result[c] # "none"
             PROVE  result[c] = "valid" <=> IsLuhn(number[c])
  BY DEF ReturnsLuhn
<1>1. CASE result[c] = "invalid"
  BY <1>1 DEF LoopInv
<1>2. CASE result[c] = "valid"
  <2>1. /\ i = length /\ length \in Nat /\ sum[c] % 10 = 0
        /\ \A p \in Index : p < i => number[c][p] \in Digits
        /\ sum[c] = SumFunctionOnSet(FormulaOf(number[c]), Index)
    BY <1>2 DEF LuhnInv, TypeInv, ResultInv, LoopInv, Index
  <2>2. \A p \in Index : number[c][p] \in Digits
    BY <2>1 DEF Index
  <2> QED BY <1>2, <2>1, <2>2, FormulaSums
<1> QED BY <1>1, <1>2 DEF LuhnInv, TypeInv

\* Valid returns TRUE for the numbers of Luhn's formula and for no others
\* (pkg/luhn/luhn.go:14), whatever the length.
THEOREM ComputesLuhn == Spec => []ReturnsLuhn
  BY InitLuhnInv, StepLuhnInv, InitLoopInv, StepLoopInv, LoopInvReturns, PTL DEF Spec
=============================================================================
