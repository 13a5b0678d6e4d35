---------------------------- MODULE Discounting ----------------------------
(***************************************************************************)
(* calc/valuation dcf.py and reverse_dcf.py: discounted cash flow, forward *)
(* with growth that fades to the terminal rate, and backwards, the growth  *)
(* a price implies.  Rates are in percent; money is rounded down at every  *)
(* year, which keeps the order of what is compared.  A value that may be   *)
(* missing is a set of at most one element.                                *)
(***************************************************************************)
EXTENDS Integers
TerminalGrowth == 3
Horizon == 10
SensitivityRates == {8, 9, 10}
SensitivityGrowths == {2, 3, 4}
MaxAssumedGrowth == 15
SolveLow == -50
SolveHigh == 100

\* 1 + the growth of year i, in 1 / (100 * (Horizon - 1))
Fading(g0, tg) == [i \in 1..Horizon |-> (Horizon - 1) * (100 + g0) + (tg - g0) * (i - 1)]
Flat(g) == [i \in 1..Horizon |-> (Horizon - 1) * (100 + g)]

\* A stream that grows by growth[i] in year i and a terminal value after the
\* last, discounted from the last year to the first.
Discounted(fcf, growth, r, tg) ==
    LET from[i \in 1..(Horizon + 1)] ==
            IF i > Horizon THEN (fcf * (100 + tg)) \div (r - tg)
            ELSE (growth[i] * (fcf + from[i + 1])) \div ((Horizon - 1) * (100 + r))
    IN  from[1]

Discountable(fcf, r, tg) == fcf > 0 /\ r > tg /\ r > 0

PresentValueFading(fcf, g0, r, tg) ==
    IF Discountable(fcf, r, tg) THEN {Discounted(fcf, Fading(g0, tg), r, tg)} ELSE {}

\* The revenue growth of the past, within its bounds; the terminal rate if it
\* is not known.
GrowthInput(cagr) ==
    LET bounded(c) == IF c > MaxAssumedGrowth THEN MaxAssumedGrowth
                      ELSE IF c < TerminalGrowth THEN TerminalGrowth ELSE c
    IN  IF cagr = {} THEN TerminalGrowth ELSE CHOOSE g \in {bounded(c) : c \in cagr} : TRUE

\* mutant: the halves are swapped
ImpliedGrowth_Swapped(ev, fcf, r, tg) ==
    LET bisect[lo, hi \in SolveLow..SolveHigh] ==
            LET mid == (lo + hi) \div 2
            IN  IF hi - lo <= 1 THEN lo
                ELSE IF Discounted(fcf, Flat(mid), r, tg) > ev THEN bisect[mid, hi] ELSE bisect[lo, mid]
    IN  IF Discountable(fcf, r, tg) THEN {bisect[SolveLow, SolveHigh]} ELSE {}

\* Two hundred halvings in the code, as many as tell one percent from the
\* next here.
ImpliedGrowth(ev, fcf, r, tg) ==
    LET bisect[lo, hi \in SolveLow..SolveHigh] ==
            LET mid == (lo + hi) \div 2
            IN  IF hi - lo <= 1 THEN lo
                ELSE IF Discounted(fcf, Flat(mid), r, tg) > ev THEN bisect[lo, mid] ELSE bisect[mid, hi]
    IN  IF Discountable(fcf, r, tg) THEN {bisect[SolveLow, SolveHigh]} ELSE {}
=============================================================================
