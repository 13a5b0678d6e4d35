-------------------------- MODULE ScenarioDecision --------------------------
(***************************************************************************)
(* From the agents' proposals to a verdict that agrees with the numbers:   *)
(* calc bounds the requested scenario weights, averages the cases' returns,*)
(* caps the shifts of the prior and scores the excess over the index       *)
(* (calc/scenarios); the synthesizer then has two attempts at a card that  *)
(* validate_consistency accepts (orchestrator/coordinator.py run_decision).*)
(*                                                                         *)
(* Arithmetic is exact: weights are counted in twentieths and then in      *)
(* fractions of a common scale, returns and probabilities in percent. The  *)
(* code's tolerances (1e-6 to 1e-12) stand for equality of its doubles.    *)
(***************************************************************************)
EXTENDS Integers, FiniteSets

CONSTANT Proposals      \* what the Scenario Agent, calc's inputs and the Red Team bring

Cases    == {"bear", "base", "bull"}
Horizons == {"short_term", "medium_term", "long_term"}
Unit     == 20

Clip(x, low, high) == IF x < low THEN low ELSE IF x > high THEN high ELSE x
ByCase(F(_)) == [bear |-> F("bear"), base |-> F("base"), bull |-> F("bull")]
Total(f) == f["bear"] + f["base"] + f["bull"]
TotalOn(f, S) == Total(ByCase(LAMBDA c : IF c \in S THEN f[c] ELSE 0))

\* Weights that are a distribution: others the agent and the contract refuse, and calc too.
Requests == {r \in [Cases -> 0..Unit] : Total(r) = Unit}

\* request: the weights asked for; returns: the annualized return of each case that has
\* one; tilt, red: the shifts of the prior the Scenario Agent and the Red Team ask for.
ASSUME ProposalAssumption == \A p \in Proposals :
    /\ p.request \in Requests
    /\ DOMAIN p.returns \subseteq Cases /\ p.returns \in [DOMAIN p.returns -> Int]
    /\ p.tilt \in -100..100
    /\ p.red \in -100..0

-----------------------------------------------------------------------------
(* Weights: bound_weights. A weighing is [w, of]: w[c] parts of `of`.       *)

Default == [bear |-> 6, base |-> 10, bull |-> 4]
Band    == 3
Low(c)  == Default[c] - Band
High(c) == Default[c] + Band
Clamped(request) == ByCase(LAMBDA c : Clip(request[c], Low(c), High(c)))
Untouched(request) == {c \in Cases : Clamped(request)[c] = request[c]}

\* One round of _redistribute: what is missing of the whole, or too much, is shared in
\* proportion among the cases of S with room in that direction, each up to its band.
Spread(a, S) ==
    LET rest    == a.of - Total(a.w)
        room(c) == IF rest > 0 THEN High(c) * (a.of \div Unit) - a.w[c]
                               ELSE a.w[c] - Low(c) * (a.of \div Unit)
        movable == {c \in S : room(c) > 0}
        share   == TotalOn(a.w, movable)
    IN  IF rest = 0 \/ movable = {} THEN a
        ELSE [w  |-> ByCase(LAMBDA c : share * a.w[c] +
                         IF c \in movable
                         THEN Clip(rest * a.w[c], -(share * room(c)), share * room(c))
                         ELSE 0),
              of |-> share * a.of]

\* The code's bound of four rounds. (A set of one weighing, so that TLC evaluates each
\* round once.)
Round(A, S) == {Spread(a, S) : a \in A}
Redistribute(A, S) == Round(Round(Round(Round(A, S), S), S), S)
Only(A) == CHOOSE a \in A : TRUE

\* Bug: all three scaled to a sum of one.
Bounded_Scaled == [r \in Requests |-> [w |-> Clamped(r), of |-> Total(Clamped(r))]]

\* First the weights the band did not touch, then, if something is left, any of them.
Bounded == [r \in Requests |->
    Only(Redistribute(Redistribute({[w |-> Clamped(r), of |-> Unit]}, Untouched(r)), Cases))]

-----------------------------------------------------------------------------
(* Returns: evaluate_scenarios. A case without a price target above zero, a *)
(* price or an input of its earnings has no return and is left out.         *)

Index == 7          \* SP500_EXPECTED_RETURN, for a factsheet that publishes none itself
None  == [known |-> FALSE, num |-> 0, den |-> 1]
Ratio(n, d) == [known |-> TRUE, num |-> n, den |-> d]

Weighted(a, returns) ==
    Total(ByCase(LAMBDA c : IF c \in DOMAIN returns THEN a.w[c] * returns[c] ELSE 0))

\* Bug: the average is not rescaled when a case is left out.
Expected_NotRescaled(a, returns) ==
    IF DOMAIN returns = {} THEN None ELSE Ratio(Weighted(a, returns), a.of)
Expected(a, returns) ==
    IF DOMAIN returns = {} THEN None
    ELSE Ratio(Weighted(a, returns), TotalOn(a.w, DOMAIN returns))

AtLeast(q, k)  == q.num >= k * q.den
Above(q, k)    == q.num > k * q.den
Excess(e)      == IF e.known THEN Ratio(e.num - Index * e.den, e.den) ELSE None

\* bear_weight_that_flips: the bear weight that makes the average equal to the index,
\* the other two keeping their ratio. None where nothing can be solved.
\* Bug: the blend of the others is not rescaled to their weight.
Blend_NotRescaled(a, returns) ==
    LET others == DOMAIN returns \ {"bear"}
    IN  Ratio(Weighted(a, [c \in others |-> returns[c]]), a.of)
Blend(a, returns) ==
    LET others == DOMAIN returns \ {"bear"}
    IN  Ratio(Weighted(a, [c \in others |-> returns[c]]), TotalOn(a.w, others))
Flip(a, returns) ==
    IF "bear" \notin DOMAIN returns \/ DOMAIN returns = {"bear"} THEN None
    ELSE LET rest  == Blend(a, returns)
             gap   == returns["bear"] * rest.den - rest.num
             need  == Index * rest.den - rest.num
         IN  IF gap = 0 THEN None
             ELSE IF gap > 0 THEN Ratio(need, gap) ELSE Ratio(-need, -gap)
InsideBand(flip) == /\ flip.known
                    /\ flip.num * Unit >= Low("bear") * flip.den
                    /\ flip.num * Unit <= High("bear") * flip.den

-----------------------------------------------------------------------------
(* Prior and scores: prior.py, rubric.py.                                   *)

Cap      == 15
BaseRate == [h \in Horizons |->
    CASE h = "short_term" -> 47 [] h = "medium_term" -> 44 [] h = "long_term" -> 42]

\* Bug: each agent has the cap to itself.
Applied_PerAgent(tilt, red) == Clip(tilt, -Cap, Cap) + Clip(red, -Cap, Cap)
Applied(tilt, red) == Clip(tilt + red, -Cap, Cap)
Chance(shift) == [h \in Horizons |-> Clip(BaseRate[h] + shift, 0, 100)]

\* score_for_excess: longer horizons divide the excess by 1, 5/4 or 3/2 before the table.
Discounted(x, h) ==
    CASE h = "short_term" -> x
      [] h = "medium_term" -> Ratio(4 * x.num, 5 * x.den)
      [] h = "long_term" -> Ratio(2 * x.num, 3 * x.den)

Neutral == 5
Raw(x, h) ==
    IF ~x.known THEN Neutral
    ELSE LET e == Discounted(x, h)
         IN  3 + Cardinality({t \in {-6, -2, 2, 6} : Above(e, t)})

Penalty(returns) == IF "bear" \in DOMAIN returns /\ returns["bear"] <= -25 THEN 1 ELSE 0
Scores(x, returns) == [h \in Horizons |-> Clip(Raw(x, h) - Penalty(returns), 1, 10)]

-----------------------------------------------------------------------------
(* The card: validate_consistency. Scores, chance and return are copied by  *)
(* code (report/generator.py render_card), so their comparisons pass.       *)

Bullish  == {"strong_buy", "buy", "speculative_buy"}
Bearish  == {"avoid", "sell"}
Verdicts == Bullish \cup {"hold"} \cup Bearish
Choices  == {"this_stock", "sp500"}
Cards    == [verdict : Verdicts, choice : Choices]
MeetsFloor(verdict, x) ==
    CASE verdict = "strong_buy"      -> AtLeast(x, 4)
      [] verdict = "buy"             -> AtLeast(x, 1)
      [] verdict = "speculative_buy" -> AtLeast(x, 0)
      [] verdict = "hold"            -> AtLeast(x, -2)
      [] verdict \in Bearish         -> TRUE

Consistent(card, e, p) ==
    LET x == Excess(e)
    IN  e.known =>
        /\ MeetsFloor(card.verdict, x)
        /\ card.verdict \in Bullish => AtLeast(e, Index)
        /\ card.verdict \in Bearish => ~Above(x, 5)
        /\ Above(x, 2) => p["long_term"] >= BaseRate["long_term"]
        /\ ~AtLeast(x, -2) => p["long_term"] <= BaseRate["long_term"]
        /\ card.choice = "this_stock" => AtLeast(x, 0)
        /\ card.choice = "sp500" => ~Above(x, 2)

-----------------------------------------------------------------------------
VARIABLES
    proposal,       \* the agents' proposals
    weights,        \* the applied weights
    expected,       \* expected_annualized_return
    flip,           \* sensitivity.flips_at_bear_probability
    chance,         \* p_beat_sp500
    scores,         \* scores per horizon
    tries,          \* attempts of the synthesizer
    card,           \* its last answer, {} before the first
    pc              \* "proposed", "evaluated", "accepted" or "failed"

vars == <<proposal, weights, expected, flip, chance, scores, tries, card, pc>>
numbers == <<proposal, weights, expected, flip, chance, scores>>

TypeOK ==
    /\ proposal.request \in [Cases -> 0..Unit] /\ proposal.tilt + proposal.red \in -200..100
    /\ weights.of \in Nat \ {0} /\ weights.w \in [Cases -> Nat]
    /\ \A q \in {expected, flip} : q.known \in BOOLEAN /\ q.num \in Int /\ q.den \in Nat \ {0}
    /\ chance \in [Horizons -> 0..100]
    /\ scores \in [Horizons -> 1..10]
    /\ tries \in 0..2
    /\ card \subseteq Cards /\ Cardinality(card) <= 1
    /\ pc \in {"proposed", "evaluated", "accepted", "failed"}

Init ==
    /\ proposal \in Proposals
    /\ weights = [w |-> Default, of |-> Unit]
    /\ expected = None
    /\ flip = None
    /\ chance = BaseRate
    /\ scores = [h \in Horizons |-> Neutral]
    /\ tries = 0
    /\ card = {}
    /\ pc = "proposed"

\* evaluate_scenarios, with the shifts of both agents in hand.
Evaluate ==
    /\ pc = "proposed"
    /\ weights' = Bounded[proposal.request]
    /\ expected' = Expected(weights', proposal.returns)
    /\ flip' = Flip(weights', proposal.returns)
    /\ chance' = Chance(Applied(proposal.tilt, proposal.red))
    /\ scores' = Scores(Excess(expected'), proposal.returns)
    /\ pc' = "evaluated"
    /\ UNCHANGED <<proposal, tries, card>>

\* One attempt: accepted, sent back once, or the run fails.
Synthesize(c) ==
    /\ pc = "evaluated"
    /\ card' = {c}
    /\ tries' = tries + 1
    /\ pc' = IF Consistent(c, expected, chance) THEN "accepted"
             ELSE IF tries' < 2 THEN "evaluated" ELSE "failed"
    /\ UNCHANGED numbers

Over == pc \in {"accepted", "failed"} /\ UNCHANGED vars

Decide == Evaluate \/ \E c \in Cards : Synthesize(c)
Next   == Decide \/ Over

Spec == Init /\ [][Next]_vars

-----------------------------------------------------------------------------
(* Properties. A definition named Other_Suffix is a plausible bug in Other.  *)

Evaluated == pc # "proposed"

\* Whatever was asked for, the applied weights are a distribution and each lies in its
\* band: redistribution never pushes a weight out of it and always absorbs the rest. A
\* clamped weight stays at the limit it was clamped to, unless the band overruled all
\* three and there is no other to give the rest to.
WeightsBounded == Evaluated =>
    /\ Total(weights.w) = weights.of
    /\ \A c \in Cases : /\ weights.w[c] * Unit >= Low(c) * weights.of
                        /\ weights.w[c] * Unit <= High(c) * weights.of
    /\ Untouched(proposal.request) # {} =>
          \A c \in Cases \ Untouched(proposal.request) :
              weights.w[c] * Unit = Clamped(proposal.request)[c] * weights.of

\* The expected return lies between the worst and the best case that has one, also when
\* cases are left out, so a missing case is not counted as a return of zero.
ExpectedWithinCases == Evaluated /\ expected.known =>
    LET values == {proposal.returns[c] : c \in DOMAIN proposal.returns}
    IN  (\E r \in values : AtLeast(expected, r)) /\ (\E r \in values : ~Above(expected, r))

\* Two agents together cannot move the probability further than one may, and the Red
\* Team only ever lowers it.
PriorHeld == Evaluated => \A h \in Horizons :
    /\ chance[h] \in (BaseRate[h] - Cap)..(BaseRate[h] + Cap)
    /\ chance[h] <= Chance(Applied(proposal.tilt, 0))[h]

\* x of y parts for the bear case, the other two keeping their ratio to each other.
Reweighed(x, y) ==
    LET rest == weights.w["base"] + weights.w["bull"]
    IN  [w  |-> [c \in Cases |-> IF c = "bear" THEN x * rest ELSE (y - x) * weights.w[c]],
         of |-> y * rest]

\* The reported sensitivity is honest where all three cases have a return: if some bear
\* weight of the band puts the expected return on the other side of the index than another
\* does, the flip is reported inside the band.
SensitivityHonest == Evaluated /\ flip.known /\ DOMAIN proposal.returns = Cases =>
    LET average(x) == Expected(Reweighed(x, Unit), proposal.returns)
    IN  (\E x, y \in Low("bear")..High("bear") :
            Above(average(x), Index) /\ ~AtLeast(average(y), Index)) => InsideBand(flip)
=============================================================================
