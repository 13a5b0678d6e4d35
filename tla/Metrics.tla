------------------------------ MODULE Metrics ------------------------------
(***************************************************************************)
(* calc: what compute_metrics makes of one factsheet, with the ledger that *)
(* records a derived fact for every number it emits (calc/facts.py,        *)
(* calc/lineage.py, calc/metrics, calc/valuation/multiples.py).            *)
(*                                                                         *)
(* A number is a fraction <<n, d>>, d > 0; one that may be missing is a    *)
(* set of at most one.  A reference to a fact is [id, val, filed] and may  *)
(* be missing too.  Wording, dotted paths and units other than fractions   *)
(* are left out; days are counted in years.                                *)
(*                                                                         *)
(* A factsheet is                                                          *)
(*   periods: the labels of its periods, newest first                      *)
(*   of:      label -> [kind, year, filed, val: field -> number]           *)
(*   market, ttm: field -> number      day: the date of the market         *)
(*   consensus, index: numbers         partial: a bank, an insurer, a REIT *)
(*   named:   the pairs of years its gaps name as a change of share basis  *)
(*   peers:   a sequence of [published, raw], each field -> number         *)
(***************************************************************************)
EXTENDS Discounting, Sequences, FiniteSets, TLC

-----------------------------------------------------------------------------
(* Numbers.                                                                *)

Over(a, b) ==
    {IF y[1] > 0 THEN <<x[1] * y[2], x[2] * y[1]>> ELSE <<-x[1] * y[2], -y[1] * x[2]>> :
        x \in a, y \in {z \in b : z[1] # 0}}
Minus(a, b) == {<<x[1] * y[2] - y[1] * x[2], x[2] * y[2]>> : x \in a, y \in b}
Plus(a, b) == {<<x[1] * y[2] + y[1] * x[2], x[2] * y[2]>> : x \in a, y \in b}
Less(x, y) == x[1] * y[2] < y[1] * x[2]
Positive(a) == {x \in a : x[1] > 0}

\* a / b - 1, refused off a base that is not positive
Growth(a, b) == Minus(Over(a, Positive(b)), {<<1, 1>>})

\* The yearly growth, to the percent below
Cagr(a, b, years) ==
    LET root(x, y) == CHOOSE g \in -99..SolveHigh * 10 :
                         LET below(h) == (100 + h)^years * y[1] * x[2] <= x[1] * y[2] * 100^years
                         IN  below(g) /\ ~below(g + 1)
    IN  IF years = 0 THEN {} ELSE {<<root(x, y), 100>> : x \in Positive(a), y \in Positive(b)}

\* A fraction of more than ten is shown as unavailable.
Sane(x) == (x[1] - 1) \div x[2] < 10 /\ x[1] \div x[2] >= -10

Median(s) ==
    LET sorted == SortSeq(s, Less)
        n == Len(s)
    IN  IF n % 2 = 1 THEN {sorted[(n + 1) \div 2]}
        ELSE Over(Plus({sorted[n \div 2]}, {sorted[n \div 2 + 1]}), {<<2, 1>>})

-----------------------------------------------------------------------------
(* The ledger: facts by id, the numbers shown, and the ids minted for what *)
(* the factsheet carries without one.                                      *)

Id(metric, p) == <<metric, p, 0, 0>>
Cell(metric, p, r, tg) == <<metric, p, r, tg>>
EmptyLedger == [facts |-> <<>>, shown |-> <<>>, minted |-> {}]

Vals(refs) == {r.val : r \in refs}
Refs(field, p, number, filed) == {[id |-> Id(field, p), val |-> x, filed |-> filed] : x \in number}
Reported(s, p, field) ==
    IF p \in DOMAIN s.of THEN Refs(field, p, s.of[p].val[field], s.of[p].filed) ELSE {}
MarketRef(s, field) == Refs(field, "market", s.market[field], s.day)
TtmRef(s, field) == Refs(field, "ttm", s.ttm[field], s.day)
ConsensusRef(s) == Refs("consensus_eps_next_fy", "market", s.consensus, s.day)
IndexRef(s) == Refs("sp500_forward_pe", "market", s.index, s.day)

\* mutant: the date of the first input
LatestFiled_First(refs) == CHOOSE d \in {r.filed : r \in refs} : \A r \in refs : d <= r.filed

LatestFiled(refs) == CHOOSE d \in {r.filed : r \in refs} : \A r \in refs : r.filed <= d

Emission(id, number, inputs, isFraction, notApplicable) ==
    [id |-> id, number |-> number, inputs |-> inputs, isFraction |-> isFraction,
     notApplicable |-> notApplicable]

FactsOf(es) ==
    LET having == {e \in es : e.number # {}}
        Fact(e) == [val |-> CHOOSE x \in e.number : TRUE, filed |-> LatestFiled(e.inputs),
                    inputs |-> {r.id : r \in e.inputs}]
    IN  [id \in {e.id : e \in having} |-> Fact(CHOOSE e \in having : e.id = id)]

ShownOf(es) ==
    LET Shown(e) == [number |-> IF e.isFraction THEN {x \in e.number : Sane(x)} ELSE e.number, fact |-> e.id,
                     notApplicable |-> e.notApplicable /\ e.number = {}]
    IN  [id \in {e.id : e \in es} |-> Shown(CHOOSE e \in es : e.id = id)]

MintedFor(es) == {r.id : r \in {x \in UNION {e.inputs : e \in es} : x.id[2] = "market"}}

\* Two functions as one, the first where both are defined
Merged(f, g) == [x \in DOMAIN f \cup DOMAIN g |-> IF x \in DOMAIN f THEN f[x] ELSE g[x]]

\* mutant: the last fact of an id wins
Emit_LastWins(l, es) ==
    [facts |-> Merged(FactsOf(es), l.facts), shown |-> Merged(ShownOf(es), l.shown),
     minted |-> l.minted \cup MintedFor(es)]

\* One fact per id, the first one wins; the number shown is the new one.
Emit(l, es) ==
    [facts |-> Merged(l.facts, FactsOf(es)), shown |-> Merged(ShownOf(es), l.shown),
     minted |-> l.minted \cup MintedFor(es)]

DerivedRef(l, id) ==
    LET v == l.shown[id]
    IN  IF v.number = {} THEN {}
        ELSE {[id |-> v.fact, val |-> l.facts[v.fact].val, filed |-> l.facts[v.fact].filed]}

Ratio(id, a, b, isFraction, blocked) ==
    Emission(id, IF blocked THEN {} ELSE Over(Vals(a), Vals(b)), a \cup b, isFraction, blocked)

-----------------------------------------------------------------------------
(* Periods and share bases.                                                *)

Labels(s) == DOMAIN s.of
Newest(places) == CHOOSE i \in places : \A j \in places : i <= j
Oldest(places) == CHOOSE i \in places : \A j \in places : j <= i

\* The places of the annual periods in the factsheet
Annuals(s) == {i \in DOMAIN s.periods : s.of[s.periods[i]].kind = "FY"}
Annual(s) == s.periods[IF Annuals(s) # {} THEN Newest(Annuals(s)) ELSE 1]
Balance(s) == s.periods[1]
ComparablePrior(s, p) ==
    {q \in Labels(s) : s.of[q].kind = s.of[p].kind /\ s.of[q].year = s.of[p].year - 1}

\* Years next to each other whose share counts differ by half or more, and
\* the years the gaps name
Breaks(s) ==
    LET shares(i) == Vals(Reported(s, s.periods[i], "shares_diluted"))
        year(i) == s.of[s.periods[i]].year
        next(i, j) == i < j /\ \A k \in Annuals(s) : k <= i \/ j <= k
        jumps(i, j) == \E x \in shares(i), y \in shares(j) :
                          /\ y[1] # 0
                          /\ LET r == CHOOSE q \in Over({x}, {y}) : TRUE
                             IN  2 * r[1] >= 3 * r[2] \/ 3 * r[1] <= 2 * r[2]
        breaks == {x \in Annuals(s) \X Annuals(s) : next(x[1], x[2]) /\ jumps(x[1], x[2])}
    IN  {<<year(x[1]), year(x[2])>> : x \in breaks} \cup s.named

\* mutant: the years between are not looked at
PerShare_NoBreaks(s, field, p, q) ==
    [new |-> Reported(s, p, field), old |-> Reported(s, q, field), blocked |-> FALSE]

\* The two ends of a per-share comparison, split-adjusted where that is
\* published; it is refused across a break neither end is adjusted for.
PerShare(s, field, p, q) ==
    LET adjusted(x) == Reported(s, x, IF field = "eps_diluted" THEN "eps_adjusted" ELSE "shares_adjusted")
        best(x) == IF adjusted(x) # {} THEN adjusted(x) ELSE Reported(s, x, field)
        between == {b \in Breaks(s) : /\ s.of[p].kind = "FY"
                                      /\ s.of[q].year <= b[2] /\ b[1] <= s.of[p].year}
    IN  [new |-> best(p), old |-> best(q),
         blocked |-> between # {} /\ adjusted(p) = {} /\ adjusted(q) = {}]

-----------------------------------------------------------------------------
(* Metrics of reported figures.                                            *)

FreeCash(s, p) == Minus(Vals(Reported(s, p, "op_cash_flow")), Vals(Reported(s, p, "capex")))
FreeCashInputs(s, p) == Reported(s, p, "op_cash_flow") \cup Reported(s, p, "capex")

Margins(s, p) ==
    LET of(metric, field, blocked) ==
            Ratio(Id(metric, p), Reported(s, p, field), Reported(s, p, "revenue"), TRUE, blocked)
    IN  {of("gross_margin", "gross_profit", s.partial), of("operating_margin", "operating_income", FALSE),
         of("net_margin", "net_income", FALSE),
         Emission(Id("fcf_margin", p),
                  IF s.partial THEN {} ELSE Over(FreeCash(s, p), Vals(Reported(s, p, "revenue"))),
                  FreeCashInputs(s, p) \cup Reported(s, p, "revenue"), TRUE, s.partial)}

\* From one period to another: over some years, or from one to the next (0)
Grown(a, b, years) == IF years = 0 THEN Growth(a, b) ELSE Cagr(a, b, years)

\* The names growth goes by, from one year to the next and over several
YearlyName == [revenue |-> "revenue_yoy", net_income |-> "net_income_yoy",
               eps_diluted |-> "eps_yoy", fcf |-> "fcf_yoy"]
SpanName == [revenue |-> "revenue_cagr", net_income |-> "net_income_cagr",
             eps_diluted |-> "eps_diluted_cagr", fcf |-> "fcf_cagr"]

\* Of free cash flow unless blocked
Comparison(s, p, q, years, noFreeCash) ==
    LET name == IF years = 0 THEN YearlyName ELSE SpanName
        of(field) == Emission(Id(name[field], p),
                              Grown(Vals(Reported(s, p, field)), Vals(Reported(s, q, field)), years),
                              Reported(s, p, field) \cup Reported(s, q, field), TRUE, FALSE)
        eps == PerShare(s, "eps_diluted", p, q)
    IN  {of("revenue"), of("net_income"),
         Emission(Id(name["eps_diluted"], p),
                  IF eps.blocked THEN {} ELSE Grown(Vals(eps.new), Vals(eps.old), years),
                  eps.new \cup eps.old, TRUE, FALSE),
         Emission(Id(name["fcf"], p),
                  IF noFreeCash THEN {} ELSE Grown(FreeCash(s, p), FreeCash(s, q), years),
                  FreeCashInputs(s, p) \cup FreeCashInputs(s, q), TRUE, noFreeCash)}

YearOverYear(s) ==
    UNION {UNION {Comparison(s, p, q, 0, s.partial) : q \in ComparablePrior(s, p)} :
              p \in Labels(s)}

\* Over the whole span of annual periods, counted by their number
AllCagr(s) ==
    LET years == Cardinality(Annuals(s)) - 1
    IN  IF years < 1 THEN {} ELSE Comparison(s, Annual(s), s.periods[Oldest(Annuals(s))], years, FALSE)

\* The places of the years whose free cash flow a valuation starts from: those
\* of the last three that have both parts
BaseYears(s) ==
    {i \in Annuals(s) : /\ Cardinality({j \in Annuals(s) : j < i}) < 3
                        /\ FreeCash(s, s.periods[i]) # {}}
AverageName(years) ==
    IF years = 1 THEN "fcf_average_1y" ELSE IF years = 2 THEN "fcf_average_2y" ELSE "fcf_average_3y"

Accumulated(s, used) ==
    LET sum[places \in SUBSET used] ==
            IF places = {} THEN {<<0, 1>>}
            ELSE Plus(sum[places \ {Newest(places)}], FreeCash(s, s.periods[Newest(places)]))
    IN  sum[used]

FcfBase(s) ==
    LET used == BaseYears(s)
    IN  IF used = {} THEN {}
        ELSE {Emission(Id(AverageName(Cardinality(used)), s.periods[Newest(used)]),
                       Over(Accumulated(s, used), {<<Cardinality(used), 1>>}),
                       UNION {FreeCashInputs(s, s.periods[i]) : i \in used}, FALSE, FALSE)}

\* What stands for the base: the average, or the year's own free cash flow
FcfBaseId(s) == IF FcfBase(s) = {} THEN Id("fcf", Annual(s)) ELSE (CHOOSE e \in FcfBase(s) : TRUE).id

Days(s, p) ==
    {Ratio(Id("days_sales_outstanding", p), Reported(s, p, "receivables"), Reported(s, p, "revenue"), FALSE, FALSE),
     Ratio(Id("days_inventory", p), Reported(s, p, "inventory"), Reported(s, p, "cost_of_revenue"), FALSE, FALSE)}

Dilution(s, p, q) ==
    LET n == PerShare(s, "shares_diluted", p, q)
    IN  Emission(Id("dilution_yoy", p), IF n.blocked THEN {} ELSE Growth(Vals(n.new), Vals(n.old)),
                 n.new \cup n.old, TRUE, FALSE)

Ebitda(s, a) ==
    LET income == Reported(s, a, "operating_income")
        depreciation == Reported(s, a, "depreciation_amortization")
    IN  Emission(Id("ebitda", a), IF s.partial THEN {} ELSE Plus(Vals(income), Vals(depreciation)),
                 income \cup depreciation, FALSE, s.partial)

CapexIntensity(s, a) ==
    Ratio(Id("capex_intensity", a), Reported(s, a, "capex"), Reported(s, a, "revenue"), TRUE, s.partial)

\* Annual figures cover the interest, those of the newest balance sheet the rest.
BalanceSheet(s, a, b) ==
    LET debt == Reported(s, b, "total_debt")
        cash == Reported(s, b, "cash")
    IN  {Emission(Id("net_debt", b), Minus(Vals(debt), Vals(cash)), debt \cup cash, FALSE, FALSE),
         Ratio(Id("interest_coverage", a), Reported(s, a, "operating_income"), Reported(s, a, "interest_expense"),
               FALSE, FALSE),
         Ratio(Id("current_ratio", b), Reported(s, b, "current_assets"), Reported(s, b, "current_liabilities"),
               FALSE, FALSE)}

SbcPctRevenue(s, a) ==
    Ratio(Id("sbc_pct_revenue", a), Reported(s, a, "sbc"), Reported(s, a, "revenue"), TRUE, FALSE)

BookValuePerShare(s, b) ==
    Ratio(Id("book_value_per_share", b), Reported(s, b, "total_equity"), Reported(s, b, "shares_diluted"),
          FALSE, FALSE)

ReturnOnEquity(s, a) ==
    Ratio(Id("roe", a), Reported(s, a, "net_income"), Reported(s, a, "total_equity"), TRUE, FALSE)

Fundamentals(s) ==
    LET a == Annual(s)
        b == Balance(s)
    IN  {Emission(Id("fcf", a), IF s.partial THEN {} ELSE FreeCash(s, a), FreeCashInputs(s, a), FALSE, s.partial),
         Ebitda(s, a), CapexIntensity(s, a), SbcPctRevenue(s, a), BookValuePerShare(s, b), ReturnOnEquity(s, a)}
        \cup BalanceSheet(s, a, b)
        \cup (UNION {Margins(s, p) : p \in Labels(s)}) \cup YearOverYear(s) \cup AllCagr(s) \cup FcfBase(s)
        \cup (UNION {Days(s, p) : p \in {a} \cup ComparablePrior(s, a)})
        \cup {Dilution(s, a, q) : q \in ComparablePrior(s, a)}

-----------------------------------------------------------------------------
(* Multiples: the price against the trailing year if it is known, the last *)
(* full year otherwise.                                                    *)

Parts(metric) ==
    IF metric = "ebitda_ttm" THEN <<"operating_income", "depreciation_amortization">> ELSE <<"op_cash_flow", "capex">>
Total(id, f, g) ==
    Emission(id, IF id[1] = "ebitda_ttm" THEN Plus(Vals(f), Vals(g)) ELSE Minus(Vals(f), Vals(g)),
             f \cup g, FALSE, FALSE)

\* mutant: a part of a trailing sum that is missing is taken from the year
DerivedTtm_Mixed(s, metric) ==
    LET flow(x) == IF TtmRef(s, x) # {} THEN TtmRef(s, x) ELSE Reported(s, Annual(s), x)
        f == flow(Parts(metric)[1])
        g == flow(Parts(metric)[2])
    IN  IF s.partial \/ f = {} \/ g = {} THEN {} ELSE {Total(Id(metric, Annual(s)), f, g)}

\* All of its parts, or there is none.
DerivedTtm(s, metric) ==
    LET f == TtmRef(s, Parts(metric)[1])
        g == TtmRef(s, Parts(metric)[2])
    IN  IF s.partial \/ f = {} \/ g = {} THEN {} ELSE {Total(Id(metric, Annual(s)), f, g)}

FlowRef(s, field) ==
    IF TtmRef(s, field) # {} THEN TtmRef(s, field) ELSE Reported(s, Annual(s), field)

ReportedMultiples(s) ==
    LET a == Annual(s)
        b == Balance(s)
        cap == MarketRef(s, "market_cap")
        debt == Reported(s, b, "total_debt")
        cash == Reported(s, b, "cash")
    IN  {Ratio(Id("pe", a), MarketRef(s, "price"), FlowRef(s, "eps_diluted"), FALSE, FALSE),
         Ratio(Id("forward_pe", a), MarketRef(s, "price"), ConsensusRef(s), FALSE, FALSE),
         Ratio(Id("p_s", a), cap, FlowRef(s, "revenue"), FALSE, FALSE),
         Ratio(Id("p_b", b), cap, Reported(s, b, "total_equity"), FALSE, FALSE)}
        \cup DerivedTtm(s, "ebitda_ttm")
        \cup DerivedTtm(s, "fcf_ttm")
        \cup (IF MarketRef(s, "enterprise_value") # {} THEN {}
              ELSE {Emission(Id("enterprise_value", b), Minus(Plus(Vals(cap), Vals(debt)), Vals(cash)),
                             cap \cup debt \cup cash, FALSE, FALSE)})

EnterpriseValue(s, l) ==
    IF MarketRef(s, "enterprise_value") # {} THEN MarketRef(s, "enterprise_value")
    ELSE DerivedRef(l, Id("enterprise_value", Balance(s)))

\* What is made of free cash flow is not applicable where that is not.
FcfRef(s, l) == DerivedRef(l, Id("fcf", Annual(s)))
NoFcf(s, l) == l.shown[Id("fcf", Annual(s))].notApplicable

FcfConversion(s, l) ==
    Ratio(Id("fcf_conversion", Annual(s)), FcfRef(s, l), Reported(s, Annual(s), "net_income"), TRUE, NoFcf(s, l))
FcfYield(s, l) ==
    Ratio(Id("fcf_yield", Annual(s)), FcfRef(s, l), MarketRef(s, "market_cap"), TRUE, NoFcf(s, l))
SbcPctFcf(s, l) ==
    Ratio(Id("sbc_pct_fcf", Annual(s)), Reported(s, Annual(s), "sbc"), FcfRef(s, l), TRUE, NoFcf(s, l))

Leverage(s, l) ==
    LET b == Balance(s) ebitda == Id("ebitda", Annual(s))
    IN  Ratio(Id("net_debt_to_ebitda", b), DerivedRef(l, Id("net_debt", b)), DerivedRef(l, ebitda), FALSE,
              l.shown[ebitda].notApplicable)

DerivedMetrics(s, l) ==
    LET a == Annual(s)
        trailing(metric, year) == DerivedRef(l, Id(IF Id(metric, a) \in DOMAIN l.shown THEN metric ELSE year, a))
        ev == EnterpriseValue(s, l)
    IN  {FcfConversion(s, l), FcfYield(s, l), SbcPctFcf(s, l), Leverage(s, l),
         Ratio(Id("ev_ebitda", a), ev, trailing("ebitda_ttm", "ebitda"), FALSE, s.partial),
         Ratio(Id("ev_revenue", a), ev, FlowRef(s, "revenue"), FALSE, s.partial),
         Ratio(Id("p_fcf", a), MarketRef(s, "market_cap"), trailing("fcf_ttm", "fcf"), FALSE, NoFcf(s, l))}

-----------------------------------------------------------------------------
(* Comparisons, and the growth the price implies.                          *)

\* The multiples peers carry themselves; two make a median.
PeerMedian(s, field) ==
    LET having == SelectSeq(s.peers, LAMBDA p : p.published[field] # {})
    IN  IF Len(having) < 2 THEN {}
        ELSE Median([i \in DOMAIN having |-> CHOOSE x \in having[i].published[field] : TRUE])

\* The median is a literal of the formula, not an input.
Premium(id, own, other, inputs) == Emission(id, Growth(Vals(own), other), inputs, TRUE, FALSE)
PremiumName == [pe |-> "pe_premium_vs_peers", ev_ebitda |-> "ev_ebitda_premium_vs_peers",
                ev_revenue |-> "ev_revenue_premium_vs_peers", p_fcf |-> "p_fcf_premium_vs_peers",
                p_s |-> "p_s_premium_vs_peers", p_b |-> "p_b_premium_vs_peers"]
PremiumId(s, field) == Id(PremiumName[field], Annual(s))

Implied(s, l, id, base, r, tg) ==
    LET ev == MarketRef(s, "enterprise_value")
        fcf == DerivedRef(l, Id("fcf", Annual(s)))
        whole(x) == x[1] \div x[2]
    IN  Emission(id, IF Positive(Vals(fcf)) = {} THEN {}
                     ELSE {<<g, 100>> : g \in UNION {ImpliedGrowth(whole(x), whole(y), r, tg) :
                                                       x \in Vals(ev), y \in base}},
                 ev \cup fcf, TRUE, l.shown[Id("fcf", Annual(s))].notApplicable)

\* assumed: [r, tg], the rates of the headline
Comparisons(s, l, assumed) ==
    LET a == Annual(s)
        d(metric) == DerivedRef(l, Id(metric, a))
        fcf == Vals(d("fcf"))
    IN  {Premium(PremiumId(s, m), d(m), PeerMedian(s, m), d(m)) : m \in {"pe", "ev_ebitda"}}
        \cup {Premium(Id("forward_pe_premium_vs_sp500", a), d("forward_pe"), Vals(IndexRef(s)),
                      d("forward_pe") \cup IndexRef(s)),
              Implied(s, l, Id("implied_fcf_cagr", a), fcf, assumed.r, assumed.tg),
              Implied(s, l, Id("implied_fcf_cagr_smoothed_base", a),
                      l.shown[FcfBaseId(s)].number, assumed.r, assumed.tg)}
        \cup {Implied(s, l, Cell("implied_fcf_cagr", a, r, tg), fcf, r, tg) :
                 r \in SensitivityRates, tg \in SensitivityGrowths}

ComputeMetrics(s, assumed) ==
    LET l1 == Emit(EmptyLedger, Fundamentals(s) \cup ReportedMultiples(s))
        l2 == Emit(l1, DerivedMetrics(s, l1))
    IN  Emit(l2, Comparisons(s, l2, assumed))

-----------------------------------------------------------------------------
(* Quality flags.                                                          *)

\* By how many thresholds (in percent) x exceeds: once low, three times
\* medium, six times high
Severity(x, threshold) ==
    LET reaches(k) == 100 * x[1] >= k * threshold * x[2]
    IN  IF ~reaches(1) THEN "none" ELSE IF ~reaches(3) THEN "low" ELSE IF ~reaches(6) THEN "medium" ELSE "high"

Minus1(x) == <<x[1] - x[2], x[2]>>
AtLeastLow(severity) == IF severity = "none" THEN "low" ELSE severity

QualityFlags(s, l) ==
    LET a == Annual(s)
        shown(metric, p) == l.shown[Id(metric, p)].number
        rise(metric) == UNION {{Minus1(x) : x \in Over(shown(metric, a), shown(metric, q))} : q \in ComparablePrior(s, a)}
        rising(flag, metric) == {[flag |-> flag, severity |-> Severity(x, 5)] : x \in Positive(rise(metric))}
        shrunk == {<<-x[1], x[2]>> : x \in UNION {shown("dilution_yoy", a) : q \in ComparablePrior(s, a)}}
        grown == UNION {shown("eps_yoy", a) : q \in ComparablePrior(s, a)}
        flags == rising("dso_rising", "days_sales_outstanding")
                 \cup rising("inventory_days_rising", "days_inventory")
                 \cup {[flag |-> "buyback_flatters_eps", severity |-> Severity(x, 2)] :
                           x \in IF Positive(grown) = {} THEN {} ELSE Positive(shrunk)}
                 \cup {[flag |-> "fcf_below_net_income",
                        severity |-> AtLeastLow(Severity(<<70 * x[2] - 100 * x[1], 100 * x[2]>>, 10))] :
                           x \in {y \in shown("fcf_conversion", a) : 100 * y[1] < 70 * y[2]}}
                 \cup {[flag |-> "sbc_heavy",
                        severity |-> AtLeastLow(Severity(<<100 * x[1] - 5 * x[2], 100 * x[2]>>, 5))] :
                           x \in {y \in shown("sbc_pct_revenue", a) : 100 * y[1] > 5 * y[2]}}
    IN  {f \in flags : f.severity # "none"}
=============================================================================
