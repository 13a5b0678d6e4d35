--------------------------- MODULE CompanyPicture ---------------------------
(***************************************************************************)
(* What is assembled from a run's facts: the scope decision, the market    *)
(* snapshot with its share count and bridge to enterprise value, and the   *)
(* periods of the factsheet (data/normalize scope, shares, snapshot,       *)
(* factsheet).  A value that may be missing is a set of at most one        *)
(* element.  A quote is [price, shares, cap], each optional.               *)
(***************************************************************************)
EXTENDS CompanyFacts

CONSTANTS
    PeriodMetrics,      \* the metrics a period of the factsheet shows
    CoverShares,        \* the cover page's share count
    BalanceShares,      \* the balance sheet's share count
    FloatConcept,       \* the filer's own public float
    OutsideUsGaap       \* the concepts of other taxonomies (dei, ifrs-full)

MinAnnualFilings == 2
MinPriced == 1          \* a price or a share count of zero is a missing one

-----------------------------------------------------------------------------
(* Scope.                                                                  *)

ExcludedSic == 6000..6499 \cup 6500..6599 \cup 6700..6799

ForeignAnnualForms == {"20-F", "40-F"}

\* A foreign private issuer, by the list of recent forms and the taxonomies of the
\* payload.  Neither is dated: all the filings made by now count.
ForeignIssuer(p) ==
    \/ \E f \in p : f.form \in ForeignAnnualForms
    \/ Rows(p) # {} /\ \A e \in Rows(p) : e.concept \in OutsideUsGaap

\* The annual periods are counted in v, what a run of some date may read of p.
ScopeLevel(p, v, sic) ==
    IF ForeignIssuer(p) THEN "partial"
    ELSE IF Cardinality(AnnualEnds(v)) < MinAnnualFilings THEN "unsupported"
    ELSE IF sic \in ExcludedSic THEN "partial" ELSE "supported"

-----------------------------------------------------------------------------
(* Shares: the first candidate that is not absurd beside the public float. *)

LatestEntry(p, d, c) ==
    LET rows == {e \in Rows(p) : e.concept = c /\ e.val # 0 /\ e.filed <= d}
        newest(e) == \A x \in rows : x.filed < e.filed \/ (x.filed = e.filed /\ x.end <= e.end)
    IN  IF rows = {} THEN {} ELSE {CHOOSE e \in rows : newest(e)}

Vals(entries) == {e.val : e \in entries}

\* What a run dated d may read of the counts a filer states beside its facts
Stated(p, d) ==
    [cover |-> LatestEntry(p, d, CoverShares), balance |-> LatestEntry(p, d, BalanceShares),
     float |-> LatestEntry(p, d, FloatConcept)]

PublicFloat(n) == Vals(n.float)

\* At least a quarter of the float and at most fifty times it; what cannot
\* be checked is accepted.
PassesFloatCheck(shares, price, float) ==
    /\ shares >= MinPriced
    /\ \A pr \in price, fl \in float :
          fl > 0 => /\ 4 * shares * pr >= fl
                    /\ shares * pr <= 50 * fl

LatestFact(facts, m) ==
    LET plain == {f \in facts : f.kind = "filed" /\ f.metric = m /\ IsCurrent(f)}
        adjusted == {f \in facts : f.kind = "adjusted" /\ f.metric = m /\ IsCurrent(f)}
        pool == IF plain # {} THEN plain ELSE adjusted
    IN  IF pool = {} THEN {} ELSE {CHOOSE f \in pool : \A x \in pool : x.end <= f.end}

\* Filed counts first, then the provider's, then its capitalization.
ShareOptions(n, facts, quote) ==
    <<Vals(n.cover),
      Vals(n.balance),
      Vals(LatestFact(facts, "shares_diluted")),
      quote.shares,
      UNION {{c \div pr : c \in quote.cap} : pr \in quote.price}>>

Shares(n, facts, quote) ==
    LET options == ShareOptions(n, facts, quote)
        sound(i) == {s \in options[i] : PassesFloatCheck(s, quote.price, PublicFloat(n))}
        passing == {i \in DOMAIN options : sound(i) # {}}
    IN  IF passing = {} THEN {} ELSE sound(Min(passing))

-----------------------------------------------------------------------------
(* The snapshot: a missing part makes what is built on it missing.         *)

Snapshot(n, facts, quote) ==
    LET shares == Shares(n, facts, quote)
        cap == UNION {{pr * s : s \in shares} : pr \in quote.price}
        cash == Vals(LatestFact(facts, "cash"))
        debt == Vals(LatestFact(facts, "total_debt"))
    IN  [price |-> quote.price, shares |-> shares, cap |-> cap, cash |-> cash, debt |-> debt,
         ev |-> {x[1] + x[2] - x[3] : x \in cap \X debt \X cash}]

-----------------------------------------------------------------------------
(* The factsheet.                                                          *)

Shown(facts) == {f \in facts : f.kind = "filed" /\ f.metric \in PeriodMetrics /\ IsCurrent(f)}

\* A period is dated by whichever of its facts was filed last.
SheetPeriod(facts, label) ==
    LET present == {f \in Shown(facts) : f.label = label}
    IN  [label |-> label, end |-> LastFiled(present).end, values |-> present,
         filed |-> Provenance(present).filed,
         missing |-> PeriodMetrics \ {f.metric : f \in present}]

SheetPeriods(facts) == {SheetPeriod(facts, f.label) : f \in Shown(facts)}

TtmBlock(facts) == {f \in facts : f.kind = "ttm" /\ IsCurrent(f)}

\* The accessions registered as sources: those of the facts in the periods.
Sources(facts) == {f.accn : f \in Shown(facts)}

NoSheet == [periods |-> {}, ttm |-> {}, sources |-> {}, market |-> <<>>]

\* No sheet without a period.
Sheet(n, facts, quote) ==
    IF Shown(facts) = {} THEN NoSheet
    ELSE [periods |-> SheetPeriods(facts), ttm |-> TtmBlock(facts),
          sources |-> Sources(facts), market |-> Snapshot(n, facts, quote)]
=============================================================================
