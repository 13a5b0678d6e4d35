--------------------------- MODULE MCCompanyHistory --------------------------
(***************************************************************************)
(* A company of three fiscal years of four quarters of 91 days.  Quarter k *)
(* earns 10 + k.  It splits its shares four for one in the second year and *)
(* may restate a year, amend it, change the concept of its revenue or      *)
(* leave it untagged, and it may have reported under IFRS before or move   *)
(* abroad in its third year.                                               *)
(***************************************************************************)
EXTENDS CompanyHistory

MCChain ==
    [revenue |-> <<"Revenues", "SalesRevenueNet">>,
     net_income |-> <<"NetIncomeLoss">>,
     shares_diluted |-> <<"DilutedShares">>,
     eps_diluted |-> <<"EarningsPerShareDiluted">>,
     cash |-> <<"Cash">>]

QuarterEndDay(k) == 91 * k
Earned(k) == 10 + k
Sum4(y) == Earned(4*y) + Earned(4*y - 1) + Earned(4*y - 2) + Earned(4*y - 3)

\* The rows of quarters i..j and of year y, an instant at the end of it
Flow(c, i, j, val) ==
    [concept |-> c, start |-> QuarterEndDay(i - 1) + 1, end |-> QuarterEndDay(j), val |-> val]
Annual(c, y, val) == Flow(c, 4*y - 3, 4*y, val)
Instant(c, day, val) == [concept |-> c, start |-> NoDate, end |-> day, val |-> val]
Split(day) == [concept |-> "StockSplitRatio", start |-> NoDate, end |-> day, val |-> 4]

Filing(accn, form, filed, fy, fp, rows) ==
    [accn |-> accn, form |-> form, filed |-> filed, fy |-> fy, fp |-> fp, rows |-> rows]

Debt(y, noncurrent) ==
    {Instant("LongTermDebtNoncurrent", 364 * y, noncurrent),
     Instant("LongTermDebtCurrent", 364 * y, 5), Instant("Cash", 364 * y, 7 + y)}

First ==
    Filing(1, "10-K", 400, 1, 0,
           {Annual("Revenues", 1, Sum4(1)), Annual("NetIncomeLoss", 1, 8),
            Annual("DilutedShares", 1, 100), Annual("EarningsPerShareDiluted", 1, 8),
            Instant("CoverShares", 395, 100), Instant("Float", 300, 900)} \cup Debt(1, 30))

Third(extra) ==
    Filing(2, "10-Q", 667, 2, 3,
           {Flow("Revenues", 5, 7, Earned(5) + Earned(6) + Earned(7)), Flow("Revenues", 7, 7, Earned(7)),
            Flow("Revenues", 1, 3, Earned(1) + Earned(2) + Earned(3)), Flow("Revenues", 3, 3, Earned(3)),
            Instant("CoverShares", 660, 400)} \cup extra)

\* The split is reported when announced and when effective.
Splits == {Split(600), Split(640)}

Second(concept, firstYear) ==
    Filing(3, "10-K", 768, 2, 0,
           {Annual(concept, 2, Sum4(2)), Annual(concept, 1, firstYear),
            Annual("NetIncomeLoss", 2, 9), Annual("NetIncomeLoss", 1, 8),
            Annual("DilutedShares", 2, 420), Annual("EarningsPerShareDiluted", 2, 2)}
           \cup (IF firstYear = Sum4(1) THEN {} ELSE {Annual("DilutedShares", 1, 400)})
           \cup Debt(2, 33) \cup {r \in Debt(1, 31) : r.concept # "Cash"})

Ninth ==
    Filing(4, "10-Q", 850, 3, 1,
           {Flow("Revenues", 9, 9, Earned(9)), Flow("Revenues", 5, 5, Earned(5))})

Amended ==
    Filing(5, "10-K/A", 900, 2, 0,
           {Annual("Revenues", 2, Sum4(2) + 1), Annual("DilutedShares", 2, 420)})

Last3 ==
    Filing(6, "10-K", 1130, 3, 0,
           {Annual("Revenues", 3, Sum4(3)), Annual("Revenues", 2, Sum4(2)),
            Annual("NetIncomeLoss", 3, 10), Annual("DilutedShares", 3, 430)} \cup Debt(3, 30))

\* What a foreign issuer files: an interim report and, later, an annual one.
Abroad(accn, form, filed, y) ==
    Filing(accn, form, filed, y, 0, {Instant("IfrsRevenue", filed - 30, 50)})

MCCatalog ==
    {Abroad(7, "6-K", 390, 1), Abroad(8, "20-F", 870, 3),
     First, Third({}), Third(Splits), Second("Revenues", Sum4(1)), Second("Revenues", Sum4(1) + 2),
     Second("SalesRevenueNet", Sum4(1) + 2), Second("Unmapped", Sum4(1)), Ninth, Amended, Last3}

MCRunDates == {500, 700, 800, 860}
MCQuotes == {[price |-> {}, shares |-> {}, cap |-> {}], [price |-> {3}, shares |-> {40}, cap |-> {1200}]}

ASSUME MCCatalogIsRegular == RegularCatalog

\* The label of an annual fact is the fiscal year it belongs to, although a
\* row carries the year of its filing and 52-week years drift against the
\* calendar (normalize/periods.py).
LabelsAreFiscalYears ==
    \A d \in Views : \A f \in seen[d].facts :
        f.kind = "filed" => f.label = <<f.end \div 364, 0>>

\* Once a split is known, every year's share count is available in today's
\* shares: adjusted exactly once, or filed after the split.
Comparable(view, f) == {g \in view : g.kind = "adjusted" /\ f.id \in g.inputs}

SplitOnce ==
    \A d \in Views : SplitEvents(Readable(made, d)) # {} =>
        LET view == seen[d].facts
            current == {f \in view : f.kind = "filed" /\ IsCurrent(f)}
            inTodaysShares(f) == IF Comparable(view, f) = {} THEN {f} ELSE Comparable(view, f)
        IN  \A f \in current : \A g \in inTodaysShares(f) :
                /\ f.metric = "shares_diluted" => g.val \in 400..430
                /\ f.metric = "eps_diluted" => g.val = 2

\* A trailing figure is what the last four quarters earned: whenever its year
\* ends where its year to date begins, and that year was not restated
\* (normalize/ttm.py, THE ARITHMETIC).
TrailingIsAYear ==
    \A d \in Views :
        LET view == seen[d].facts
        IN  \A f \in view : f.kind = "ttm" =>
                LET year == CHOOSE g \in view : g.id \in f.inputs /\ g.kind = "filed"
                    to == f.end \div 91
                    of == year.end \div 364
                IN  (year.val = Sum4(of) /\ f.label \in {<<of, 0>>} \cup {<<of + 1, q>> : q \in 1..3}) =>
                        f.val = Earned(to) + Earned(to - 1) + Earned(to - 2) + Earned(to - 3)
=============================================================================
