---------------------------- MODULE MCValuation ----------------------------
(***************************************************************************)
(* Instance of Valuation: factsheets of companies whose true history is    *)
(* known, so that what calc/ says of growth and share counts can be held   *)
(* against it.  A company has three full years and the balance sheet of a  *)
(* quarter; it may split its shares, buy them back or issue more, amend an *)
(* old year, be a bank, and lack any of market, trailing and peer data.    *)
(***************************************************************************)
EXTENDS Valuation

Years == 2022..2024
Label(y) == <<"FY2022", "FY2023", "FY2024">>[y - 2021]
Quarter == "Q1-2025"

Fields == {"revenue", "gross_profit", "operating_income", "net_income", "op_cash_flow", "capex",
           "depreciation_amortization", "receivables", "inventory", "cost_of_revenue", "total_debt", "cash",
           "interest_expense", "current_assets", "current_liabilities", "sbc", "shares_diluted", "eps_diluted",
           "eps_adjusted", "shares_adjusted", "total_equity"}

Whole(n) == {<<n, 1>>}
Some(values) == [f \in Fields |-> IF f \in DOMAIN values THEN values[f] ELSE {}]

\* A company: net income and shares (on the basis of the first year) by year;
\* splits: year -> factor <<n, d>>; tagged: the factsheet carries adjusted
\* figures for the years before a split
Plain == [income |-> <<40, 44, 50>>, shares |-> <<100, 100, 100>>, split |-> 0, factor |-> <<2, 1>>, tagged |-> FALSE,
          named |-> {}, flow |-> <<70, 75, 80>>, debt |-> 100, amended |-> FALSE, partial |-> FALSE,
          market |-> TRUE, ttm |-> {}, peers |-> <<>>]

\* The year's figures as they were filed
Filed(c, y) ==
    LET i == y - 2021
        k == IF c.split # 0 /\ y >= c.split THEN c.factor ELSE <<1, 1>>
        before == c.split # 0 /\ y < c.split
        s == c.shares[i]
        n == c.income[i]
    IN  [kind |-> "FY", year |-> y, filed |-> IF c.amended /\ y = 2022 THEN 6 ELSE i + 1,
         val |-> Some([revenue |-> Whole(400 + 40 * i), gross_profit |-> Whole(200), operating_income |-> Whole(90),
                       net_income |-> Whole(n), op_cash_flow |-> Whole(c.flow[i]), capex |-> Whole(20),
                       depreciation_amortization |-> Whole(15), receivables |-> Whole(30 + 10 * i),
                       total_debt |-> Whole(c.debt), cash |-> Whole(50), sbc |-> Whole(25),
                       total_equity |-> Whole(300),
                       shares_diluted |-> {<<s * k[1], k[2]>>}, eps_diluted |-> {<<n * k[2], s * k[1]>>},
                       shares_adjusted |-> IF c.tagged /\ before THEN {<<s * c.factor[1], c.factor[2]>>} ELSE {},
                       eps_adjusted |-> IF c.tagged /\ before THEN {<<n * c.factor[2], s * c.factor[1]>>} ELSE {}])]

Market(c) ==
    [f \in {"price", "market_cap", "enterprise_value", "shares_outstanding"} |->
        IF ~c.market THEN {} ELSE [price |-> Whole(15), market_cap |-> Whole(1500), enterprise_value |-> Whole(1550),
                                   shares_outstanding |-> Whole(100)][f]]

Trailing(c) ==
    [f \in {"revenue", "eps_diluted", "operating_income", "depreciation_amortization", "op_cash_flow", "capex"} |->
        IF f \notin c.ttm THEN {}
        ELSE [revenue |-> Whole(540), eps_diluted |-> {<<1, 2>>}, operating_income |-> Whole(95),
              depreciation_amortization |-> Whole(16), op_cash_flow |-> Whole(85), capex |-> Whole(22)][f]]

Factsheet(c) ==
    [periods |-> <<Quarter, "FY2024", "FY2023", "FY2022">>,
     of |-> [p \in {Label(y) : y \in Years} |-> Filed(c, CHOOSE y \in Years : Label(y) = p)]
            @@ (Quarter :> [kind |-> "Q1", year |-> 2025, filed |-> 5,
                            val |-> Some([total_debt |-> Whole(c.debt), cash |-> Whole(50), total_equity |-> Whole(320),
                                          current_assets |-> Whole(90), current_liabilities |-> Whole(60)])]),
     market |-> Market(c), ttm |-> Trailing(c), day |-> 7,
     consensus |-> Whole(1), index |-> Whole(18), partial |-> c.partial, named |-> c.named, peers |-> c.peers,
     company |-> c]

-----------------------------------------------------------------------------
RawFields == {"market_cap", "revenue", "net_income", "ebitda", "total_debt", "cash", "total_equity", "fcf",
              "op_cash_flow", "capex"}
Peer(pe, cap, income) ==
    [published |-> [f \in PeerFields |-> IF f = "pe" THEN pe ELSE {}],
     raw |-> [f \in RawFields |-> IF f = "market_cap" THEN cap ELSE IF f = "net_income" THEN income ELSE {}]]

Published == <<Peer(Whole(20), {}, {}), Peer(Whole(30), {}, {})>>
Computed == <<Peer({}, Whole(200), Whole(10)), Peer({}, Whole(900), Whole(20)), Peer({}, {}, {})>>
Mixed == Published \o <<Peer({}, Whole(900), Whole(20))>>

Splitting == {[Plain EXCEPT !.split = y, !.factor = k, !.tagged = t, !.shares = s, !.income = n] :
                 y \in {2023, 2024}, k \in {<<2, 1>>, <<1, 2>>, <<10, 1>>}, t \in BOOLEAN,
                 s \in {<<100, 100, 100>>, <<100, 95, 90>>, <<100, 110, 120>>},
                 n \in {<<40, 44, 50>>, <<50, 44, 40>>}}
Trading == {[Plain EXCEPT !.ttm = w, !.peers = p, !.partial = b, !.market = m] :
               w \in {{}, {"revenue", "operating_income", "op_cash_flow", "capex"},
                      {"eps_diluted", "operating_income", "depreciation_amortization", "op_cash_flow"}},
               p \in {<<>>, Published, Computed, Mixed}, b \in BOOLEAN, m \in BOOLEAN}
Paying == {[Plain EXCEPT !.flow = f, !.debt = d, !.market = m, !.amended = a] :
              f \in {<<70, 75, 80>>, <<30, 70, 21>>, <<20, 15, 10>>}, d \in {100, 700, 2500},
              m \in BOOLEAN, a \in BOOLEAN}
Named == {[Plain EXCEPT !.named = {<<2024, 2023>>}, !.shares = <<100, 100, 92>>]}

MCFactsheets == {Factsheet(c) : c \in Splitting \cup Trading \cup Paying \cup Named}
MCRates == {[r |-> 9, tg |-> 3], [r |-> 8, tg |-> 4], [r |-> 3, tg |-> 4]}
MCOverrides == {{}, {25}}
MCRequests == {<<"pe", "peer_median", "dcf", "reverse_dcf">>, <<"historical", "dcf", "peer_median", "ev_ebitda", "p_b">>}

-----------------------------------------------------------------------------
\* A split is neither growth nor dilution: the growth of earnings per share
\* and of the share count, where they are shown, are those of the company's
\* own history whatever basis each year was filed on, and a buyback is said
\* to flatter earnings only where shares were bought back
\* (calc/metrics/growth.py per_share_inputs, sbc_dilution.py).
SplitsAreNotGrowth ==
    LET c == sheet.company
        truth(y) == <<c.income[y - 2021], c.shares[y - 2021]>>
        Same(shown, true) == \A x \in shown, z \in true : x[1] * z[2] = z[1] * x[2]
        shown(metric, y) == ledger.shown[Id(metric, Label(y))].number
    IN  Started =>
            /\ \A y \in 2023..2024 : Same(shown("eps_yoy", y), Growth({truth(y)}, {truth(y - 1)}))
            /\ shown("eps_diluted_cagr", 2024) \subseteq Cagr({truth(2024)}, {truth(2022)}, 2)
            /\ Same(shown("dilution_yoy", 2024), Growth({<<c.shares[3], 1>>}, {<<c.shares[2], 1>>}))
            /\ (\E f \in flags : f.flag = "buyback_flatters_eps") => c.shares[3] < c.shares[2]
=============================================================================
