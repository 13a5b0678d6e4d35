----------------------------- MODULE Valuation -----------------------------
(***************************************************************************)
(* calc/valuation/compute.py: one call of calculate_valuation.  The        *)
(* metrics are computed first; then every method the caller asked for is   *)
(* used or skipped, in the caller's order, on a second ledger that adopts  *)
(* the facts of the first; at last the two lists of facts are folded into  *)
(* one.  Since the second ledger knows every fact of the first, the two    *)
(* are one ledger here.                                                    *)
(*                                                                         *)
(* growth is the caller's growth rate, a set of at most one percentage.    *)
(***************************************************************************)
EXTENDS Metrics

CONSTANTS
    Factsheets,      \* the factsheets a call may be made for
    Rates,           \* the discount and terminal rates of the headline: [r, tg]
    Overrides,       \* the growth rates a caller may impose
    Requests         \* the lists of methods a caller may ask for

\* Finitely many periods, each under its label, the newest of them first
ASSUME FactsheetAssumption == \A s \in Factsheets :
    /\ IsFiniteSet(Labels(s)) /\ {"market", "ttm"} \cap Labels(s) = {}
    /\ s.periods \in Seq(Labels(s)) /\ s.periods # <<>>
    /\ s.day \in Nat /\ \A p \in Labels(s) : s.of[p].filed \in Nat

VARIABLES sheet, assumed, growth, todo, ledger, flags, medians, used, skipped

vars == <<sheet, assumed, growth, todo, ledger, flags, medians, used, skipped>>

MultipleMethods == {"pe", "forward_pe", "ev_ebitda", "ev_revenue", "p_fcf", "p_s", "p_b"}
PeerFields == {"pe", "ev_ebitda", "ev_revenue", "p_fcf", "p_s", "p_b", "fcf_yield"}

-----------------------------------------------------------------------------
(* Peers: a multiple the peer publishes, or the one of its raw figures.    *)

PeerMultiple(peer, field) ==
    LET raw == peer.raw
        cap == raw["market_cap"]
        fcf == IF raw["fcf"] # {} THEN raw["fcf"] ELSE Minus(raw["op_cash_flow"], raw["capex"])
        ev == Minus(Plus(cap, raw["total_debt"]), raw["cash"])
        computed == [pe |-> Over(cap, raw["net_income"]), ev_ebitda |-> Over(ev, raw["ebitda"]),
                     ev_revenue |-> Over(ev, raw["revenue"]), p_fcf |-> Over(cap, fcf),
                     p_s |-> Over(cap, raw["revenue"]), p_b |-> Over(cap, raw["total_equity"]),
                     fcf_yield |-> Over(fcf, cap)]
    IN  IF peer.published[field] # {} THEN peer.published[field] ELSE computed[field]

PeerTable(s) ==
    [field \in PeerFields |->
        LET having == SelectSeq(s.peers, LAMBDA p : PeerMultiple(p, field) # {})
        IN  IF Len(having) < 2 THEN {}
            ELSE Median([i \in DOMAIN having |-> CHOOSE x \in PeerMultiple(having[i], field) : TRUE])]

\* Those the company's own valuation holds too; its yield is among the cash flow figures.
Compared == PeerFields \ {"fcf_yield"}

\* The period in which compute_metrics put the company's own multiple
OwnId(s, field) == Id(field, IF field = "p_b" THEN Balance(s) ELSE Annual(s))

\* The premiums to the peers' medians, under the ids the metrics gave theirs
Premiums(s, l, table) ==
    {Premium(PremiumId(s, f), DerivedRef(l, OwnId(s, f)), table[f], DerivedRef(l, OwnId(s, f))) : f \in Compared}

-----------------------------------------------------------------------------
(* The forward valuation.                                                  *)

FairValue(s, l, id, g0, r, tg) ==
    LET a == Annual(s)
        base == DerivedRef(l, FcfBaseId(s))
        debt == Reported(s, Balance(s), "total_debt")
        cash == Reported(s, Balance(s), "cash")
        shares == IF MarketRef(s, "shares_outstanding") # {} THEN MarketRef(s, "shares_outstanding")
                  ELSE Reported(s, a, "shares_diluted")
        ev == {<<v, 1>> : v \in UNION {PresentValueFading(x[1] \div x[2], g0, r, tg) : x \in Vals(base)}}
        equity == Positive(Minus(ev, Minus(Vals(debt), Vals(cash))))
    IN  Emission(id, Over(equity, Vals(shares)), base \cup debt \cup cash \cup shares, FALSE, FALSE)

\* The caller's growth, or that of revenue in the past, in percent
AssumedGrowth(s, l, override) ==
    LET id == Id("revenue_cagr", Annual(s))
        past == IF id \in DOMAIN l.shown THEN {(100 * x[1]) \div x[2] : x \in l.shown[id].number} ELSE {}
    IN  IF override # {} THEN CHOOSE g \in override : TRUE ELSE GrowthInput(past)

FairValues(s, l, rates, override) ==
    LET g0 == AssumedGrowth(s, l, override)
        metric == "dcf_value_per_share"
    IN  {FairValue(s, l, Id(metric, Annual(s)), g0, rates.r, rates.tg)}
        \cup {FairValue(s, l, Cell(metric, Annual(s), r, tg), g0, r, tg) :
                 r \in SensitivityRates, tg \in SensitivityGrowths}

-----------------------------------------------------------------------------
(* The call.                                                               *)

Started == ledger # EmptyLedger

Init == /\ sheet \in Factsheets /\ assumed \in Rates /\ growth \in Overrides /\ todo \in Requests
        /\ ledger = EmptyLedger /\ flags = {} /\ medians = [f \in PeerFields |-> {}]
        /\ used = {} /\ skipped = {}

Compute == /\ ~Started
           /\ \E l \in {ComputeMetrics(sheet, assumed)} :
                 ledger' = l /\ flags' = QualityFlags(sheet, l)
           /\ UNCHANGED <<sheet, assumed, growth, todo, medians, used, skipped>>

\* The method at the head of the list is used if it is backed by a number.
Settle(method, backed) ==
    /\ todo' = Tail(todo)
    /\ used' = IF backed THEN used \cup {method} ELSE used
    /\ skipped' = IF backed THEN skipped ELSE skipped \cup {method}
    /\ UNCHANGED <<sheet, assumed, growth, flags>>

Asked(method) == Started /\ todo # <<>> /\ Head(todo) = method

\* A multiple the metrics hold
Multiple == \E method \in MultipleMethods :
                /\ Asked(method)
                /\ Settle(method, ledger.shown[OwnId(sheet, method)].number # {})
                /\ UNCHANGED <<ledger, medians>>

PeerMedians == /\ Asked("peer_median")
               /\ \E table \in {PeerTable(sheet)} :
                     /\ medians' = table
                     /\ ledger' = Emit(ledger, Premiums(sheet, ledger, table))
                     /\ Settle("peer_median", \E f \in PeerFields : table[f] # {})

Dcf == /\ Asked("dcf")
       /\ \E l \in {Emit(ledger, FairValues(sheet, ledger, assumed, growth))} :
             /\ ledger' = l
             /\ Settle("dcf", l.shown[Id("dcf_value_per_share", Annual(sheet))].number # {})
       /\ UNCHANGED medians

ReverseDcf == /\ Asked("reverse_dcf")
              /\ Settle("reverse_dcf", ledger.shown[Id("implied_fcf_cagr", Annual(sheet))].number # {})
              /\ UNCHANGED <<ledger, medians>>

\* No price history is published, and an unknown method is named.
Other == /\ Started /\ todo # <<>>
         /\ Head(todo) \notin MultipleMethods \cup {"peer_median", "dcf", "reverse_dcf"}
         /\ Settle(Head(todo), FALSE)
         /\ UNCHANGED <<ledger, medians>>

Next == Compute \/ Multiple \/ PeerMedians \/ Dcf \/ ReverseDcf \/ Other

Spec == Init /\ [][Next]_vars

-----------------------------------------------------------------------------
(* Properties.                                                             *)

\* Everything a recorded fact says it was made of can be found, and was filed
\* no later than the date the fact carries (calc/lineage.py latest_filed_at):
\* a view of the past that shows the fact may show all of it.
LineageSound ==
    \A id \in DOMAIN ledger.facts : \A i \in ledger.facts[id].inputs :
        IF i \in DOMAIN ledger.facts THEN ledger.facts[i].filed <= ledger.facts[id].filed
        ELSE IF i[2] \in Labels(sheet)
             THEN /\ sheet.of[i[2]].val[i[1]] # {}
                  /\ sheet.of[i[2]].filed <= ledger.facts[id].filed
             ELSE (i[2] = "ttm" \/ i \in ledger.minted) /\ sheet.day <= ledger.facts[id].filed

\* A fact another answer may cite is never rewritten by a later method
\* (calc/facts.py emit and adopt: the first one wins).
FactsAreFinal ==
    [][\A id \in DOMAIN ledger.facts : id \in DOMAIN ledger'.facts /\ ledger'.facts[id] = ledger.facts[id]]_ledger

\* No fact rests, however indirectly, on a trailing sum and on the same kind
\* of sum over a fiscal year (calc/metrics/ttm.py derived_ttm).
Flows == {"revenue", "eps_diluted", "operating_income", "depreciation_amortization", "op_cash_flow", "capex", "net_income"}

WindowsNotMixed ==
    LET Citing(ids) == ids \cup UNION {ledger.facts[i].inputs : i \in ids \cap DOMAIN ledger.facts}
        Sums(id) == {i \in Citing(Citing(Citing({id}))) : i[1] \in Flows}
    IN  \A id \in DOMAIN ledger.facts :
            ~ \E i, j \in Sums(id) : i[2] = "ttm" /\ j[2] \in Labels(sheet)

\* The growth said to be implied by the price is: at that rate the discounted
\* stream is worth no more than the enterprise value and one percent above it
\* more, unless the answer is an end of the range the solver searches: for the year's own
\* cash flow, in every cell of the grid, and for the smoothed base
\* (calc/valuation/reverse_dcf.py).
ImpliedGrowthInverts ==
    LET a == Annual(sheet)
        ev == Vals(MarketRef(sheet, "enterprise_value"))
        Inverts(id, base, r, tg) ==
            \A x \in ledger.shown[id].number, e \in ev, f \in ledger.shown[base].number :
                LET worth(g) == Discounted(f[1] \div f[2], Flat(g), r, tg)
                IN  /\ x[1] > SolveLow => worth(x[1]) <= e[1]
                    /\ x[1] < SolveHigh - 1 => worth(x[1] + 1) > e[1]
        fcf == Id("fcf", a)
    IN  Started => /\ Inverts(Id("implied_fcf_cagr", a), fcf, assumed.r, assumed.tg)
                   /\ Inverts(Id("implied_fcf_cagr_smoothed_base", a), FcfBaseId(sheet),
                              assumed.r, assumed.tg)
                   /\ \A r \in SensitivityRates, tg \in SensitivityGrowths :
                         Inverts(Cell("implied_fcf_cagr", a, r, tg), fcf, r, tg)
=============================================================================
