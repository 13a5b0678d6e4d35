-------------------------- MODULE ValuationProofs --------------------------
(***************************************************************************)
(* What the ledger of Valuation promises for every factsheet and every     *)
(* list of methods.  The argument follows one emission: what it is made of *)
(* is a reported figure, a figure of the day or a fact already recorded    *)
(* (GoodRef), and its name says which of the two windows it may rest on    *)
(* (Apart).  Emit keeps a ledger in order if everything emitted is so made *)
(* (EmitKeeps); the rest goes through the formulas one by one.             *)
(***************************************************************************)
EXTENDS Valuation, FiniteSetTheorems, NaturalsInduction, TLAPS

\* The reported figures the metrics read, and the names of derived facts.
SourceFields ==
    {"revenue", "gross_profit", "operating_income", "net_income", "op_cash_flow", "capex",
     "depreciation_amortization", "receivables", "inventory", "cost_of_revenue", "total_debt",
     "cash", "interest_expense", "current_assets", "current_liabilities", "sbc",
     "shares_diluted", "eps_diluted", "eps_adjusted", "shares_adjusted", "total_equity"}

YearNames ==
    {"gross_margin", "operating_margin", "net_margin", "fcf_margin", "revenue_yoy",
     "net_income_yoy", "eps_yoy", "fcf_yoy", "revenue_cagr", "net_income_cagr",
     "eps_diluted_cagr", "fcf_cagr", "fcf_average_1y", "fcf_average_2y", "fcf_average_3y", "fcf",
     "days_sales_outstanding", "days_inventory", "dilution_yoy", "ebitda", "capex_intensity",
     "net_debt", "interest_coverage", "current_ratio", "sbc_pct_revenue",
     "book_value_per_share", "roe", "forward_pe", "p_b", "fcf_conversion", "fcf_yield",
     "sbc_pct_fcf", "net_debt_to_ebitda", "p_b_premium_vs_peers",
     "forward_pe_premium_vs_sp500", "implied_fcf_cagr", "implied_fcf_cagr_smoothed_base",
     "dcf_value_per_share"}

\* The multiples that rest on a trailing year, where the factsheet has one.
TrailingNames(s) ==
    {"ebitda_ttm", "fcf_ttm"}
    \cup (IF TtmRef(s, "eps_diluted") # {} THEN {"pe", "pe_premium_vs_peers"} ELSE {})
    \cup (IF TtmRef(s, "revenue") # {}
          THEN {"p_s", "ev_revenue", "p_s_premium_vs_peers", "ev_revenue_premium_vs_peers"} ELSE {})
    \cup (IF DerivedTtm(s, "ebitda_ttm") # {}
          THEN {"ev_ebitda", "ev_ebitda_premium_vs_peers"} ELSE {})
    \cup (IF DerivedTtm(s, "fcf_ttm") # {} THEN {"p_fcf", "p_fcf_premium_vs_peers"} ELSE {})

\* What rests on no trailing sum, and what rests on no sum over a fiscal year.
NoTrail(s, i) == i[2] = "market" \/ (i[2] # "ttm" /\ i[1] \notin TrailingNames(s))
NoYear(s, i) == \/ i[1] \in TrailingNames(s) \cup {"enterprise_value"}
                \/ i[2] \in {"market", "ttm"}
                \/ i[1] \in SourceFields \ Flows

\* The days a fact of the factsheet can carry.
Dates(s) == {s.day} \cup {s.of[p].filed : p \in Labels(s)}

\* A reference to a figure of a period, to one of the day, to a fact of the ledger.
ReportedRef(s, r) ==
    /\ r.id[1] \in SourceFields /\ r.id[2] \in Labels(s)
    /\ s.of[r.id[2]].val[r.id[1]] # {} /\ r.filed = s.of[r.id[2]].filed
DailyRef(s, r) == r.id[2] \in {"market", "ttm"} /\ r.filed = s.day
FactRef(l, r) == r.id \in DOMAIN l.facts /\ r.filed = l.facts[r.id].filed
GoodRef(s, l, r) == ReportedRef(s, r) \/ DailyRef(s, r) \/ FactRef(l, r)

\* An emission the ledger may take.
Apart(s, id, i) == /\ id[1] \in TrailingNames(s) \cup {"enterprise_value"} => NoYear(s, i)
                   /\ id[1] \notin TrailingNames(s) => NoTrail(s, i)
DerivedId(s, id) == id[1] \notin SourceFields /\ id[2] \in Labels(s)
GoodEmission(s, l, e) ==
    /\ DerivedId(s, e.id)
    /\ \A r \in e.inputs : GoodRef(s, l, r) /\ Apart(s, e.id, r.id)
    /\ e.number # {} => e.inputs # {}

\* The invariant of the ledger.
Cited(s, l, i, filed) ==
    \/ i \in DOMAIN l.facts /\ l.facts[i].filed <= filed
    \/ /\ i[1] \in SourceFields /\ i[2] \in Labels(s)
       /\ s.of[i[2]].val[i[1]] # {} /\ s.of[i[2]].filed <= filed
    \/ /\ i[2] = "ttm" \/ (i[2] = "market" /\ i \in l.minted)
       /\ s.day <= filed

FactOK(s, l, id) ==
    /\ DerivedId(s, id)
    /\ l.facts[id].filed \in Dates(s)
    /\ \A i \in l.facts[id].inputs : Cited(s, l, i, l.facts[id].filed) /\ Apart(s, id, i)

LedgerOK(s, l) ==
    /\ \A id \in DOMAIN l.facts : FactOK(s, l, id)
    /\ \A id \in DOMAIN l.shown : /\ l.shown[id].fact = id
                                  /\ l.shown[id].number # {} => id \in DOMAIN l.facts

\* A factsheet of the assumption.
Sheet(s) ==
    /\ IsFiniteSet(Labels(s)) /\ {"market", "ttm"} \cap Labels(s) = {}
    /\ s.periods \in Seq(Labels(s)) /\ s.periods # <<>>
    /\ s.day \in Nat /\ \A p \in Labels(s) : s.of[p].filed \in Nat

-----------------------------------------------------------------------------
(* Numbers, references and the ledger.                                     *)

\* The newest of some places is one of them.
LEMMA NewestIs ==
    ASSUME NEW T \in SUBSET Nat, T # {}
    PROVE  Newest(T) \in T
  <1> DEFINE Before == {x \in Nat \X Nat : x[1] < x[2]}
  <1>1. IsWellFoundedOn(Before, Nat)
    BY Zenon, NatLessThanWellFounded DEF OpToRel
  <1>2. \A m, n \in Nat : <<m, n>> \in Before <=> m < n
    OBVIOUS
  <1> HIDE DEF Before
  <1>3. PICK n \in T : \A m \in T : ~(<<m, n>> \in Before)
    BY <1>1, WFMin
  <1>4. n \in Nat /\ \A m \in T : m \in Nat /\ ~(m < n)
    BY <1>2, <1>3
  <1>5. \A m \in T : n <= m
    BY <1>4
  <1> QED BY <1>5 DEF Newest

\* A finite set of numbers has a greatest: the numbers above a number are fewer
\* the greater it is, and there is no endless descent of subsets.
LEMMA Greatest ==
    ASSUME NEW T \in SUBSET Nat, IsFiniteSet(T), T # {}
    PROVE  \E x \in T : \A y \in T : y <= x
  <1> DEFINE Up(x) == {y \in T : y > x}
             Ups == {Up(x) : x \in T}
  <1>1. IsWellFoundedOn(StrictSubsetOrdering(T), SUBSET T)
    BY FS_StrictSubsetOrderingWellFounded, FS_FiniteSubsetsOfFinite
  <1>2. Ups \subseteq SUBSET T /\ Ups # {}
    OBVIOUS
  <1>3. \A x, y \in T : y > x => Up(y) \subseteq Up(x) /\ y \in Up(x) /\ y \notin Up(y)
    <2>1. \A x \in T : x \in Nat
      OBVIOUS
    <2> SUFFICES ASSUME NEW x \in T, NEW y \in T, y > x
                 PROVE  Up(y) \subseteq Up(x) /\ y \in Up(x) /\ y \notin Up(y)
      OBVIOUS
    <2>2. \A z \in Up(y) : z \in Nat /\ z > y /\ z \in T
      OBVIOUS
    <2>3. \A z \in Up(y) : z > x
      BY <2>1, <2>2
    <2>4. y \in Nat /\ ~(y > y)
      BY <2>1
    <2>5. y \notin Up(y) /\ y \in Up(x)
      BY <2>4
    <2>6. Up(y) \subseteq Up(x)
      BY <2>2, <2>3
    <2> QED BY <2>5, <2>6
  <1>4. \A x \in T : Up(x) \in Ups /\ Up(x) \subseteq T
    OBVIOUS
  <1>5. \A u \in Ups : \E x \in T : u = Up(x)
    OBVIOUS
  <1> HIDE DEF Ups, Up
  <1>6. PICK u \in Ups : \A v \in Ups : ~(<<v, u>> \in StrictSubsetOrdering(T))
    BY <1>1, <1>2, WFMin
  <1>7. PICK x \in T : u = Up(x)
    BY <1>5, <1>6
  <1>8. ASSUME NEW y \in T, y > x PROVE FALSE
    <2>1. Up(y) \subseteq Up(x) /\ Up(y) # Up(x)
      BY <1>3, <1>8
    <2>2. <<Up(y), Up(x)>> \in StrictSubsetOrdering(T)
      BY <1>4, <2>1 DEF StrictSubsetOrdering
    <2> QED BY <1>4, <1>6, <1>7, <2>2
  <1> QED BY <1>8

\* The latest of the days of some references is one of them, and no reference is later.
LEMMA LatestFiledIs ==
    ASSUME NEW s, Sheet(s), NEW refs, refs # {}, \A r \in refs : r.filed \in Dates(s)
    PROVE  /\ LatestFiled(refs) \in Dates(s)
           /\ \A r \in refs : r.filed <= LatestFiled(refs)
  <1> DEFINE days == {r.filed : r \in refs}
  <1>1. IsFiniteSet(Dates(s)) /\ Dates(s) \subseteq Nat
    <2> DEFINE f == [p \in Labels(s) |-> s.of[p].filed]
    <2>1. IsFiniteSet(Labels(s)) /\ s.day \in Nat /\ \A p \in Labels(s) : s.of[p].filed \in Nat
      BY DEF Sheet
    <2>2. f \in Surjection(Labels(s), {s.of[p].filed : p \in Labels(s)})
      BY DEF Surjection
    <2>3. IsFiniteSet({s.of[p].filed : p \in Labels(s)})
      BY <2>1, <2>2, FS_Surjection
    <2>4. IsFiniteSet({s.day})
      BY FS_Singleton
    <2>5. IsFiniteSet(Dates(s))
      BY <2>3, <2>4, FS_Union DEF Dates
    <2> QED BY <2>1, <2>5 DEF Dates
  <1>2. days \in SUBSET Nat /\ IsFiniteSet(days) /\ days # {}
    BY <1>1, FS_Subset
  <1>3. \E d \in days : \A e \in days : e <= d
    BY <1>2, Greatest
  <1>4. LatestFiled(refs) \in days /\ \A e \in days : e <= LatestFiled(refs)
    BY <1>3 DEF LatestFiled
  <1> QED BY <1>4

\* The references of a factsheet.
LEMMA ReportedIs ==
    ASSUME NEW s, NEW p, NEW field \in SourceFields, NEW r \in Reported(s, p, field)
    PROVE  /\ ReportedRef(s, r) /\ r.id[1] = field /\ r.id[2] = p /\ p \in Labels(s)
  BY DEF Reported, Refs, ReportedRef, Id, Labels

\* The references to what the day's quote carries
LEMMA DailyIs ==
    ASSUME NEW s
    PROVE  /\ \A field : \A r \in MarketRef(s, field) : DailyRef(s, r) /\ r.id[2] = "market"
           /\ \A field : \A r \in TtmRef(s, field) :
                  DailyRef(s, r) /\ r.id[2] = "ttm" /\ r.id[1] = field
           /\ \A r \in ConsensusRef(s) : DailyRef(s, r) /\ r.id[2] = "market"
           /\ \A r \in IndexRef(s) : DailyRef(s, r) /\ r.id[2] = "market"
  BY DEF MarketRef, TtmRef, ConsensusRef, IndexRef, Refs, Id, DailyRef

\* The reference made of a number that is shown is the fact of its own id.
LEMMA DerivedIs ==
    ASSUME NEW s, NEW l, LedgerOK(s, l), NEW id \in DOMAIN l.shown, NEW r \in DerivedRef(l, id)
    PROVE  FactRef(l, r) /\ r.id = id
  BY DEF DerivedRef, FactRef, LedgerOK

\* A number needs the numbers it is made of.
LEMMA NumbersNeed ==
    ASSUME NEW a, NEW b
    PROVE  /\ Over(Vals(a), Vals(b)) # {} => a # {} /\ b # {}
           /\ \A x : Over(Vals(a), x) # {} => a # {}
           /\ \A x : Over(x, Vals(a)) # {} => a # {}
           /\ Minus(Vals(a), Vals(b)) # {} => a # {} /\ b # {}
           /\ Plus(Vals(a), Vals(b)) # {} => a # {} /\ b # {}
           /\ \A x : Growth(Vals(a), x) # {} => a # {}
           /\ \A x, n : Grown(Vals(a), x, n) # {} => a # {}
  BY DEF Over, Minus, Plus, Vals, Growth, Grown, Cagr, Positive

\* What a set of emissions records and shows.
Recorded(es, id, e) ==
    /\ e.id = id /\ e.number # {}
    /\ FactsOf(es)[id].filed = LatestFiled(e.inputs)
    /\ FactsOf(es)[id].inputs = {r.id : r \in e.inputs}
Displayed(es, id, e) ==
    /\ e.id = id
    /\ ShownOf(es)[id].fact = id /\ ShownOf(es)[id].number \subseteq e.number

\* A fact is recorded for an emission that has a number.
LEMMA FactsOfIs ==
    ASSUME NEW es
    PROVE  /\ DOMAIN FactsOf(es) = {e.id : e \in {x \in es : x.number # {}}}
           /\ \A id \in DOMAIN FactsOf(es) : \E e \in es : Recorded(es, id, e)
  <1> DEFINE having == {x \in es : x.number # {}}
             The(id) == CHOOSE e \in having : e.id = id
  <1>1. DOMAIN FactsOf(es) = {e.id : e \in having}
    BY DEF FactsOf
  <1>2. ASSUME NEW id \in DOMAIN FactsOf(es)
        PROVE  The(id) \in having /\ The(id).id = id
    BY <1>1
  <1>3. ASSUME NEW id \in DOMAIN FactsOf(es)
        PROVE  /\ FactsOf(es)[id].filed = LatestFiled(The(id).inputs)
               /\ FactsOf(es)[id].inputs = {r.id : r \in The(id).inputs}
    BY <1>1 DEF FactsOf
  <1> HIDE DEF The
  <1> QED BY <1>1, <1>2, <1>3 DEF Recorded

\* What is shown under an id comes from an emission of that id.
LEMMA ShownOfIs ==
    ASSUME NEW es
    PROVE  /\ DOMAIN ShownOf(es) = {e.id : e \in es}
           /\ \A id \in DOMAIN ShownOf(es) : \E e \in es : Displayed(es, id, e)
  <1> DEFINE The(id) == CHOOSE e \in es : e.id = id
  <1>1. DOMAIN ShownOf(es) = {e.id : e \in es}
    BY DEF ShownOf
  <1>2. ASSUME NEW id \in DOMAIN ShownOf(es)
        PROVE  The(id) \in es /\ The(id).id = id
    BY <1>1
  <1>3. ASSUME NEW id \in DOMAIN ShownOf(es)
        PROVE  /\ ShownOf(es)[id].fact = The(id).id
               /\ ShownOf(es)[id].number \subseteq The(id).number
    BY <1>1 DEF ShownOf
  <1> HIDE DEF The
  <1> QED BY <1>1, <1>2, <1>3 DEF Displayed

\* A fact of the ledger stays as it is, whatever is emitted.
LEMMA EmitIs ==
    ASSUME NEW l, NEW es, NEW m, m = Emit(l, es)
    PROVE  /\ DOMAIN m.facts = DOMAIN l.facts \cup DOMAIN FactsOf(es)
           /\ \A id \in DOMAIN l.facts : m.facts[id] = l.facts[id]
           /\ \A id \in DOMAIN m.facts \ DOMAIN l.facts : m.facts[id] = FactsOf(es)[id]
           /\ DOMAIN m.shown = DOMAIN l.shown \cup DOMAIN ShownOf(es)
           /\ \A id \in DOMAIN ShownOf(es) : m.shown[id] = ShownOf(es)[id]
           /\ \A id \in DOMAIN m.shown \ DOMAIN ShownOf(es) : m.shown[id] = l.shown[id]
           /\ m.minted = l.minted \cup MintedFor(es)
  BY DEF Emit, Merged

\* Nothing that is shown disappears, and everything emitted is shown.
LEMMA ShownAfter ==
    ASSUME NEW l, NEW es, NEW m, m = Emit(l, es)
    PROVE  DOMAIN m.shown = DOMAIN l.shown \cup {e.id : e \in es}
  <1>1. DOMAIN m.shown = DOMAIN l.shown \cup DOMAIN ShownOf(es)
    BY EmitIs
  <1>2. DOMAIN ShownOf(es) = {e.id : e \in es}
    BY ShownOfIs
  <1> QED BY <1>1, <1>2

\* What can be found can be found after the next emissions.
LEMMA CitedStays ==
    ASSUME NEW s, NEW l, NEW es, NEW m, m = Emit(l, es), NEW i, NEW filed, Cited(s, l, i, filed)
    PROVE  Cited(s, m, i, filed)
  BY EmitIs DEF Cited

\* The ledger takes what was made from what it holds.
LEMMA EmitKeeps ==
    ASSUME NEW s, Sheet(s), NEW l, LedgerOK(s, l), NEW es,
           \A e \in es : GoodEmission(s, l, e), NEW m, m = Emit(l, es)
    PROVE  LedgerOK(s, m)
  <1>1. ASSUME NEW id \in DOMAIN l.facts
        PROVE  FactOK(s, m, id)
    <2>1. FactOK(s, l, id) /\ m.facts[id] = l.facts[id]
      BY EmitIs DEF LedgerOK
    <2> QED BY <2>1, CitedStays DEF FactOK
  <1>2. ASSUME NEW id \in DOMAIN m.facts, id \notin DOMAIN l.facts
        PROVE  FactOK(s, m, id)
    <2>1. id \in DOMAIN FactsOf(es) /\ m.facts[id] = FactsOf(es)[id]
      BY <1>2, EmitIs
    <2>2. PICK e \in es : /\ e.id = id /\ e.number # {}
                         /\ m.facts[id].filed = LatestFiled(e.inputs)
                         /\ m.facts[id].inputs = {r.id : r \in e.inputs}
      <3>1. PICK e \in es : Recorded(es, id, e)
        BY <2>1, FactsOfIs
      <3> QED BY <2>1, <3>1 DEF Recorded
    <2>3. e.inputs # {} /\ DerivedId(s, id)
          /\ \A r \in e.inputs : GoodRef(s, l, r) /\ Apart(s, id, r.id)
      BY <2>2 DEF GoodEmission
    <2>4. \A r \in e.inputs : r.filed \in Dates(s)
      <3> SUFFICES ASSUME NEW r \in e.inputs PROVE r.filed \in Dates(s)
        OBVIOUS
      <3>1. CASE ReportedRef(s, r) \/ DailyRef(s, r)
        BY <3>1 DEF ReportedRef, DailyRef, Dates
      <3>2. CASE FactRef(l, r)
        BY <3>2 DEF FactRef, LedgerOK, FactOK
      <3> QED BY <2>3, <3>1, <3>2 DEF GoodRef
    <2>5. /\ m.facts[id].filed \in Dates(s)
          /\ \A r \in e.inputs : r.filed <= m.facts[id].filed
      BY <2>2, <2>3, <2>4, LatestFiledIs
    <2>6. ASSUME NEW r \in e.inputs
          PROVE  Cited(s, m, r.id, m.facts[id].filed)
      <3>1. CASE ReportedRef(s, r)
        BY <2>5, <3>1 DEF ReportedRef, Cited
      <3>2. CASE DailyRef(s, r)
        <4>1. r.id[2] = "market" => r.id \in MintedFor(es)
          BY DEF MintedFor
        <4>2. r.id[2] = "market" => r.id \in m.minted
          BY <4>1, EmitIs
        <4> QED BY <2>5, <3>2, <4>2 DEF DailyRef, Cited
      <3>3. CASE FactRef(l, r)
        BY <2>5, <3>3, EmitIs DEF FactRef, Cited
      <3> QED BY <2>3, <3>1, <3>2, <3>3 DEF GoodRef
    <2>7. \A i \in m.facts[id].inputs : Cited(s, m, i, m.facts[id].filed) /\ Apart(s, id, i)
      BY <2>2, <2>3, <2>6
    <2> QED BY <2>3, <2>5, <2>7 DEF FactOK
  <1>3. ASSUME NEW id \in DOMAIN m.shown
        PROVE  /\ m.shown[id].fact = id
               /\ m.shown[id].number # {} => id \in DOMAIN m.facts
    <2>1. CASE id \in DOMAIN ShownOf(es)
      <3>1. PICK e \in es : /\ e.id = id /\ m.shown[id].fact = id
                           /\ m.shown[id].number \subseteq e.number
        <4>1. PICK e \in es : Displayed(es, id, e)
          BY <2>1, ShownOfIs
        <4> QED BY <2>1, <4>1, EmitIs DEF Displayed
      <3>2. ASSUME m.shown[id].number # {} PROVE id \in DOMAIN m.facts
        <4>1. e \in {x \in es : x.number # {}}
          BY <3>1, <3>2
        <4>2. id \in {f.id : f \in {x \in es : x.number # {}}}
          BY <3>1, <4>1
        <4>3. id \in DOMAIN FactsOf(es)
          BY <4>2, FactsOfIs
        <4> QED BY <4>3, EmitIs
      <3> QED BY <3>1, <3>2
    <2>2. CASE id \notin DOMAIN ShownOf(es)
      BY <1>3, <2>2, EmitIs DEF LedgerOK
    <2> QED BY <2>1, <2>2
  <1> QED BY <1>1, <1>2, <1>3 DEF LedgerOK

\* A fact that is recorded is never rewritten.
LEMMA StepIsFinal ==
    ASSUME [Next]_vars
    PROVE  \A id \in DOMAIN ledger.facts :
               id \in DOMAIN ledger'.facts /\ ledger'.facts[id] = ledger.facts[id]
  <1>1. CASE Compute
    <2>1. ledger = EmptyLedger
      BY <1>1 DEF Compute, Started
    <2> QED BY <2>1 DEF EmptyLedger
  <1>2. CASE PeerMedians
    <2>1. PICK table \in {PeerTable(sheet)} : ledger' = Emit(ledger, Premiums(sheet, ledger, table))
      BY <1>2 DEF PeerMedians
    <2> QED BY <2>1, EmitIs
  <1>3. CASE Dcf
    <2>1. ledger' = Emit(ledger, FairValues(sheet, ledger, assumed, growth))
      BY <1>3 DEF Dcf
    <2> QED BY <2>1, EmitIs
  <1>4. CASE Multiple \/ ReverseDcf \/ Other \/ UNCHANGED vars
    <2>1. ledger' = ledger
      BY <1>4 DEF Multiple, ReverseDcf, Other, vars
    <2> QED BY <2>1
  <1> QED BY <1>1, <1>2, <1>3, <1>4 DEF Next

\* Whatever methods are asked for and in whatever order, for every factsheet:
\* a fact that was recorded is never rewritten and never dropped (calc/facts.py
\* emit: the first one wins).
THEOREM RecordedForGood == Spec => FactsAreFinal
  <1>1. [Next]_vars =>
            [\A id \in DOMAIN ledger.facts : id \in DOMAIN ledger'.facts
                                            /\ ledger'.facts[id] = ledger.facts[id]]_ledger
    BY StepIsFinal
  <1> QED BY <1>1, PTL DEF Spec, FactsAreFinal

\* The ledger a call starts from
LEMMA EmptyOK == \A s : LedgerOK(s, EmptyLedger)
  BY DEF EmptyLedger, LedgerOK

-----------------------------------------------------------------------------
(* What compute_metrics makes of the periods.                              *)

\* Reported figures, derived facts of a year and multiples of a trailing year
\* have names of their own.
LEMMA NamesApart ==
    ASSUME NEW s
    PROVE  /\ \A n \in YearNames : /\ n \notin SourceFields /\ n \notin TrailingNames(s)
                                  /\ n # "enterprise_value"
           /\ \A n \in SourceFields : n \notin TrailingNames(s) /\ n # "enterprise_value"
           /\ \A n \in TrailingNames(s) : n \notin SourceFields /\ n # "enterprise_value"
           /\ "enterprise_value" \notin SourceFields
  BY DEF YearNames, SourceFields, TrailingNames

\* An emission of figures of periods.
IsYearly(s, e) ==
    /\ e.id[1] \in YearNames /\ e.id[2] \in Labels(s)
    /\ \A r \in e.inputs : ReportedRef(s, r)
    /\ e.number # {} => e.inputs # {}

\* A figure of a period rests on no trailing sum.
LEMMA ReportedNoTrail ==
    ASSUME NEW s, Sheet(s), NEW r, ReportedRef(s, r)
    PROVE  NoTrail(s, r.id)
  <1>1. r.id[2] # "ttm"
    BY DEF ReportedRef, Sheet
  <1> QED BY <1>1, NamesApart DEF NoTrail, ReportedRef

\* An emission under the name of a yearly fact is good if its inputs rest on no
\* trailing sum.
LEMMA YearlyEmission ==
    ASSUME NEW s, Sheet(s), NEW l, NEW e,
           e.id[1] \in YearNames, e.id[2] \in Labels(s),
           \A r \in e.inputs : GoodRef(s, l, r) /\ NoTrail(s, r.id),
           e.number # {} => e.inputs # {}
    PROVE  GoodEmission(s, l, e)
  BY NamesApart DEF GoodEmission, DerivedId, Apart

\* In particular if they are figures of periods.
LEMMA YearlyIsGood ==
    ASSUME NEW s, Sheet(s), NEW l, NEW e, IsYearly(s, e)
    PROVE  GoodEmission(s, l, e)
  BY YearlyEmission, ReportedNoTrail DEF IsYearly, GoodRef

\* The parts of an emission
LEMMA EmissionIs ==
    ASSUME NEW id, NEW number, NEW inputs, NEW f, NEW n
    PROVE  /\ Emission(id, number, inputs, f, n).id = id
           /\ Emission(id, number, inputs, f, n).number = number
           /\ Emission(id, number, inputs, f, n).inputs = inputs
  BY DEF Emission

\* A ratio has a number only where both its terms are known.
LEMMA RatioIs ==
    ASSUME NEW id, NEW a, NEW b, NEW f, NEW n
    PROVE  /\ Ratio(id, a, b, f, n).id = id
           /\ Ratio(id, a, b, f, n).number # {} => a # {} /\ b # {}
           /\ Ratio(id, a, b, f, n).inputs = a \cup b
  BY NumbersNeed, EmissionIs DEF Ratio

\* The metric and the period of an id
LEMMA IdIs ==
    /\ \A n, p : Id(n, p)[1] = n /\ Id(n, p)[2] = p
    /\ \A n, p, r, g : Cell(n, p, r, g)[1] = n /\ Cell(n, p, r, g)[2] = p
  BY DEF Id, Cell

\* A ratio of two reported figures
LEMMA YearlyRatio ==
    ASSUME NEW s, NEW n \in YearNames, NEW p \in Labels(s), NEW q, NEW x \in SourceFields,
           NEW y \in SourceFields, NEW f, NEW b
    PROVE  IsYearly(s, Ratio(Id(n, p), Reported(s, q, x), Reported(s, q, y), f, b))
  BY RatioIs, IdIs, ReportedIs DEF IsYearly

\* Free cash flow rests on reported figures.
LEMMA FreeCashIs ==
    ASSUME NEW s, NEW p
    PROVE  /\ \A r \in FreeCashInputs(s, p) : ReportedRef(s, r)
           /\ FreeCash(s, p) # {} => FreeCashInputs(s, p) # {}
           /\ \A x : Over(FreeCash(s, p), x) # {} => FreeCashInputs(s, p) # {}
           /\ \A x, n : Grown(FreeCash(s, p), x, n) # {} => FreeCashInputs(s, p) # {}
  <1>1. \A r \in FreeCashInputs(s, p) : ReportedRef(s, r)
    BY ReportedIs DEF FreeCashInputs, SourceFields
  <1>2. FreeCash(s, p) # {} => FreeCashInputs(s, p) # {}
    BY NumbersNeed DEF FreeCash, FreeCashInputs
  <1>3. \A x : Over(FreeCash(s, p), x) # {} => FreeCash(s, p) # {}
    BY DEF Over
  <1>4. \A x, n : Grown(FreeCash(s, p), x, n) # {} => FreeCash(s, p) # {}
    BY DEF Grown, Growth, Cagr, Over, Minus, Positive
  <1> QED BY <1>1, <1>2, <1>3, <1>4

\* The margins of a period (calc/metrics/margins.py)
LEMMA MarginsYearly ==
    ASSUME NEW s, NEW p \in Labels(s), NEW e \in Margins(s, p)
    PROVE  IsYearly(s, e)
  <1>1. /\ {"gross_profit", "operating_income", "net_income", "revenue"} \subseteq SourceFields
        /\ {"gross_margin", "operating_margin", "net_margin", "fcf_margin"} \subseteq YearNames
    BY DEF SourceFields, YearNames
  <1> DEFINE fcf == Emission(Id("fcf_margin", p),
                       IF s.partial THEN {}
                       ELSE Over(FreeCash(s, p), Vals(Reported(s, p, "revenue"))),
                       FreeCashInputs(s, p) \cup Reported(s, p, "revenue"), TRUE, s.partial)
  <1>2. IsYearly(s, fcf)
    <2> DEFINE id == Id("fcf_margin", p)
               sales == Reported(s, p, "revenue")
               number == IF s.partial THEN {} ELSE Over(FreeCash(s, p), Vals(sales))
               inputs == FreeCashInputs(s, p) \cup sales
    <2>1. number # {} => inputs # {}
      BY FreeCashIs
    <2>2. id[1] = "fcf_margin" /\ id[2] = p
      BY IdIs
    <2>3. \A r \in inputs : ReportedRef(s, r)
      BY <1>1, FreeCashIs, ReportedIs
    <2> HIDE DEF id, number, inputs
    <2>4. IsYearly(s, Emission(id, number, inputs, TRUE, s.partial))
      BY <1>1, <2>1, <2>2, <2>3 DEF Emission, IsYearly
    <2> QED BY <2>4 DEF id, number, inputs
  <1> HIDE DEF fcf
  <1>3. \/ e = Ratio(Id("gross_margin", p), Reported(s, p, "gross_profit"),
                     Reported(s, p, "revenue"), TRUE, s.partial)
        \/ e = Ratio(Id("operating_margin", p), Reported(s, p, "operating_income"),
                     Reported(s, p, "revenue"), TRUE, FALSE)
        \/ e = Ratio(Id("net_margin", p), Reported(s, p, "net_income"),
                     Reported(s, p, "revenue"), TRUE, FALSE)
        \/ e = fcf
    BY DEF Margins, fcf
  <1> QED BY <1>1, <1>2, <1>3, YearlyRatio

\* Per-share figures, adjusted or not, are reported ones.
LEMMA PerShareIs ==
    ASSUME NEW s, NEW field \in {"eps_diluted", "shares_diluted"}, NEW p, NEW q
    PROVE  \A r \in PerShare(s, field, p, q).new \cup PerShare(s, field, p, q).old :
               ReportedRef(s, r)
  BY ReportedIs DEF PerShare, SourceFields

\* The growth of a reported figure from one period to another
LEMMA YearlyGrowth ==
    ASSUME NEW s, NEW n \in YearNames, NEW p \in Labels(s), NEW q, NEW x \in SourceFields,
           NEW years
    PROVE  IsYearly(s, Emission(Id(n, p),
                         Grown(Vals(Reported(s, p, x)), Vals(Reported(s, q, x)), years),
                         Reported(s, p, x) \cup Reported(s, q, x), TRUE, FALSE))
  <1> DEFINE id == Id(n, p)
             a == Reported(s, p, x)
             b == Reported(s, q, x)
             number == Grown(Vals(a), Vals(b), years)
             e == Emission(id, number, a \cup b, TRUE, FALSE)
  <1>1. number # {} => a # {}
    BY NumbersNeed
  <1>2. \A r \in a \cup b : ReportedRef(s, r)
    BY ReportedIs
  <1>3. id[1] = n /\ id[2] = p
    BY IdIs
  <1> HIDE DEF id, a, b, number
  <1>4. IsYearly(s, e)
    BY <1>1, <1>2, <1>3 DEF Emission, IsYearly
  <1> QED BY <1>4 DEF id, a, b, number

\* The growth figures of two periods (calc/metrics/growth.py)
LEMMA ComparisonYearly ==
    ASSUME NEW s, NEW p \in Labels(s), NEW q, NEW years, NEW blocked,
           NEW e \in Comparison(s, p, q, years, blocked)
    PROVE  IsYearly(s, e)
  <1> DEFINE name == IF years = 0 THEN YearlyName ELSE SpanName
             of(field) == Emission(Id(name[field], p),
                              Grown(Vals(Reported(s, p, field)), Vals(Reported(s, q, field)),
                                    years),
                              Reported(s, p, field) \cup Reported(s, q, field), TRUE, FALSE)
             eps == PerShare(s, "eps_diluted", p, q)
             share == Emission(Id(name["eps_diluted"], p),
                         IF eps.blocked THEN {} ELSE Grown(Vals(eps.new), Vals(eps.old), years),
                         eps.new \cup eps.old, TRUE, FALSE)
             cash == Emission(Id(name["fcf"], p),
                        IF blocked THEN {} ELSE Grown(FreeCash(s, p), FreeCash(s, q), years),
                        FreeCashInputs(s, p) \cup FreeCashInputs(s, q), TRUE, blocked)
  <1>1. e \in {of("revenue"), of("net_income"), share, cash}
    BY DEF Comparison
  <1>2. /\ name["revenue"] \in YearNames /\ name["net_income"] \in YearNames
        /\ name["eps_diluted"] \in YearNames /\ name["fcf"] \in YearNames
        /\ "revenue" \in SourceFields /\ "net_income" \in SourceFields
    BY DEF YearlyName, SpanName, YearNames, SourceFields
  <1>3. \A r \in eps.new \cup eps.old : ReportedRef(s, r)
    BY PerShareIs
  <1> HIDE DEF name, eps
  <1>4. IsYearly(s, share)
    <2> DEFINE id == Id(name["eps_diluted"], p)
               grown == Grown(Vals(eps.new), Vals(eps.old), years)
               number == IF eps.blocked THEN {} ELSE grown
               inputs == eps.new \cup eps.old
    <2>1. number # {} => inputs # {}
      BY NumbersNeed
    <2>2. id[1] = name["eps_diluted"] /\ id[2] = p
      BY IdIs
    <2>3. \A r \in inputs : ReportedRef(s, r)
      BY <1>3
    <2> HIDE DEF id, number, inputs
    <2>4. IsYearly(s, Emission(id, number, inputs, TRUE, FALSE))
      BY <1>2, <2>1, <2>2, <2>3 DEF Emission, IsYearly
    <2> QED BY <2>4 DEF id, number, inputs
  <1>5. IsYearly(s, cash)
    <2> DEFINE id == Id(name["fcf"], p)
               number == IF blocked THEN {} ELSE Grown(FreeCash(s, p), FreeCash(s, q), years)
               inputs == FreeCashInputs(s, p) \cup FreeCashInputs(s, q)
    <2>1. number # {} => inputs # {}
      BY FreeCashIs
    <2>2. id[1] = name["fcf"] /\ id[2] = p
      BY IdIs
    <2>3. \A r \in inputs : ReportedRef(s, r)
      BY FreeCashIs
    <2> HIDE DEF id, number, inputs
    <2>4. IsYearly(s, Emission(id, number, inputs, TRUE, blocked))
      BY <1>2, <2>1, <2>2, <2>3 DEF Emission, IsYearly
    <2> QED BY <2>4 DEF id, number, inputs
  <1>6. IsYearly(s, of("revenue")) /\ IsYearly(s, of("net_income"))
    BY <1>2, YearlyGrowth
  <1> HIDE DEF of, share, cash
  <1> QED BY <1>1, <1>4, <1>5, <1>6

\* The annual period and the newest one are periods of the factsheet.
LEMMA PeriodsAre ==
    ASSUME NEW s, Sheet(s)
    PROVE  /\ Annual(s) \in Labels(s) /\ Balance(s) \in Labels(s)
           /\ Annuals(s) \subseteq Nat /\ \A i \in Annuals(s) : s.periods[i] \in Labels(s)
  <1>1. /\ s.periods \in Seq(Labels(s)) /\ s.periods # <<>>
    BY DEF Sheet
  <1>2. /\ \A i \in DOMAIN s.periods : i \in Nat /\ s.periods[i] \in Labels(s)
        /\ 1 \in DOMAIN s.periods
    BY <1>1
  <1>3. Annuals(s) \subseteq Nat /\ \A i \in Annuals(s) : s.periods[i] \in Labels(s)
    BY <1>2 DEF Annuals
  <1>4. Annuals(s) # {} => Newest(Annuals(s)) \in Annuals(s)
    BY <1>3, NewestIs
  <1> QED BY <1>2, <1>3, <1>4 DEF Annual, Balance

\* The average of free cash flow (calc/valuation/dcf.py) is a figure of the periods
\* it averages, under the newest of them.
LEMMA FcfBaseYearly ==
    ASSUME NEW s, Sheet(s), NEW e \in FcfBase(s)
    PROVE  IsYearly(s, e) /\ FcfBaseId(s) = e.id
  <1> DEFINE U == BaseYears(s)
  <1>1. U # {} /\ U \subseteq Annuals(s) /\ \A i \in U : FreeCash(s, s.periods[i]) # {}
    BY DEF FcfBase, BaseYears
  <1>2. Newest(U) \in U
    BY <1>1, PeriodsAre, NewestIs
  <1>3. /\ e.id = Id(AverageName(Cardinality(U)), s.periods[Newest(U)])
        /\ e.inputs = UNION {FreeCashInputs(s, s.periods[i]) : i \in U}
        /\ FcfBase(s) = {e}
    <2> DEFINE id == Id(AverageName(Cardinality(U)), s.periods[Newest(U)])
               inputs == UNION {FreeCashInputs(s, s.periods[i]) : i \in U}
               number == Over(Accumulated(s, U), {<<Cardinality(U), 1>>})
    <2>1. FcfBase(s) = {Emission(id, number, inputs, FALSE, FALSE)}
      BY <1>1 DEF FcfBase
    <2> HIDE DEF id, inputs, number
    <2>2. e = Emission(id, number, inputs, FALSE, FALSE)
      BY <2>1
    <2>3. e.id = id /\ e.inputs = inputs
      BY <2>2 DEF Emission
    <2>4. FcfBase(s) = {e}
      BY <2>1, <2>2
    <2> QED BY <2>3, <2>4 DEF id, inputs
  <1> HIDE DEF U
  <1>4. AverageName(Cardinality(U)) \in YearNames
    BY DEF AverageName, YearNames
  <1>5. s.periods[Newest(U)] \in Labels(s)
    BY <1>1, <1>2, PeriodsAre
  <1>6. \A r \in e.inputs : ReportedRef(s, r)
    BY <1>3, FreeCashIs
  <1>7. e.inputs # {}
    <2>1. FreeCashInputs(s, s.periods[Newest(U)]) # {}
      BY <1>1, <1>2, FreeCashIs
    <2> QED BY <1>2, <1>3, <2>1
  <1> QED BY <1>3, <1>4, <1>5, <1>6, <1>7, IdIs DEF IsYearly, FcfBaseId

\* An emission of figures of periods, from its parts
LEMMA MadeYearly ==
    ASSUME NEW s, NEW n \in YearNames, NEW p \in Labels(s), NEW number, NEW inputs, NEW f, NEW b,
           \A r \in inputs : ReportedRef(s, r), number # {} => inputs # {}
    PROVE  IsYearly(s, Emission(Id(n, p), number, inputs, f, b))
  <1> DEFINE id == Id(n, p)
  <1>1. id[1] = n /\ id[2] = p
    BY IdIs
  <1> HIDE DEF id
  <1>2. IsYearly(s, Emission(id, number, inputs, f, b))
    BY <1>1 DEF Emission, IsYearly
  <1> QED BY <1>2 DEF id

\* Free cash flow, EBITDA and net debt
LEMMA SumsYearly ==
    ASSUME NEW s, NEW p \in Labels(s), NEW e,
           \/ e = Emission(Id("fcf", p), IF s.partial THEN {} ELSE FreeCash(s, p),
                           FreeCashInputs(s, p), FALSE, s.partial)
           \/ e = Ebitda(s, p)
           \/ e = Emission(Id("net_debt", p),
                     Minus(Vals(Reported(s, p, "total_debt")), Vals(Reported(s, p, "cash"))),
                     Reported(s, p, "total_debt") \cup Reported(s, p, "cash"), FALSE, FALSE)
    PROVE  IsYearly(s, e)
  <1>1. CASE e = Emission(Id("fcf", p), IF s.partial THEN {} ELSE FreeCash(s, p),
                          FreeCashInputs(s, p), FALSE, s.partial)
    <2> DEFINE number == IF s.partial THEN {} ELSE FreeCash(s, p)
    <2>1. number # {} => FreeCashInputs(s, p) # {}
      BY FreeCashIs
    <2>2. "fcf" \in YearNames
      BY DEF YearNames
    <2> HIDE DEF number
    <2>3. IsYearly(s, Emission(Id("fcf", p), number, FreeCashInputs(s, p), FALSE, s.partial))
      BY <2>1, <2>2, FreeCashIs, MadeYearly
    <2> QED BY <1>1, <2>3 DEF number
  <1>2. CASE e = Ebitda(s, p)
    <2> DEFINE income == Reported(s, p, "operating_income")
               depreciation == Reported(s, p, "depreciation_amortization")
               number == IF s.partial THEN {} ELSE Plus(Vals(income), Vals(depreciation))
               inputs == income \cup depreciation
    <2>1. number # {} => inputs # {}
      BY NumbersNeed
    <2>2. "ebitda" \in YearNames /\ \A r \in inputs : ReportedRef(s, r)
      BY ReportedIs DEF YearNames, SourceFields
    <2>3. e = Emission(Id("ebitda", p), number, inputs, FALSE, s.partial)
      BY <1>2 DEF Ebitda
    <2> HIDE DEF number, inputs
    <2> QED BY <2>1, <2>2, <2>3, MadeYearly
  <1>3. CASE e = Emission(Id("net_debt", p),
                    Minus(Vals(Reported(s, p, "total_debt")), Vals(Reported(s, p, "cash"))),
                    Reported(s, p, "total_debt") \cup Reported(s, p, "cash"), FALSE, FALSE)
    <2> DEFINE debt == Reported(s, p, "total_debt")
               cash == Reported(s, p, "cash")
               number == Minus(Vals(debt), Vals(cash))
               inputs == debt \cup cash
    <2>1. number # {} => inputs # {}
      BY NumbersNeed
    <2>2. "net_debt" \in YearNames /\ \A r \in inputs : ReportedRef(s, r)
      BY ReportedIs DEF YearNames, SourceFields
    <2>3. e = Emission(Id("net_debt", p), number, inputs, FALSE, FALSE)
      BY <1>3
    <2> HIDE DEF number, inputs
    <2> QED BY <2>1, <2>2, <2>3, MadeYearly
  <1> QED BY <1>1, <1>2, <1>3

\* The growth of the share count
LEMMA DilutionYearly ==
    ASSUME NEW s, NEW p \in Labels(s), NEW q
    PROVE  IsYearly(s, Dilution(s, p, q))
  <1> DEFINE n == PerShare(s, "shares_diluted", p, q)
  <1>1. \A r \in n.new \cup n.old : ReportedRef(s, r)
    BY PerShareIs
  <1> HIDE DEF n
  <1> DEFINE number == IF n.blocked THEN {} ELSE Growth(Vals(n.new), Vals(n.old))
             inputs == n.new \cup n.old
  <1>2. number # {} => inputs # {}
    BY NumbersNeed
  <1>3. "dilution_yoy" \in YearNames
    BY DEF YearNames
  <1>4. Dilution(s, p, q) = Emission(Id("dilution_yoy", p), number, inputs, TRUE, FALSE)
    BY DEF Dilution, n
  <1>5. \A r \in inputs : ReportedRef(s, r)
    BY <1>1
  <1> HIDE DEF number, inputs
  <1> QED BY <1>2, <1>3, <1>4, <1>5, MadeYearly

\* The ratios of one period
LEMMA RatiosYearly ==
    ASSUME NEW s, NEW p \in Labels(s), NEW e,
           e \in {CapexIntensity(s, p), SbcPctRevenue(s, p), BookValuePerShare(s, p),
                  ReturnOnEquity(s, p)} \cup Days(s, p)
           \/ e = Ratio(Id("interest_coverage", p), Reported(s, p, "operating_income"),
                        Reported(s, p, "interest_expense"), FALSE, FALSE)
           \/ e = Ratio(Id("current_ratio", p), Reported(s, p, "current_assets"),
                        Reported(s, p, "current_liabilities"), FALSE, FALSE)
    PROVE  IsYearly(s, e)
  <1>1. /\ {"capex_intensity", "sbc_pct_revenue", "book_value_per_share", "roe",
            "days_sales_outstanding", "days_inventory", "interest_coverage", "current_ratio"}
               \subseteq YearNames
        /\ {"capex", "revenue", "sbc", "total_equity", "shares_diluted", "net_income",
            "receivables", "inventory", "cost_of_revenue", "operating_income",
            "interest_expense", "current_assets", "current_liabilities"} \subseteq SourceFields
    BY DEF YearNames, SourceFields
  <1>2. /\ IsYearly(s, CapexIntensity(s, p))
        /\ IsYearly(s, SbcPctRevenue(s, p))
    BY <1>1, YearlyRatio DEF CapexIntensity, SbcPctRevenue
  <1>3. /\ IsYearly(s, BookValuePerShare(s, p))
        /\ IsYearly(s, ReturnOnEquity(s, p))
    BY <1>1, YearlyRatio DEF BookValuePerShare, ReturnOnEquity
  <1>4. \A d \in Days(s, p) : IsYearly(s, d)
    <2>1. IsYearly(s, Ratio(Id("days_sales_outstanding", p), Reported(s, p, "receivables"),
                            Reported(s, p, "revenue"), FALSE, FALSE))
      BY <1>1, YearlyRatio
    <2>2. IsYearly(s, Ratio(Id("days_inventory", p), Reported(s, p, "inventory"),
                            Reported(s, p, "cost_of_revenue"), FALSE, FALSE))
      BY <1>1, YearlyRatio
    <2> QED BY <2>1, <2>2 DEF Days
  <1>5. /\ IsYearly(s, Ratio(Id("interest_coverage", p), Reported(s, p, "operating_income"),
                            Reported(s, p, "interest_expense"), FALSE, FALSE))
        /\ IsYearly(s, Ratio(Id("current_ratio", p), Reported(s, p, "current_assets"),
                            Reported(s, p, "current_liabilities"), FALSE, FALSE))
    BY <1>1, YearlyRatio
  <1> QED BY <1>2, <1>3, <1>4, <1>5

\* What the metrics make of the periods rests on figures of the periods only.
LEMMA FundamentalsYearly ==
    ASSUME NEW s, Sheet(s), NEW e \in Fundamentals(s)
    PROVE  IsYearly(s, e)
  <1> DEFINE a == Annual(s)
             b == Balance(s)
  <1>1. a \in Labels(s) /\ b \in Labels(s)
    BY PeriodsAre
  <1>2. \A p : ComparablePrior(s, p) \subseteq Labels(s)
    BY DEF ComparablePrior
  <1>3. ASSUME e \in YearOverYear(s) PROVE IsYearly(s, e)
    BY <1>3, ComparisonYearly DEF YearOverYear
  <1>4. ASSUME e \in AllCagr(s) PROVE IsYearly(s, e)
    <2> DEFINE years == Cardinality(Annuals(s)) - 1
               old == s.periods[Oldest(Annuals(s))]
    <2>1. AllCagr(s) = IF years < 1 THEN {} ELSE Comparison(s, a, old, years, FALSE)
      BY DEF AllCagr
    <2> HIDE DEF a, old, years
    <2>2. e \in Comparison(s, a, old, years, FALSE)
      BY <1>4, <2>1
    <2> QED BY <1>1, <2>2, ComparisonYearly
  <1>5. ASSUME e \in BalanceSheet(s, a, b) PROVE IsYearly(s, e)
    BY <1>1, <1>5, SumsYearly, RatiosYearly DEF BalanceSheet
  <1>6. \/ e = Emission(Id("fcf", a), IF s.partial THEN {} ELSE FreeCash(s, a),
                        FreeCashInputs(s, a), FALSE, s.partial)
        \/ e = Ebitda(s, a)
        \/ e \in {CapexIntensity(s, a), SbcPctRevenue(s, a), ReturnOnEquity(s, a)}
        \/ e = BookValuePerShare(s, b)
        \/ e \in BalanceSheet(s, a, b) \cup YearOverYear(s) \cup AllCagr(s) \cup FcfBase(s)
        \/ \E p \in Labels(s) : e \in Margins(s, p)
        \/ \E p \in {a} \cup ComparablePrior(s, a) : e \in Days(s, p)
        \/ \E q \in ComparablePrior(s, a) : e = Dilution(s, a, q)
    <2> DEFINE free == Emission(Id("fcf", a), IF s.partial THEN {} ELSE FreeCash(s, a),
                                FreeCashInputs(s, a), FALSE, s.partial)
    <2> DEFINE ones == {free, Ebitda(s, a), CapexIntensity(s, a), SbcPctRevenue(s, a),
                        BookValuePerShare(s, b), ReturnOnEquity(s, a)}
               margins == UNION {Margins(s, p) : p \in Labels(s)}
               days == UNION {Days(s, p) : p \in {a} \cup ComparablePrior(s, a)}
               dilutions == {Dilution(s, a, q) : q \in ComparablePrior(s, a)}
    <2>1. Fundamentals(s) = ones \cup BalanceSheet(s, a, b) \cup margins
                            \cup YearOverYear(s) \cup AllCagr(s) \cup FcfBase(s)
                            \cup days \cup dilutions
      BY DEF Fundamentals
    <2>2. e \in margins => \E p \in Labels(s) : e \in Margins(s, p)
      OBVIOUS
    <2>3. e \in days => \E p \in {a} \cup ComparablePrior(s, a) : e \in Days(s, p)
      OBVIOUS
    <2>4. e \in dilutions => \E q \in ComparablePrior(s, a) : e = Dilution(s, a, q)
      OBVIOUS
    <2>5. e \in ones => \/ e = free \/ e = Ebitda(s, a) \/ e = BookValuePerShare(s, b)
                       \/ e \in {CapexIntensity(s, a), SbcPctRevenue(s, a), ReturnOnEquity(s, a)}
      OBVIOUS
    <2> HIDE DEF a, b, free, ones, margins, days, dilutions
    <2>6. e \in ones \/ e \in margins \/ e \in days \/ e \in dilutions
          \/ e \in BalanceSheet(s, a, b) \cup YearOverYear(s) \cup AllCagr(s) \cup FcfBase(s)
      BY <2>1
    <2> QED BY <2>2, <2>3, <2>4, <2>5, <2>6 DEF free
  <1> HIDE DEF a, b
  <1>7. CASE \/ e = Emission(Id("fcf", a), IF s.partial THEN {} ELSE FreeCash(s, a),
                             FreeCashInputs(s, a), FALSE, s.partial)
             \/ e = Ebitda(s, a)
    BY <1>1, <1>7, SumsYearly
  <1>8. CASE \/ e \in {CapexIntensity(s, a), SbcPctRevenue(s, a), ReturnOnEquity(s, a)}
             \/ e = BookValuePerShare(s, b)
             \/ \E p \in {a} \cup ComparablePrior(s, a) : e \in Days(s, p)
    BY <1>1, <1>2, <1>8, RatiosYearly
  <1>9. CASE e \in BalanceSheet(s, a, b) \cup YearOverYear(s) \cup AllCagr(s) \cup FcfBase(s)
    BY <1>3, <1>4, <1>5, <1>9, FcfBaseYearly
  <1>10. CASE \/ \E p \in Labels(s) : e \in Margins(s, p)
              \/ \E q \in ComparablePrior(s, a) : e = Dilution(s, a, q)
    BY <1>1, <1>10, MarginsYearly, DilutionYearly
  <1> QED BY <1>6, <1>7, <1>8, <1>9, <1>10

-----------------------------------------------------------------------------
(* Multiples, comparisons and the forward valuation.                       *)

\* What an emission under a name may be made of.
MayRest(s, n, inputs) ==
    /\ n \in TrailingNames(s) \cup {"enterprise_value"} => \A r \in inputs : NoYear(s, r.id)
    /\ n \notin TrailingNames(s) => \A r \in inputs : NoTrail(s, r.id)

\* An emission is good by what its name may rest on.
LEMMA MadeGood ==
    ASSUME NEW s, NEW l, NEW id, id[1] \notin SourceFields, id[2] \in Labels(s),
           NEW number, NEW inputs, NEW f, NEW b,
           \A r \in inputs : GoodRef(s, l, r), MayRest(s, id[1], inputs),
           number # {} => inputs # {}
    PROVE  GoodEmission(s, l, Emission(id, number, inputs, f, b))
  BY DEF Emission, GoodEmission, DerivedId, Apart, MayRest

\* So is a ratio.
LEMMA RatioGood ==
    ASSUME NEW s, NEW l, NEW id, id[1] \notin SourceFields, id[2] \in Labels(s),
           NEW x, NEW y, NEW f, NEW b,
           \A r \in x \cup y : GoodRef(s, l, r), MayRest(s, id[1], x \cup y)
    PROVE  GoodEmission(s, l, Ratio(id, x, y, f, b))
  <1> DEFINE number == IF b THEN {} ELSE Over(Vals(x), Vals(y))
             inputs == x \cup y
  <1>1. number # {} => inputs # {}
    BY NumbersNeed
  <1>2. Ratio(id, x, y, f, b) = Emission(id, number, inputs, f, b)
    BY DEF Ratio
  <1> HIDE DEF number, inputs
  <1>3. (\A r \in inputs : GoodRef(s, l, r)) /\ MayRest(s, id[1], inputs)
    BY DEF inputs
  <1> QED BY <1>1, <1>2, <1>3, MadeGood

\* References to figures of a period rest on no trailing sum, those of the day on no year.
LEMMA ReportedRest ==
    ASSUME NEW s, Sheet(s), NEW l, NEW p, NEW field \in SourceFields,
           NEW r \in Reported(s, p, field)
    PROVE  /\ GoodRef(s, l, r) /\ NoTrail(s, r.id)
           /\ field \notin Flows => NoYear(s, r.id)
  <1>1. ReportedRef(s, r) /\ r.id[1] = field
    BY ReportedIs
  <1> QED BY <1>1, ReportedNoTrail DEF GoodRef, NoYear

\* References to what the day's quote carries rest on no year; only those to a
\* trailing year rest on a trailing sum.
LEMMA DailyRest ==
    ASSUME NEW s, NEW l, NEW field
    PROVE  /\ \A r \in MarketRef(s, field) : GoodRef(s, l, r) /\ NoTrail(s, r.id) /\ NoYear(s, r.id)
           /\ \A r \in TtmRef(s, field) : GoodRef(s, l, r) /\ NoYear(s, r.id)
           /\ \A r \in ConsensusRef(s) : GoodRef(s, l, r) /\ NoTrail(s, r.id) /\ NoYear(s, r.id)
           /\ \A r \in IndexRef(s) : GoodRef(s, l, r) /\ NoTrail(s, r.id) /\ NoYear(s, r.id)
  BY DailyIs DEF GoodRef, NoTrail, NoYear

\* A flow of the trailing year if the factsheet has one, of the last year otherwise
LEMMA FlowRest ==
    ASSUME NEW s, Sheet(s), NEW l, NEW field \in SourceFields, NEW r \in FlowRef(s, field)
    PROVE  /\ GoodRef(s, l, r)
           /\ IF TtmRef(s, field) # {} THEN NoYear(s, r.id) ELSE NoTrail(s, r.id)
  <1>1. CASE TtmRef(s, field) # {}
    BY <1>1, DailyRest DEF FlowRef
  <1>2. CASE TtmRef(s, field) = {}
    BY <1>2, ReportedRest DEF FlowRef
  <1> QED BY <1>1, <1>2

\* Which of the multiples rest on a trailing sum
LEMMA TrailingAre ==
    ASSUME NEW s
    PROVE  /\ \A n \in {"pe", "pe_premium_vs_peers"} :
                  n \in TrailingNames(s) <=> TtmRef(s, "eps_diluted") # {}
           /\ \A n \in {"p_s", "ev_revenue", "p_s_premium_vs_peers",
                        "ev_revenue_premium_vs_peers"} :
                  n \in TrailingNames(s) <=> TtmRef(s, "revenue") # {}
           /\ \A n \in {"ev_ebitda", "ev_ebitda_premium_vs_peers"} :
                  n \in TrailingNames(s) <=> DerivedTtm(s, "ebitda_ttm") # {}
           /\ \A n \in {"p_fcf", "p_fcf_premium_vs_peers"} :
                  n \in TrailingNames(s) <=> DerivedTtm(s, "fcf_ttm") # {}
           /\ {"ebitda_ttm", "fcf_ttm"} \subseteq TrailingNames(s)
           /\ \A n \in {"pe", "p_s", "ev_revenue", "ev_ebitda", "p_fcf", "pe_premium_vs_peers",
                        "p_s_premium_vs_peers", "ev_revenue_premium_vs_peers",
                        "ev_ebitda_premium_vs_peers", "p_fcf_premium_vs_peers",
                        "ebitda_ttm", "fcf_ttm", "enterprise_value"} : n \notin SourceFields
           /\ "enterprise_value" \notin TrailingNames(s)
  BY DEF TrailingNames, SourceFields

\* The trailing sums of calc/metrics/ttm.py are made of trailing figures only.
LEMMA DerivedTtmGood ==
    ASSUME NEW s, Sheet(s), NEW l, NEW n \in {"ebitda_ttm", "fcf_ttm"}, NEW e \in DerivedTtm(s, n)
    PROVE  GoodEmission(s, l, e) /\ e.id = Id(n, Annual(s))
  <1> DEFINE id == Id(n, Annual(s))
             f == TtmRef(s, Parts(n)[1])
             g == TtmRef(s, Parts(n)[2])
             number == IF id[1] = "ebitda_ttm" THEN Plus(Vals(f), Vals(g))
                       ELSE Minus(Vals(f), Vals(g))
             inputs == f \cup g
  <1>1. e = Emission(id, number, inputs, FALSE, FALSE) /\ f # {}
    BY DEF DerivedTtm, Total
  <1>2. \A r \in inputs : GoodRef(s, l, r) /\ NoYear(s, r.id)
    BY DailyRest
  <1>3. id[1] = n /\ id[2] = Annual(s) /\ Annual(s) \in Labels(s)
    BY IdIs, PeriodsAre
  <1>4. n \in TrailingNames(s) /\ n \notin SourceFields
    BY TrailingAre
  <1>5. inputs # {}
    BY <1>1
  <1> HIDE DEF id, f, g, number, inputs
  <1>6. MayRest(s, n, inputs)
    BY <1>2, <1>4 DEF MayRest
  <1>7. GoodEmission(s, l, e)
    BY <1>1, <1>2, <1>3, <1>4, <1>5, <1>6, MadeGood
  <1> QED BY <1>1, <1>7 DEF Emission, id

\* The multiples compute_metrics takes straight from the factsheet
LEMMA ReportedMultiplesGood ==
    ASSUME NEW s, Sheet(s), NEW l, NEW e \in ReportedMultiples(s)
    PROVE  GoodEmission(s, l, e)
  <1> DEFINE a == Annual(s)
             b == Balance(s)
             price == MarketRef(s, "price")
             cap == MarketRef(s, "market_cap")
             eps == FlowRef(s, "eps_diluted")
             sales == FlowRef(s, "revenue")
             equity == Reported(s, b, "total_equity")
             debt == Reported(s, b, "total_debt")
             cash == Reported(s, b, "cash")
             worth == Minus(Plus(Vals(cap), Vals(debt)), Vals(cash))
             parts == cap \cup debt \cup cash
             ev == Emission(Id("enterprise_value", b), worth, parts, FALSE, FALSE)
  <1>1. a \in Labels(s) /\ b \in Labels(s)
    BY PeriodsAre
  <1>2. \A n : /\ Id(n, a)[1] = n /\ Id(n, a)[2] = a
               /\ Id(n, b)[1] = n /\ Id(n, b)[2] = b
    BY IdIs
  <1>3. /\ \A r \in price \cup cap \cup ConsensusRef(s) :
               GoodRef(s, l, r) /\ NoTrail(s, r.id) /\ NoYear(s, r.id)
        /\ \A r \in eps : /\ GoodRef(s, l, r)
                          /\ IF TtmRef(s, "eps_diluted") # {} THEN NoYear(s, r.id)
                             ELSE NoTrail(s, r.id)
        /\ \A r \in sales : /\ GoodRef(s, l, r)
                            /\ IF TtmRef(s, "revenue") # {} THEN NoYear(s, r.id)
                               ELSE NoTrail(s, r.id)
        /\ \A r \in equity : GoodRef(s, l, r) /\ NoTrail(s, r.id)
        /\ \A r \in debt \cup cash : GoodRef(s, l, r) /\ NoTrail(s, r.id) /\ NoYear(s, r.id)
    <2>1. /\ {"eps_diluted", "revenue", "total_equity", "total_debt", "cash"} \subseteq SourceFields
          /\ "total_debt" \notin Flows /\ "cash" \notin Flows
      BY DEF SourceFields, Flows
    <2> QED BY <2>1, DailyRest, FlowRest, ReportedRest
  <1>4. worth # {} => parts # {}
    <2>1. \A x : Minus(x, Vals(cash)) # {} => cash # {}
      BY DEF Minus, Vals
    <2> QED BY <2>1
  <1>5. e \in {Ratio(Id("pe", a), price, eps, FALSE, FALSE),
               Ratio(Id("forward_pe", a), price, ConsensusRef(s), FALSE, FALSE),
               Ratio(Id("p_s", a), cap, sales, FALSE, FALSE),
               Ratio(Id("p_b", b), cap, equity, FALSE, FALSE)}
        \/ e \in DerivedTtm(s, "ebitda_ttm") \/ e \in DerivedTtm(s, "fcf_ttm")
        \/ e = ev
    BY DEF ReportedMultiples
  <1> HIDE DEF a, b, price, cap, eps, sales, equity, debt, cash, worth, parts
  <1>6. GoodEmission(s, l, Ratio(Id("pe", a), price, eps, FALSE, FALSE))
    <2>1. MayRest(s, "pe", price \cup eps)
      BY <1>3, TrailingAre DEF MayRest
    <2> QED BY <1>1, <1>2, <1>3, <2>1, TrailingAre, RatioGood
  <1>7. GoodEmission(s, l, Ratio(Id("p_s", a), cap, sales, FALSE, FALSE))
    <2>1. MayRest(s, "p_s", cap \cup sales)
      BY <1>3, TrailingAre DEF MayRest
    <2> QED BY <1>1, <1>2, <1>3, <2>1, TrailingAre, RatioGood
  <1>8. "forward_pe" \in YearNames /\ "p_b" \in YearNames
    BY DEF YearNames
  <1>9. GoodEmission(s, l, Ratio(Id("forward_pe", a), price, ConsensusRef(s), FALSE, FALSE))
    <2>1. MayRest(s, "forward_pe", price \cup ConsensusRef(s))
      BY <1>3 DEF MayRest
    <2> QED BY <1>1, <1>2, <1>3, <1>8, <2>1, NamesApart, RatioGood
  <1>10. GoodEmission(s, l, Ratio(Id("p_b", b), cap, equity, FALSE, FALSE))
    <2>1. MayRest(s, "p_b", cap \cup equity)
      BY <1>3, <1>8, NamesApart DEF MayRest
    <2> QED BY <1>1, <1>2, <1>3, <1>8, <2>1, NamesApart, RatioGood
  <1>11. GoodEmission(s, l, ev)
    <2>1. \A r \in parts : GoodRef(s, l, r) /\ NoTrail(s, r.id) /\ NoYear(s, r.id)
      BY <1>3 DEF parts
    <2>2. MayRest(s, "enterprise_value", parts)
      BY <2>1 DEF MayRest
    <2> QED BY <1>1, <1>2, <1>4, <2>1, <2>2, TrailingAre, MadeGood
  <1> QED BY <1>5, <1>6, <1>7, <1>9, <1>10, <1>11, DerivedTtmGood

\* The numbers the later formulas look up are there: what one pass needs of another.
FirstShown(s, l) ==
    /\ {Id("fcf", Annual(s)), Id("ebitda", Annual(s)), Id("net_debt", Balance(s)), FcfBaseId(s),
        Id("pe", Annual(s)), Id("forward_pe", Annual(s)), Id("p_s", Annual(s)),
        Id("p_b", Balance(s))} \subseteq DOMAIN l.shown
    /\ MarketRef(s, "enterprise_value") = {} =>
           Id("enterprise_value", Balance(s)) \in DOMAIN l.shown
    /\ \A n \in {"ebitda_ttm", "fcf_ttm"} :
           Id(n, Annual(s)) \in DOMAIN l.shown <=> DerivedTtm(s, n) # {}

Shows(s, l) ==
    {Id("fcf", Annual(s)), FcfBaseId(s), Id("pe", Annual(s)), Id("forward_pe", Annual(s)),
     Id("p_s", Annual(s)), Id("p_b", Balance(s)), Id("ev_ebitda", Annual(s)),
     Id("ev_revenue", Annual(s)), Id("p_fcf", Annual(s))} \subseteq DOMAIN l.shown

\* References to facts the ledger holds
LEMMA DerivedRest ==
    ASSUME NEW s, Sheet(s), NEW l, LedgerOK(s, l), NEW id \in DOMAIN l.shown,
           NEW r \in DerivedRef(l, id)
    PROVE  /\ GoodRef(s, l, r) /\ r.id = id
           /\ id[1] \notin TrailingNames(s) => NoTrail(s, r.id)
           /\ id[1] \in TrailingNames(s) \cup {"enterprise_value"} => NoYear(s, r.id)
  <1>1. FactRef(l, r) /\ r.id = id
    BY DerivedIs
  <1>2. id[2] \in Labels(s)
    BY <1>1 DEF FactRef, LedgerOK, FactOK, DerivedId
  <1>3. id[2] # "ttm"
    BY <1>2 DEF Sheet
  <1> QED BY <1>1, <1>3 DEF GoodRef, NoTrail, NoYear

\* The numbers the metrics of the periods and the first multiples are shown under
LEMMA FundamentalsHold ==
    ASSUME NEW s
    PROVE  {Id("fcf", Annual(s)), Id("ebitda", Annual(s)), Id("net_debt", Balance(s)), FcfBaseId(s)}
               \subseteq {e.id : e \in Fundamentals(s)}
  <1> DEFINE a == Annual(s)
             b == Balance(s)
             number == IF s.partial THEN {} ELSE FreeCash(s, a)
             free == Emission(Id("fcf", a), number, FreeCashInputs(s, a), FALSE, s.partial)
             debt == Emission(Id("net_debt", b),
                       Minus(Vals(Reported(s, b, "total_debt")), Vals(Reported(s, b, "cash"))),
                       Reported(s, b, "total_debt") \cup Reported(s, b, "cash"), FALSE, FALSE)
  <1>1. free.id = Id("fcf", a) /\ debt.id = Id("net_debt", b) /\ Ebitda(s, a).id = Id("ebitda", a)
    BY DEF Emission, Ebitda
  <1>2. debt \in BalanceSheet(s, a, b)
    BY DEF BalanceSheet
  <1>3. /\ free \in Fundamentals(s) /\ Ebitda(s, a) \in Fundamentals(s)
        /\ BalanceSheet(s, a, b) \cup FcfBase(s) \subseteq Fundamentals(s)
    <2> DEFINE ones == {free, Ebitda(s, a), CapexIntensity(s, a), SbcPctRevenue(s, a),
                        BookValuePerShare(s, b), ReturnOnEquity(s, a)}
               margins == UNION {Margins(s, p) : p \in Labels(s)}
               days == UNION {Days(s, p) : p \in {a} \cup ComparablePrior(s, a)}
               dilutions == {Dilution(s, a, q) : q \in ComparablePrior(s, a)}
    <2>1. Fundamentals(s) = ones \cup BalanceSheet(s, a, b) \cup margins
                            \cup YearOverYear(s) \cup AllCagr(s) \cup FcfBase(s)
                            \cup days \cup dilutions
      BY DEF Fundamentals
    <2>2. free \in ones /\ Ebitda(s, a) \in ones
      OBVIOUS
    <2> HIDE DEF a, b, free, ones, margins, days, dilutions
    <2> QED BY <2>1, <2>2
  <1> HIDE DEF a, b, free, debt
  <1>4. FcfBase(s) # {} => FcfBaseId(s) \in {e.id : e \in Fundamentals(s)}
    <2>1. FcfBase(s) # {} => FcfBaseId(s) = (CHOOSE e \in FcfBase(s) : TRUE).id
      BY DEF FcfBaseId
    <2>2. FcfBase(s) # {} => (CHOOSE e \in FcfBase(s) : TRUE) \in FcfBase(s)
      OBVIOUS
    <2> QED BY <1>3, <2>1, <2>2
  <1>5. FcfBase(s) = {} => FcfBaseId(s) = Id("fcf", a)
    BY DEF FcfBaseId, a
  <1>6. {Id("fcf", a), Id("ebitda", a), Id("net_debt", b)} \subseteq {e.id : e \in Fundamentals(s)}
    BY <1>1, <1>2, <1>3
  <1> QED BY <1>4, <1>5, <1>6 DEF a, b

\* The ids of the multiples, and of the trailing sums where there are any
LEMMA MultiplesHold ==
    ASSUME NEW s
    PROVE  /\ {Id("pe", Annual(s)), Id("forward_pe", Annual(s)), Id("p_s", Annual(s)),
               Id("p_b", Balance(s))} \subseteq {e.id : e \in ReportedMultiples(s)}
           /\ MarketRef(s, "enterprise_value") = {} =>
                  Id("enterprise_value", Balance(s)) \in {e.id : e \in ReportedMultiples(s)}
           /\ DerivedTtm(s, "ebitda_ttm") \cup DerivedTtm(s, "fcf_ttm")
                  \subseteq ReportedMultiples(s)
           /\ \A e \in ReportedMultiples(s) :
                  \/ e.id[1] \in {"pe", "forward_pe", "p_s", "p_b", "enterprise_value"}
                  \/ e \in DerivedTtm(s, "ebitda_ttm") \/ e \in DerivedTtm(s, "fcf_ttm")
  <1> DEFINE a == Annual(s)
             b == Balance(s)
             cap == MarketRef(s, "market_cap")
             debt == Reported(s, b, "total_debt")
             cash == Reported(s, b, "cash")
             price == MarketRef(s, "price")
             pe == Ratio(Id("pe", a), price, FlowRef(s, "eps_diluted"), FALSE, FALSE)
             forward == Ratio(Id("forward_pe", a), price, ConsensusRef(s), FALSE, FALSE)
             sales == Ratio(Id("p_s", a), cap, FlowRef(s, "revenue"), FALSE, FALSE)
             book == Ratio(Id("p_b", b), cap, Reported(s, b, "total_equity"), FALSE, FALSE)
             ev == Emission(Id("enterprise_value", b),
                            Minus(Plus(Vals(cap), Vals(debt)), Vals(cash)),
                            cap \cup debt \cup cash, FALSE, FALSE)
  <1>1. ReportedMultiples(s) = {pe, forward, sales, book}
            \cup DerivedTtm(s, "ebitda_ttm") \cup DerivedTtm(s, "fcf_ttm")
            \cup (IF MarketRef(s, "enterprise_value") # {} THEN {} ELSE {ev})
    BY DEF ReportedMultiples
  <1>2. /\ pe.id = Id("pe", a) /\ forward.id = Id("forward_pe", a) /\ sales.id = Id("p_s", a)
        /\ book.id = Id("p_b", b) /\ ev.id = Id("enterprise_value", b)
    BY DEF Ratio, Emission
  <1> HIDE DEF pe, forward, sales, book, ev
  <1>3. \A e \in ReportedMultiples(s) :
            \/ e \in {pe, forward, sales, book, ev}
            \/ e \in DerivedTtm(s, "ebitda_ttm") \/ e \in DerivedTtm(s, "fcf_ttm")
    BY <1>1
  <1>4. /\ {pe, forward, sales, book} \subseteq ReportedMultiples(s)
        /\ MarketRef(s, "enterprise_value") = {} => ev \in ReportedMultiples(s)
    BY <1>1
  <1>5. \A e \in {pe, forward, sales, book, ev} :
            e.id[1] \in {"pe", "forward_pe", "p_s", "p_b", "enterprise_value"}
    BY <1>2, IdIs
  <1> QED BY <1>1, <1>2, <1>3, <1>4, <1>5

\* The first pass of compute_metrics leaves what the second looks up.
LEMMA FirstIsShown ==
    ASSUME NEW s, Sheet(s), NEW l, l = Emit(EmptyLedger, Fundamentals(s) \cup ReportedMultiples(s))
    PROVE  FirstShown(s, l)
  <1> DEFINE F == Fundamentals(s)
             R == ReportedMultiples(s)
             a == Annual(s)
  <1>1. DOMAIN l.shown = {e.id : e \in F \cup R}
    <2> DEFINE es == F \cup R
    <2>1. DOMAIN EmptyLedger.shown = {}
      BY DEF EmptyLedger
    <2>2. l = Emit(EmptyLedger, es)
      OBVIOUS
    <2> HIDE DEF es
    <2>3. DOMAIN l.shown = {e.id : e \in es}
      BY <2>1, <2>2, ShownAfter
    <2> QED BY <2>3 DEF es
  <1>2. {e.id : e \in F \cup R} = {e.id : e \in F} \cup {e.id : e \in R}
    OBVIOUS
  <1>3. ASSUME NEW n \in {"ebitda_ttm", "fcf_ttm"}, DerivedTtm(s, n) # {}
        PROVE  Id(n, a) \in DOMAIN l.shown
    <2>1. PICK e \in DerivedTtm(s, n) : TRUE
      BY <1>3
    <2>2. e \in R
      BY MultiplesHold
    <2>3. e.id = Id(n, a)
      BY DerivedTtmGood
    <2> QED BY <1>1, <2>2, <2>3
  <1>4. ASSUME NEW n \in {"ebitda_ttm", "fcf_ttm"}, Id(n, a) \in DOMAIN l.shown
        PROVE  DerivedTtm(s, n) # {}
    <2>1. PICK e \in F \cup R : e.id = Id(n, a)
      BY <1>1, <1>4
    <2>2. e.id[1] = n
      BY <2>1, IdIs
    <2>3. e \notin F
      BY <2>2, FundamentalsYearly, NamesApart, TrailingAre DEF IsYearly
    <2>4. e \in DerivedTtm(s, "ebitda_ttm") \/ e \in DerivedTtm(s, "fcf_ttm")
      BY <2>1, <2>2, <2>3, MultiplesHold
    <2>5. \A m \in {"ebitda_ttm", "fcf_ttm"} : e \in DerivedTtm(s, m) => e.id[1] = m
      BY DerivedTtmGood, IdIs
    <2> QED BY <2>2, <2>4, <2>5
  <1> QED BY <1>1, <1>2, <1>3, <1>4, FundamentalsHold, MultiplesHold DEF FirstShown

\* What compute_metrics makes of the numbers of its first pass
LEMMA DerivedMetricsGood ==
    ASSUME NEW s, Sheet(s), NEW l, LedgerOK(s, l), FirstShown(s, l), NEW e \in DerivedMetrics(s, l)
    PROVE  GoodEmission(s, l, e)
  <1> DEFINE a == Annual(s)
             b == Balance(s)
             trailing(metric, year) ==
                 DerivedRef(l, Id(IF Id(metric, a) \in DOMAIN l.shown THEN metric ELSE year, a))
             ev == EnterpriseValue(s, l)
             fcf == FcfRef(s, l)
             cap == MarketRef(s, "market_cap")
             sales == FlowRef(s, "revenue")
             earned == trailing("ebitda_ttm", "ebitda")
             free == trailing("fcf_ttm", "fcf")
             no == NoFcf(s, l)
  <1>1. a \in Labels(s) /\ b \in Labels(s)
    BY PeriodsAre
  <1>2. \A n : /\ Id(n, a)[1] = n /\ Id(n, a)[2] = a
               /\ Id(n, b)[1] = n /\ Id(n, b)[2] = b
    BY IdIs
  <1>3. {"fcf", "ebitda", "net_debt", "fcf_conversion", "fcf_yield", "sbc_pct_fcf",
         "net_debt_to_ebitda"} \subseteq YearNames
    BY DEF YearNames
  <1>4. \A n \in {"fcf", "ebitda", "net_debt", "fcf_conversion", "fcf_yield", "sbc_pct_fcf",
                  "net_debt_to_ebitda"} :
            n \notin TrailingNames(s) /\ n \notin SourceFields /\ n # "enterprise_value"
    BY <1>3, NamesApart
  <1>5. \A r \in fcf : GoodRef(s, l, r) /\ NoTrail(s, r.id)
    BY <1>2, <1>4, DerivedRest DEF FirstShown, FcfRef
  <1>6. \A r \in ev : GoodRef(s, l, r) /\ NoTrail(s, r.id) /\ NoYear(s, r.id)
    <2>1. CASE MarketRef(s, "enterprise_value") # {}
      BY <2>1, DailyRest DEF EnterpriseValue
    <2>2. CASE MarketRef(s, "enterprise_value") = {}
      <3>1. Id("enterprise_value", b) \in DOMAIN l.shown
        BY <2>2 DEF FirstShown
      <3>2. ev = DerivedRef(l, Id("enterprise_value", b))
        BY <2>2 DEF EnterpriseValue
      <3> HIDE DEF b, ev
      <3> QED BY <1>2, <3>1, <3>2, DerivedRest, TrailingAre
    <2> QED BY <2>1, <2>2
  <1>7. \A r \in earned : /\ GoodRef(s, l, r)
                          /\ IF DerivedTtm(s, "ebitda_ttm") # {} THEN NoYear(s, r.id)
                             ELSE NoTrail(s, r.id)
    <2>1. CASE DerivedTtm(s, "ebitda_ttm") # {}
      <3>1. Id("ebitda_ttm", a) \in DOMAIN l.shown /\ earned = DerivedRef(l, Id("ebitda_ttm", a))
        BY <2>1 DEF FirstShown
      <3> HIDE DEF a, earned
      <3> QED BY <1>2, <2>1, <3>1, DerivedRest, TrailingAre
    <2>2. CASE DerivedTtm(s, "ebitda_ttm") = {}
      <3>1. earned = DerivedRef(l, Id("ebitda", a)) /\ Id("ebitda", a) \in DOMAIN l.shown
        BY <2>2 DEF FirstShown
      <3> HIDE DEF a, earned
      <3> QED BY <1>2, <1>4, <2>2, <3>1, DerivedRest
    <2> QED BY <2>1, <2>2
  <1>8. \A r \in free : /\ GoodRef(s, l, r)
                        /\ IF DerivedTtm(s, "fcf_ttm") # {} THEN NoYear(s, r.id)
                           ELSE NoTrail(s, r.id)
    <2>1. CASE DerivedTtm(s, "fcf_ttm") # {}
      <3>1. Id("fcf_ttm", a) \in DOMAIN l.shown /\ free = DerivedRef(l, Id("fcf_ttm", a))
        BY <2>1 DEF FirstShown
      <3> HIDE DEF a, free
      <3> QED BY <1>2, <2>1, <3>1, DerivedRest, TrailingAre
    <2>2. CASE DerivedTtm(s, "fcf_ttm") = {}
      <3>1. free = DerivedRef(l, Id("fcf", a)) /\ Id("fcf", a) \in DOMAIN l.shown
        BY <2>2 DEF FirstShown
      <3> HIDE DEF a, free
      <3> QED BY <1>2, <1>4, <2>2, <3>1, DerivedRest
    <2> QED BY <2>1, <2>2
  <1>9. \A r \in DerivedRef(l, Id("net_debt", b)) \cup DerivedRef(l, Id("ebitda", a)) :
            GoodRef(s, l, r) /\ NoTrail(s, r.id)
    BY <1>2, <1>4, DerivedRest DEF FirstShown
  <1>10. /\ \A r \in cap : GoodRef(s, l, r) /\ NoTrail(s, r.id) /\ NoYear(s, r.id)
         /\ \A r \in sales : /\ GoodRef(s, l, r)
                             /\ IF TtmRef(s, "revenue") # {} THEN NoYear(s, r.id)
                                ELSE NoTrail(s, r.id)
         /\ \A r \in Reported(s, a, "net_income") \cup Reported(s, a, "sbc") :
                GoodRef(s, l, r) /\ NoTrail(s, r.id)
    <2>1. {"revenue", "net_income", "sbc"} \subseteq SourceFields
      BY DEF SourceFields
    <2> QED BY <2>1, DailyRest, FlowRest, ReportedRest
  <1>11. e \in {FcfConversion(s, l), FcfYield(s, l), SbcPctFcf(s, l), Leverage(s, l),
                Ratio(Id("ev_ebitda", a), ev, earned, FALSE, s.partial),
                Ratio(Id("ev_revenue", a), ev, sales, FALSE, s.partial),
                Ratio(Id("p_fcf", a), cap, free, FALSE, no)}
    BY DEF DerivedMetrics
  <1>12. GoodEmission(s, l, FcfConversion(s, l)) /\ GoodEmission(s, l, FcfYield(s, l))
    <2>1. /\ FcfConversion(s, l) =
                 Ratio(Id("fcf_conversion", a), fcf, Reported(s, a, "net_income"), TRUE, no)
          /\ FcfYield(s, l) = Ratio(Id("fcf_yield", a), fcf, cap, TRUE, no)
      BY DEF FcfConversion, FcfYield
    <2> HIDE DEF a, fcf, cap, no
    <2>2. /\ MayRest(s, "fcf_conversion", fcf \cup Reported(s, a, "net_income"))
          /\ MayRest(s, "fcf_yield", fcf \cup cap)
      BY <1>4, <1>5, <1>10 DEF MayRest
    <2> QED BY <1>1, <1>2, <1>4, <1>5, <1>10, <2>1, <2>2, RatioGood
  <1>13. GoodEmission(s, l, SbcPctFcf(s, l)) /\ GoodEmission(s, l, Leverage(s, l))
    <2> DEFINE debt == DerivedRef(l, Id("net_debt", b))
               ebitda == DerivedRef(l, Id("ebitda", a))
               none == l.shown[Id("ebitda", a)].notApplicable
    <2>1. /\ SbcPctFcf(s, l) = Ratio(Id("sbc_pct_fcf", a), Reported(s, a, "sbc"), fcf, TRUE, no)
          /\ Leverage(s, l) = Ratio(Id("net_debt_to_ebitda", b), debt, ebitda, FALSE, none)
      BY DEF SbcPctFcf, Leverage
    <2>2. \A r \in debt \cup ebitda : GoodRef(s, l, r) /\ NoTrail(s, r.id)
      BY <1>9
    <2> HIDE DEF a, b, fcf, no, debt, ebitda, none
    <2>3. /\ MayRest(s, "sbc_pct_fcf", Reported(s, a, "sbc") \cup fcf)
          /\ MayRest(s, "net_debt_to_ebitda", debt \cup ebitda)
      BY <1>4, <1>5, <1>10, <2>2 DEF MayRest
    <2>4. \A r \in Reported(s, a, "sbc") \cup fcf : GoodRef(s, l, r)
      BY <1>5, <1>10
    <2>5. \A r \in debt \cup ebitda : GoodRef(s, l, r)
      BY <2>2
    <2> DEFINE id == Id("sbc_pct_fcf", a)
               of == Id("net_debt_to_ebitda", b)
               sbc == Reported(s, a, "sbc")
    <2>6. /\ id[1] = "sbc_pct_fcf" /\ id[2] = a /\ id[1] \notin SourceFields
          /\ of[1] = "net_debt_to_ebitda" /\ of[2] = b /\ of[1] \notin SourceFields
      BY <1>2, <1>4
    <2> HIDE DEF id, of, sbc
    <2>7. GoodEmission(s, l, Ratio(id, sbc, fcf, TRUE, no))
      BY <1>1, <2>3, <2>4, <2>6, RatioGood DEF sbc
    <2>8. GoodEmission(s, l, Ratio(of, debt, ebitda, FALSE, none))
      BY <1>1, <2>3, <2>5, <2>6, RatioGood
    <2> QED BY <2>1, <2>7, <2>8 DEF id, of, sbc
  <1> HIDE DEF a, b, ev, sales, earned, free, no, cap
  <1>14. GoodEmission(s, l, Ratio(Id("ev_ebitda", a), ev, earned, FALSE, s.partial))
    <2>1. MayRest(s, "ev_ebitda", ev \cup earned)
      BY <1>6, <1>7, TrailingAre DEF MayRest
    <2>2. "ev_ebitda" \notin SourceFields
      BY TrailingAre
    <2>3. \A r \in ev \cup earned : GoodRef(s, l, r)
      BY <1>6, <1>7
    <2> DEFINE id == Id("ev_ebitda", a)
               blocked == s.partial
    <2>4. id[1] = "ev_ebitda" /\ id[2] = a
      BY <1>2
    <2> HIDE DEF id, blocked
    <2>5. GoodEmission(s, l, Ratio(id, ev, earned, FALSE, blocked))
      BY <1>1, <2>1, <2>2, <2>3, <2>4, RatioGood
    <2> QED BY <2>5 DEF id, blocked
  <1>15. GoodEmission(s, l, Ratio(Id("ev_revenue", a), ev, sales, FALSE, s.partial))
    <2>1. MayRest(s, "ev_revenue", ev \cup sales)
      BY <1>6, <1>10, TrailingAre DEF MayRest
    <2>2. "ev_revenue" \notin SourceFields
      BY TrailingAre
    <2>3. \A r \in ev \cup sales : GoodRef(s, l, r)
      BY <1>6, <1>10
    <2> DEFINE id == Id("ev_revenue", a)
               blocked == s.partial
    <2>4. id[1] = "ev_revenue" /\ id[2] = a
      BY <1>2
    <2> HIDE DEF id, blocked
    <2>5. GoodEmission(s, l, Ratio(id, ev, sales, FALSE, blocked))
      BY <1>1, <2>1, <2>2, <2>3, <2>4, RatioGood
    <2> QED BY <2>5 DEF id, blocked
  <1>16. GoodEmission(s, l, Ratio(Id("p_fcf", a), cap, free, FALSE, no))
    <2>1. MayRest(s, "p_fcf", cap \cup free)
      BY <1>8, <1>10, TrailingAre DEF MayRest
    <2> QED BY <1>1, <1>2, <1>8, <1>10, <2>1, TrailingAre, RatioGood
  <1> QED BY <1>11, <1>12, <1>13, <1>14, <1>15, <1>16

\* The second pass adds the multiples on the enterprise value and on cash flow.
LEMMA SecondShows ==
    ASSUME NEW s, NEW l, FirstShown(s, l), NEW m, m = Emit(l, DerivedMetrics(s, l))
    PROVE  Shows(s, m)
  <1> DEFINE a == Annual(s)
             es == DerivedMetrics(s, l)
             trailing(metric, year) ==
                 DerivedRef(l, Id(IF Id(metric, a) \in DOMAIN l.shown THEN metric ELSE year, a))
             ev == EnterpriseValue(s, l)
             earned == trailing("ebitda_ttm", "ebitda")
             free == trailing("fcf_ttm", "fcf")
             worth == Ratio(Id("ev_ebitda", a), ev, earned, FALSE, s.partial)
             sales == Ratio(Id("ev_revenue", a), ev, FlowRef(s, "revenue"), FALSE, s.partial)
             cash == Ratio(Id("p_fcf", a), MarketRef(s, "market_cap"), free, FALSE, NoFcf(s, l))
  <1>1. worth \in es /\ sales \in es /\ cash \in es
    BY DEF DerivedMetrics
  <1>2. worth.id = Id("ev_ebitda", a) /\ sales.id = Id("ev_revenue", a) /\ cash.id = Id("p_fcf", a)
    BY DEF Ratio, Emission
  <1> HIDE DEF es, worth, sales, cash
  <1>3. {Id("ev_ebitda", a), Id("ev_revenue", a), Id("p_fcf", a)} \subseteq {e.id : e \in es}
    BY <1>1, <1>2
  <1>4. DOMAIN m.shown = DOMAIN l.shown \cup {e.id : e \in es}
    BY ShownAfter DEF es
  <1> QED BY <1>3, <1>4 DEF FirstShown, Shows

\* The comparisons: with the peers and the index, and the growth the price implies
LEMMA ImpliedGood ==
    ASSUME NEW s, Sheet(s), NEW l, LedgerOK(s, l), Shows(s, l),
           NEW id, id[1] \in YearNames, id[2] \in Labels(s), NEW base, NEW r, NEW tg
    PROVE  GoodEmission(s, l, Implied(s, l, id, base, r, tg))
  <1> DEFINE ev == MarketRef(s, "enterprise_value")
             own == Id("fcf", Annual(s))
             fcf == DerivedRef(l, own)
             found == {<<g, 100>> :
                          g \in UNION {ImpliedGrowth(x[1] \div x[2], y[1] \div y[2], r, tg) :
                                          x \in Vals(ev), y \in base}}
             number == IF Positive(Vals(fcf)) = {} THEN {} ELSE found
             inputs == ev \cup fcf
             none == l.shown[own].notApplicable
  <1>1. Implied(s, l, id, base, r, tg) = Emission(id, number, inputs, TRUE, none)
    BY DEF Implied
  <1>2. number # {} => inputs # {}
    BY DEF Positive, Vals
  <1>3. own \in DOMAIN l.shown /\ own[1] \notin TrailingNames(s)
    <2>1. own[1] = "fcf" /\ "fcf" \in YearNames
      BY IdIs DEF YearNames
    <2> QED BY <2>1, NamesApart DEF Shows
  <1>4. \A x \in inputs : GoodRef(s, l, x) /\ NoTrail(s, x.id)
    BY <1>3, DerivedRest, DailyRest
  <1>5. MayRest(s, id[1], inputs) /\ id[1] \notin SourceFields
    BY <1>4, NamesApart DEF MayRest
  <1> HIDE DEF number, inputs, none
  <1> QED BY <1>1, <1>2, <1>4, <1>5, MadeGood

\* A premium rests on what the multiple it compares rests on.
SameRest(s, n, m) ==
    /\ n \in TrailingNames(s) <=> m \in TrailingNames(s)
    /\ n \notin SourceFields /\ n # "enterprise_value" /\ m # "enterprise_value"

\* A premium over another number rests on the company's own multiple alone.
LEMMA PremiumGood ==
    ASSUME NEW s, Sheet(s), NEW l, LedgerOK(s, l), NEW id, id[2] \in Labels(s),
           NEW of \in DOMAIN l.shown, SameRest(s, id[1], of[1]), NEW other
    PROVE  GoodEmission(s, l, Premium(id, DerivedRef(l, of), other, DerivedRef(l, of)))
  <1> DEFINE own == DerivedRef(l, of)
             number == Growth(Vals(own), other)
  <1>1. number # {} => own # {}
    BY NumbersNeed
  <1>2. Premium(id, own, other, own) = Emission(id, number, own, TRUE, FALSE)
    BY DEF Premium
  <1>3. /\ \A r \in own : /\ GoodRef(s, l, r)
                          /\ of[1] \notin TrailingNames(s) => NoTrail(s, r.id)
                          /\ of[1] \in TrailingNames(s) => NoYear(s, r.id)
    BY DerivedRest
  <1> HIDE DEF own, number
  <1>4. MayRest(s, id[1], own)
    BY <1>3 DEF MayRest, SameRest
  <1> QED BY <1>1, <1>2, <1>3, <1>4, MadeGood DEF own, SameRest

\* Each premium rests on what its multiple does.
LEMMA PremiumsRest ==
    ASSUME NEW s
    PROVE  \A f \in Compared : SameRest(s, PremiumId(s, f)[1], OwnId(s, f)[1])
  <1>1. \A f \in Compared : PremiumId(s, f)[1] = PremiumName[f] /\ OwnId(s, f)[1] = f
    BY IdIs DEF PremiumId, OwnId
  <1>2. "p_b" \in YearNames /\ "p_b_premium_vs_peers" \in YearNames
    BY DEF YearNames
  <1>3. /\ SameRest(s, "pe_premium_vs_peers", "pe")
        /\ SameRest(s, "ev_ebitda_premium_vs_peers", "ev_ebitda")
        /\ SameRest(s, "ev_revenue_premium_vs_peers", "ev_revenue")
    BY TrailingAre DEF SameRest
  <1>4. /\ SameRest(s, "p_fcf_premium_vs_peers", "p_fcf")
        /\ SameRest(s, "p_s_premium_vs_peers", "p_s")
    BY TrailingAre DEF SameRest
  <1>5. SameRest(s, "p_b_premium_vs_peers", "p_b")
    BY <1>2, NamesApart DEF SameRest
  <1>6. \A f \in Compared : SameRest(s, PremiumName[f], f)
    BY <1>3, <1>4, <1>5 DEF Compared, PeerFields, PremiumName
  <1> QED BY <1>1, <1>6

\* The periods of the company's own multiples and of the premiums
LEMMA OwnAreShown ==
    ASSUME NEW s, Sheet(s), NEW l, Shows(s, l), NEW f \in Compared
    PROVE  OwnId(s, f) \in DOMAIN l.shown /\ PremiumId(s, f)[2] \in Labels(s)
  <1>1. OwnId(s, f) \in DOMAIN l.shown
    BY DEF Shows, OwnId, Compared, PeerFields
  <1>2. PremiumId(s, f)[2] = Annual(s)
    BY IdIs DEF PremiumId
  <1> QED BY <1>1, <1>2, PeriodsAre

\* The premiums over the medians of the peers
LEMMA PremiumsGood ==
    ASSUME NEW s, Sheet(s), NEW l, LedgerOK(s, l), Shows(s, l), NEW table,
           NEW e \in Premiums(s, l, table)
    PROVE  GoodEmission(s, l, e)
  <1>1. PICK f \in Compared :
            e = Premium(PremiumId(s, f), DerivedRef(l, OwnId(s, f)), table[f],
                        DerivedRef(l, OwnId(s, f)))
    BY DEF Premiums
  <1> QED BY <1>1, OwnAreShown, PremiumsRest, PremiumGood

\* The last pass of compute_metrics
LEMMA ComparisonsGood ==
    ASSUME NEW s, Sheet(s), NEW l, LedgerOK(s, l), Shows(s, l), NEW rates,
           NEW e \in Comparisons(s, l, rates)
    PROVE  GoodEmission(s, l, e)
  <1> DEFINE a == Annual(s)
             d(metric) == DerivedRef(l, Id(metric, a))
             fcf == Vals(d("fcf"))
             base == l.shown[FcfBaseId(s)].number
             premiums == {Premium(PremiumId(s, m), d(m), PeerMedian(s, m), d(m)) :
                             m \in {"pe", "ev_ebitda"}}
             index == Premium(Id("forward_pe_premium_vs_sp500", a), d("forward_pe"),
                              Vals(IndexRef(s)), d("forward_pe") \cup IndexRef(s))
             headline == Implied(s, l, Id("implied_fcf_cagr", a), fcf, rates.r, rates.tg)
             smoothed == Implied(s, l, Id("implied_fcf_cagr_smoothed_base", a), base,
                                 rates.r, rates.tg)
             grid == {Implied(s, l, Cell("implied_fcf_cagr", a, r, tg), fcf, r, tg) :
                         r \in SensitivityRates, tg \in SensitivityGrowths}
  <1>1. Comparisons(s, l, rates) = premiums \cup {index, headline, smoothed} \cup grid
    BY DEF Comparisons
  <1>2. a \in Labels(s)
    BY PeriodsAre
  <1>3. {"implied_fcf_cagr", "implied_fcf_cagr_smoothed_base", "forward_pe",
         "forward_pe_premium_vs_sp500"} \subseteq YearNames
    BY DEF YearNames
  <1>4. \A x \in premiums : GoodEmission(s, l, x)
    <2>1. \A m \in {"pe", "ev_ebitda"} : m \in Compared /\ OwnId(s, m) = Id(m, a)
      BY DEF Compared, PeerFields, OwnId
    <2> SUFFICES ASSUME NEW m \in {"pe", "ev_ebitda"}
                 PROVE  GoodEmission(s, l, Premium(PremiumId(s, m), d(m), PeerMedian(s, m), d(m)))
      OBVIOUS
    <2>2. d(m) = DerivedRef(l, OwnId(s, m))
      BY <2>1
    <2> HIDE DEF d
    <2> QED BY <2>1, <2>2, OwnAreShown, PremiumsRest, PremiumGood
  <1>5. GoodEmission(s, l, index)
    <2> DEFINE own == d("forward_pe")
               id == Id("forward_pe_premium_vs_sp500", a)
               number == Growth(Vals(own), Vals(IndexRef(s)))
               inputs == own \cup IndexRef(s)
    <2>1. index = Emission(id, number, inputs, TRUE, FALSE)
      BY DEF Premium
    <2>2. number # {} => inputs # {}
      BY NumbersNeed
    <2>3. \A r \in own : GoodRef(s, l, r) /\ NoTrail(s, r.id)
      <3>1. Id("forward_pe", a) \in DOMAIN l.shown /\ Id("forward_pe", a)[1] \notin TrailingNames(s)
        BY <1>3, IdIs, NamesApart DEF Shows
      <3> QED BY <3>1, DerivedRest
    <2>4. \A r \in inputs : GoodRef(s, l, r) /\ NoTrail(s, r.id)
      BY <2>3, DailyRest
    <2>5. id[1] = "forward_pe_premium_vs_sp500" /\ id[2] = a
      BY IdIs
    <2> HIDE DEF index, id, number, inputs
    <2>6. MayRest(s, id[1], inputs) /\ id[1] \notin SourceFields
      BY <1>3, <2>4, <2>5, NamesApart DEF MayRest
    <2> QED BY <1>2, <2>1, <2>2, <2>4, <2>5, <2>6, MadeGood
  <1>6. \A x \in {headline, smoothed} : GoodEmission(s, l, x)
    <2>1. \A n : Id(n, a)[1] = n /\ Id(n, a)[2] = a
      BY IdIs
    <2> HIDE DEF a, fcf, base
    <2> QED BY <1>2, <1>3, <2>1, ImpliedGood
  <1>7. \A x \in grid : GoodEmission(s, l, x)
    <2>1. \A r, tg : /\ Cell("implied_fcf_cagr", a, r, tg)[1] = "implied_fcf_cagr"
                     /\ Cell("implied_fcf_cagr", a, r, tg)[2] = a
      BY IdIs
    <2>2. \A r, tg :
              GoodEmission(s, l, Implied(s, l, Cell("implied_fcf_cagr", a, r, tg), fcf, r, tg))
      <3> HIDE DEF a, fcf
      <3> QED BY <1>2, <1>3, <2>1, ImpliedGood
    <2> QED BY <2>2
  <1> HIDE DEF premiums, index, headline, smoothed, grid
  <1> QED BY <1>1, <1>4, <1>5, <1>6, <1>7

\* The forward valuation, at the headline and in the cells of its grid
LEMMA FairValueGood ==
    ASSUME NEW s, Sheet(s), NEW l, LedgerOK(s, l), Shows(s, l),
           NEW id, id[1] \in YearNames, id[2] \in Labels(s), NEW g0, NEW r, NEW tg
    PROVE  GoodEmission(s, l, FairValue(s, l, id, g0, r, tg))
  <1> DEFINE a == Annual(s)
             base == DerivedRef(l, FcfBaseId(s))
             debt == Reported(s, Balance(s), "total_debt")
             cash == Reported(s, Balance(s), "cash")
             shares == IF MarketRef(s, "shares_outstanding") # {}
                       THEN MarketRef(s, "shares_outstanding")
                       ELSE Reported(s, a, "shares_diluted")
             ev == {<<v, 1>> : v \in UNION {PresentValueFading(x[1] \div x[2], g0, r, tg) :
                                               x \in Vals(base)}}
             equity == Positive(Minus(ev, Minus(Vals(debt), Vals(cash))))
             number == Over(equity, Vals(shares))
             inputs == base \cup debt \cup cash \cup shares
  <1>1. FairValue(s, l, id, g0, r, tg) = Emission(id, number, inputs, FALSE, FALSE)
    BY DEF FairValue
  <1>2. number # {} => inputs # {}
    <2>1. number # {} => shares # {}
      <3> HIDE DEF equity, shares
      <3> QED BY NumbersNeed
    <2> QED BY <2>1
  <1>3. FcfBaseId(s) \in DOMAIN l.shown /\ FcfBaseId(s)[1] \notin TrailingNames(s)
    <2>1. FcfBase(s) # {} => FcfBaseId(s)[1] \in YearNames
      BY FcfBaseYearly DEF IsYearly
    <2>2. FcfBase(s) = {} => FcfBaseId(s)[1] = "fcf" /\ "fcf" \in YearNames
      BY IdIs DEF FcfBaseId, YearNames
    <2> QED BY <2>1, <2>2, NamesApart DEF Shows
  <1>4. /\ \A x \in base : GoodRef(s, l, x) /\ NoTrail(s, x.id)
        /\ \A x \in debt \cup cash : GoodRef(s, l, x) /\ NoTrail(s, x.id)
        /\ \A x \in shares : GoodRef(s, l, x) /\ NoTrail(s, x.id)
    <2>1. {"total_debt", "cash", "shares_diluted"} \subseteq SourceFields
      BY DEF SourceFields
    <2>2. \A x \in base : GoodRef(s, l, x) /\ NoTrail(s, x.id)
      BY <1>3, DerivedRest
    <2>3. /\ \A x \in debt \cup cash : GoodRef(s, l, x) /\ NoTrail(s, x.id)
          /\ \A x \in shares : GoodRef(s, l, x) /\ NoTrail(s, x.id)
      BY <2>1, DailyRest, ReportedRest
    <2> QED BY <2>2, <2>3
  <1>5. \A x \in inputs : GoodRef(s, l, x) /\ NoTrail(s, x.id)
    BY <1>4
  <1>6. MayRest(s, id[1], inputs) /\ id[1] \notin SourceFields
    BY <1>5, NamesApart DEF MayRest
  <1> HIDE DEF number, inputs
  <1> QED BY <1>1, <1>2, <1>5, <1>6, MadeGood

\* The headline and every cell of its grid
LEMMA FairValuesGood ==
    ASSUME NEW s, Sheet(s), NEW l, LedgerOK(s, l), Shows(s, l), NEW rates, NEW override,
           NEW e \in FairValues(s, l, rates, override)
    PROVE  GoodEmission(s, l, e)
  <1> DEFINE a == Annual(s)
             g0 == AssumedGrowth(s, l, override)
             metric == "dcf_value_per_share"
  <1>1. a \in Labels(s) /\ metric \in YearNames
    BY PeriodsAre DEF YearNames
  <1>2. /\ Id(metric, a)[1] = metric /\ Id(metric, a)[2] = a
        /\ \A r, tg : Cell(metric, a, r, tg)[1] = metric /\ Cell(metric, a, r, tg)[2] = a
    BY IdIs
  <1>3. \/ e = FairValue(s, l, Id(metric, a), g0, rates.r, rates.tg)
        \/ \E r, tg : e = FairValue(s, l, Cell(metric, a, r, tg), g0, r, tg)
    BY DEF FairValues
  <1> HIDE DEF a, g0, metric
  <1> QED BY <1>1, <1>2, <1>3, FairValueGood

\* What is shown stays.
LEMMA ShowsStays ==
    ASSUME NEW s, NEW l, Shows(s, l), NEW es, NEW m, m = Emit(l, es)
    PROVE  Shows(s, m)
  BY EmitIs DEF Shows

\* One call of compute_metrics leaves a ledger in order.
LEMMA ComputeGood ==
    ASSUME NEW s, Sheet(s), NEW rates, NEW l, l = ComputeMetrics(s, rates)
    PROVE  LedgerOK(s, l) /\ Shows(s, l)
  <1> DEFINE first == Fundamentals(s) \cup ReportedMultiples(s)
             l1 == Emit(EmptyLedger, first)
             l2 == Emit(l1, DerivedMetrics(s, l1))
  <1>1. l = Emit(l2, Comparisons(s, l2, rates))
    BY DEF ComputeMetrics
  <1>2. \A e \in first : GoodEmission(s, EmptyLedger, e)
    BY FundamentalsYearly, YearlyIsGood, ReportedMultiplesGood
  <1>3. LedgerOK(s, l1)
    <2> HIDE DEF first
    <2> QED BY <1>2, EmptyOK, EmitKeeps
  <1>4. FirstShown(s, l1)
    BY FirstIsShown
  <1> HIDE DEF l1
  <1>5. LedgerOK(s, l2)
    BY <1>3, <1>4, DerivedMetricsGood, EmitKeeps
  <1>6. Shows(s, l2)
    BY <1>4, SecondShows
  <1> HIDE DEF l2
  <1> QED BY <1>1, <1>5, <1>6, ComparisonsGood, EmitKeeps, ShowsStays

-----------------------------------------------------------------------------
(* The call.                                                               *)

\* The inductive invariant: every fact is made of what can be found, and the
\* ids the methods look up are in the ledger once the metrics are.
LInv == /\ sheet \in Factsheets
        /\ LedgerOK(sheet, ledger)
        /\ Started => Shows(sheet, ledger)

\* The assumption on the factsheets, by name
LEMMA SheetsAre == \A s \in Factsheets : Sheet(s)
  BY FactsheetAssumption DEF Sheet

\* The invariant holds of the ledger a call starts from,
LEMMA InitLInv == Init => LInv
  BY EmptyOK DEF Init, LInv, Started

\* and every step keeps it: Compute by ComputeGood, a method because it emits
\* only what it makes of the ledger.
LEMMA StepLInv == LInv /\ [Next]_vars => LInv'
  <1> SUFFICES ASSUME LInv, [Next]_vars PROVE LInv'
    OBVIOUS
  <1>1. sheet' = sheet /\ sheet \in Factsheets /\ Sheet(sheet) /\ LedgerOK(sheet, ledger)
    BY SheetsAre
       DEF LInv, Next, Compute, Multiple, PeerMedians, Dcf, ReverseDcf, Other, Settle, vars
  <1>2. CASE Compute
    <2>1. ledger' = ComputeMetrics(sheet, assumed)
      BY <1>2 DEF Compute
    <2>2. LedgerOK(sheet, ledger') /\ Shows(sheet, ledger')
      BY <1>1, <2>1, ComputeGood
    <2> QED BY <1>1, <2>2 DEF LInv
  <1>3. CASE PeerMedians
    <2>1. PICK table : ledger' = Emit(ledger, Premiums(sheet, ledger, table))
      BY <1>3 DEF PeerMedians
    <2>2. Shows(sheet, ledger)
      BY <1>3 DEF PeerMedians, Asked, LInv
    <2>3. LedgerOK(sheet, ledger') /\ Shows(sheet, ledger')
      BY <1>1, <2>1, <2>2, PremiumsGood, EmitKeeps, ShowsStays
    <2> QED BY <1>1, <2>3 DEF LInv
  <1>4. CASE Dcf
    <2>1. ledger' = Emit(ledger, FairValues(sheet, ledger, assumed, growth))
      BY <1>4 DEF Dcf
    <2>2. Shows(sheet, ledger)
      BY <1>4 DEF Dcf, Asked, LInv
    <2>3. LedgerOK(sheet, ledger') /\ Shows(sheet, ledger')
      BY <1>1, <2>1, <2>2, FairValuesGood, EmitKeeps, ShowsStays
    <2> QED BY <1>1, <2>3 DEF LInv
  <1>5. CASE Multiple \/ ReverseDcf \/ Other \/ UNCHANGED vars
    <2>1. ledger' = ledger
      BY <1>5 DEF Multiple, ReverseDcf, Other, vars
    <2> QED BY <1>1, <2>1 DEF LInv, Started
  <1> QED BY <1>2, <1>3, <1>4, <1>5 DEF Next

\* So it holds throughout.
LEMMA LInvAlways == Spec => []LInv
  BY InitLInv, StepLInv, PTL DEF Spec

\* What a fact cites can be found.
LEMMA LInvLineage == LInv => LineageSound
  <1> SUFFICES ASSUME LInv, NEW id \in DOMAIN ledger.facts, NEW i \in ledger.facts[id].inputs
               PROVE  IF i \in DOMAIN ledger.facts
                      THEN ledger.facts[i].filed <= ledger.facts[id].filed
                      ELSE IF i[2] \in Labels(sheet)
                           THEN /\ sheet.of[i[2]].val[i[1]] # {}
                                /\ sheet.of[i[2]].filed <= ledger.facts[id].filed
                           ELSE /\ i[2] = "ttm" \/ i \in ledger.minted
                                /\ sheet.day <= ledger.facts[id].filed
    BY DEF LineageSound
  <1>1. Cited(sheet, ledger, i, ledger.facts[id].filed)
    BY DEF LInv, LedgerOK, FactOK
  <1>2. i \in DOMAIN ledger.facts => i[1] \notin SourceFields /\ i[2] \in Labels(sheet)
    BY DEF LInv, LedgerOK, FactOK, DerivedId
  <1>3. "market" \notin Labels(sheet) /\ "ttm" \notin Labels(sheet)
    BY SheetsAre DEF LInv, Sheet
  <1> QED BY <1>1, <1>2, <1>3 DEF Cited

\* For every factsheet and every list of methods, each input of each recorded
\* fact can be found - in the ledger, among the figures reported for a period,
\* or in the day's quote - and was filed no later than the fact claims to be
\* (calc/lineage.py latest_filed_at).
THEOREM LineageHolds == Spec => []LineageSound
  BY LInvAlways, LInvLineage, PTL

\* What rests on no trailing sum, or on no sum over a year, leads to none.
LEMMA CitingKeeps ==
    ASSUME LInv, NEW ids, NEW cited,
           cited = ids \cup UNION {ledger.facts[i].inputs : i \in ids \cap DOMAIN ledger.facts}
    PROVE  /\ (\A i \in ids : NoYear(sheet, i)) => \A i \in cited : NoYear(sheet, i)
           /\ (\A i \in ids : NoTrail(sheet, i)) => \A i \in cited : NoTrail(sheet, i)
  <1>1. "market" \notin Labels(sheet) /\ "ttm" \notin Labels(sheet)
    BY SheetsAre DEF LInv, Sheet
  <1>2. ASSUME NEW id \in DOMAIN ledger.facts, NEW i \in ledger.facts[id].inputs
        PROVE  /\ NoYear(sheet, id) => NoYear(sheet, i)
               /\ NoTrail(sheet, id) => NoTrail(sheet, i)
    <2>1. DerivedId(sheet, id) /\ Apart(sheet, id, i)
      BY DEF LInv, LedgerOK, FactOK
    <2>2. NoYear(sheet, id) => id[1] \in TrailingNames(sheet) \cup {"enterprise_value"}
      BY <1>1, <2>1 DEF NoYear, DerivedId
    <2>3. NoTrail(sheet, id) => id[1] \notin TrailingNames(sheet)
      BY <1>1, <2>1 DEF NoTrail, DerivedId
    <2> QED BY <2>1, <2>2, <2>3 DEF Apart
  <1> QED BY <1>2

\* A fact under the name of a trailing multiple leads to no sum over a year, any
\* other to no trailing one.
LEMMA LInvWindows == LInv => WindowsNotMixed
  <1> DEFINE Citing(ids) ==
                 ids \cup UNION {ledger.facts[i].inputs : i \in ids \cap DOMAIN ledger.facts}
             Sums(id) == {i \in Citing(Citing(Citing({id}))) : i[1] \in Flows}
  <1> SUFFICES ASSUME LInv, NEW id \in DOMAIN ledger.facts, NEW i \in Sums(id), NEW j \in Sums(id),
                      i[2] = "ttm", j[2] \in Labels(sheet)
               PROVE  FALSE
    BY DEF WindowsNotMixed
  <1>1. "market" \notin Labels(sheet) /\ "ttm" \notin Labels(sheet) /\ id[2] \in Labels(sheet)
    BY SheetsAre DEF LInv, Sheet, LedgerOK, FactOK, DerivedId
  <1>2. \A ids : /\ (\A x \in ids : NoYear(sheet, x)) => \A x \in Citing(ids) : NoYear(sheet, x)
                 /\ (\A x \in ids : NoTrail(sheet, x)) => \A x \in Citing(ids) : NoTrail(sheet, x)
    BY CitingKeeps
  <1>3. /\ i \in Citing(Citing(Citing({id}))) /\ j \in Citing(Citing(Citing({id})))
        /\ j[1] \in Flows
    OBVIOUS
  <1> HIDE DEF Citing
  <1>4. CASE id[1] \in TrailingNames(sheet)
    <2>1. NoYear(sheet, id)
      BY <1>4 DEF NoYear
    <2>2. \A x \in {id} : NoYear(sheet, x)
      BY <2>1
    <2>3. \A x \in Citing({id}) : NoYear(sheet, x)
      BY <1>2, <2>2
    <2>4. \A x \in Citing(Citing({id})) : NoYear(sheet, x)
      BY <1>2, <2>3
    <2>5. NoYear(sheet, j)
      BY <1>2, <1>3, <2>4
    <2>6. j[1] \in SourceFields
      BY <1>3 DEF Flows, SourceFields
    <2> QED BY <1>1, <1>3, <2>5, <2>6, NamesApart DEF NoYear
  <1>5. CASE id[1] \notin TrailingNames(sheet)
    <2>1. NoTrail(sheet, id)
      BY <1>1, <1>5 DEF NoTrail
    <2>2. \A x \in {id} : NoTrail(sheet, x)
      BY <2>1
    <2>3. \A x \in Citing({id}) : NoTrail(sheet, x)
      BY <1>2, <2>2
    <2>4. \A x \in Citing(Citing({id})) : NoTrail(sheet, x)
      BY <1>2, <2>3
    <2>5. NoTrail(sheet, i)
      BY <1>2, <1>3, <2>4
    <2> QED BY <2>5 DEF NoTrail
  <1> QED BY <1>4, <1>5

\* For every factsheet and every list of methods, no fact rests both on a sum
\* over a trailing year and on the same kind of sum over a fiscal year
\* (calc/metrics/ttm.py derived_ttm: all of its parts, or there is none).
THEOREM WindowsStayApart == Spec => []WindowsNotMixed
  BY LInvAlways, LInvWindows, PTL
=============================================================================
