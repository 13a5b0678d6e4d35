---------------------------- MODULE CompanyFacts ----------------------------
(***************************************************************************)
(* data/normalize: the facts one companyfacts payload yields for a run     *)
(* dated d.  A payload is a set of filings; a filing is                    *)
(*   [accn, form, filed, fy, fp, rows], each row [concept, start, end, val]*)
(* Dates are day numbers, an instant has start = NoDate, and fp is 0 for   *)
(* the full year and 1..3 for a quarter.  Rows are the consolidated ones:  *)
(* the endpoint serves no others (normalize/dimensions.py).  A run without *)
(* as_of reads as of a day no filing is later than.                        *)
(***************************************************************************)
EXTENDS Integers, Sequences, FiniteSets, SequencesExt

CONSTANTS
    Chain,          \* metric -> its candidate concepts, in order
    Anchors,        \* metrics whose rows define the fiscal calendar
    FlowMetrics,    \* metrics with a trailing-twelve-month figure
    Multiplied,     \* per-share metrics a split multiplies
    Divided,        \* per-share metrics a split divides
    SplitConcepts,  \* concepts that carry a split ratio
    Years           \* how many fiscal years are kept

NoDate == 0
NoId == <<>>

AnnualForms == {"10-K", "10-K/A"}
QuarterlyForms == {"10-Q", "10-Q/A"}

\* Total debt has a table of its own and no chain.
ASSUME ChainAssumption ==
    /\ "total_debt" \notin DOMAIN Chain
    /\ Years \in Nat \ {0}
    /\ \A m \in DOMAIN Chain : Chain[m] \in Seq(ToSet(Chain[m]))
    /\ Anchors \cup FlowMetrics \cup Multiplied \cup Divided \subseteq DOMAIN Chain

-----------------------------------------------------------------------------
(* The concept map: a metric is read from the first of its concepts that   *)
(* says anything; total debt is put together from those of a debt table.   *)

ConceptsOf(m) == ToSet(Chain[m])

DebtTotals == <<"DebtLongtermAndShorttermCombinedAmount">>

LongTermBuckets ==
    <<[primary |-> "LongTermDebt", current |-> "", covers |-> TRUE],
      [primary |-> "LongTermDebtAndLeasesIncludingCurrent", current |-> "", covers |-> TRUE],
      [primary |-> "LongTermDebtAndLeases", current |-> "LongTermDebtAndLeasesCurrent",
       covers |-> FALSE],
      [primary |-> "LongTermDebtNoncurrent", current |-> "LongTermDebtCurrent", covers |-> FALSE],
      [primary |-> "NotesPayable", current |-> "", covers |-> TRUE]>>

ShortTermGroups ==
    <<[concepts |-> {"ShortTermBorrowings"}, uncoveredOnly |-> FALSE],
      [concepts |-> {"CommercialPaper", "OtherShortTermBorrowings"}, uncoveredOnly |-> FALSE],
      [concepts |-> {"DebtCurrent"}, uncoveredOnly |-> TRUE]>>

DebtConcepts ==
    ToSet(DebtTotals) \cup
    (UNION {{LongTermBuckets[i].primary, LongTermBuckets[i].current} \ {""} :
               i \in DOMAIN LongTermBuckets}) \cup
    (UNION {ShortTermGroups[i].concepts : i \in DOMAIN ShortTermGroups})

Concepts == DebtConcepts \cup (UNION {ConceptsOf(m) : m \in DOMAIN Chain})

-----------------------------------------------------------------------------
(* Rows.                                                                   *)

Rows(p) ==
    UNION {{[concept |-> r.concept, start |-> r.start, end |-> r.end, val |-> r.val,
             accn |-> f.accn, form |-> f.form, filed |-> f.filed,
             fy |-> f.fy, fp |-> f.fp] : r \in f.rows} : f \in p}

Days(e) == e.end - e.start
IsAnnualDuration(start, end) == end - start \in 340..400

\* Order of filing: by day, then by accession; the row filed last and first.
Later(a, b) == a.filed > b.filed \/ (a.filed = b.filed /\ a.accn > b.accn)
LastFiled(S) == CHOOSE e \in S : \A x \in S : ~Later(x, e)
FirstFiled(S) == CHOOSE e \in S : \A x \in S : ~Later(e, x)

\* mutant: what was filed after the run's date is read
AnnualEntries_Undated(p, c, d) ==
    {e \in Rows(p) : /\ e.concept = c /\ e.form \in AnnualForms /\ e.fp = 0
                     /\ e.start # NoDate => IsAnnualDuration(e.start, e.end)}

AnnualEntries(p, c, d) ==
    {e \in Rows(p) : /\ e.concept = c
                     /\ e.form \in AnnualForms
                     /\ e.fp = 0
                     /\ e.start # NoDate => IsAnnualDuration(e.start, e.end)
                     /\ e.filed <= d}

QuarterEntries(p, c, d) ==
    {e \in Rows(p) : /\ e.concept = c /\ e.form \in QuarterlyForms
                     /\ e.start # NoDate /\ e.filed <= d}

SplitRows(p, d) ==
    {e \in Rows(p) : e.concept \in SplitConcepts /\ e.val >= 2 /\ e.filed <= d}

\* What a run dated d may read: each reader leaves out what was filed later.
Readable(p, d) ==
    [annual |-> [c \in Concepts |-> AnnualEntries(p, c, d)],
     quarterly |-> [c \in Concepts |-> QuarterEntries(p, c, d)],
     splits |-> SplitRows(p, d)]

-----------------------------------------------------------------------------
(* The fiscal calendar the annual rows of the anchor metrics define.  From *)
(* here on v is what a run may read.                                       *)

AnchorRows(v) ==
    {e \in UNION {v.annual[c] : c \in UNION {ConceptsOf(m) : m \in Anchors}} :
        e.start # NoDate}

AnnualEnds(v) == {e.end : e \in AnchorRows(v)}

\* round(days / 365.25): no number of days is half way between two years
ElapsedYears(days) == (4 * days + 730) \div 1461

\* mutant: a period has the year of the filing that last showed it
Label_FilingYear(v, end) == <<LastFiled({e \in AnchorRows(v) : e.end = end}).fy, 0>>

\* The year of the newest period is that of the filing that first showed it;
\* every other label is walked back from it by elapsed years.  (The code
\* keeps a label only when it equals the one walked back.)
Label(v, end) ==
    LET ends == AnnualEnds(v)
        newest == Max(ends)
        own == FirstFiled({e \in AnchorRows(v) : e.end = newest}).fy
    IN  <<own - ElapsedYears(newest - end), 0>>

Calendar(v) ==
    {end \in AnnualEnds(v) : Cardinality({x \in AnnualEnds(v) : x > end}) < Years}

-----------------------------------------------------------------------------
(* One fact per filed version of a metric.                                 *)

\* mutant: a restated version has the id of the current one
FactId_NoVersion(kind, metric, label, ver, part) == <<kind, metric, label, 0, part>>

FactId(kind, metric, label, ver, part) == <<kind, metric, label, ver, part>>

FactFrom(kind, metric, e, label, ver, part) ==
    [id |-> FactId(kind, metric, label, ver, part), kind |-> kind, metric |-> metric,
     label |-> label, part |-> part, val |-> e.val, start |-> e.start, end |-> e.end,
     filed |-> e.filed, accn |-> e.accn, inputs |-> {}, by |-> NoId]

Versions(v, c, end) == {e \in v.annual[c] : e.end = end}

\* The first concept of the chain that has any version for this period.
Winning(v, m, end) ==
    LET hits == {i \in DOMAIN Chain[m] : Versions(v, Chain[m][i], end) # {}}
    IN  IF hits = {} THEN {} ELSE Versions(v, Chain[m][Min(hits)], end)

\* The newest version, and each earlier one that said something else.
VersionedFacts(m, versions, label) ==
    LET current == LastFiled(versions)
    IN  {FactFrom("filed", m, current, label, 0, "")} \cup
        {FactFrom("filed", m, e, label, e.accn, "") :
            e \in {x \in versions : x # current /\ x.val # current.val}}

\* mutant: dated by the first of its inputs
Provenance_First(inputs) ==
    LET first == FirstFiled(inputs) IN [filed |-> first.filed, accn |-> first.accn]

\* A derived fact becomes knowable with its last input (derived.last_filed).
Provenance(inputs) == LET last == LastFiled(inputs) IN [filed |-> last.filed, accn |-> last.accn]

Derived(kind, metric, inputs, val, label, start, end) ==
    [id |-> FactId(kind, metric, label, 0, ""), kind |-> kind, metric |-> metric,
     label |-> label, part |-> "", val |-> val, start |-> start, end |-> end,
     filed |-> Provenance(inputs).filed, accn |-> Provenance(inputs).accn,
     inputs |-> {f.id : f \in inputs}, by |-> NoId]

SumVal(S) == FoldLeft(LAMBDA acc, f : acc + f.val, 0, SetToSeq(S))

-----------------------------------------------------------------------------
(* Total debt: a reported total, or one long-term bucket and what is not   *)
(* already inside it.                                                      *)

\* The concepts summed when those in av carry a value (resolve_total_debt).
DebtParts(av) ==
    LET buckets == {i \in DOMAIN LongTermBuckets : LongTermBuckets[i].primary \in av}
        bucket == LongTermBuckets[Min(buckets)]
        longTerm == IF buckets = {} THEN {}
                    ELSE {bucket.primary} \cup ({bucket.current} \cap av)
        covered == buckets # {} /\ (bucket.covers \/ bucket.current \in av)
        groups == {i \in DOMAIN ShortTermGroups :
                      /\ ShortTermGroups[i].concepts \cap av # {}
                      /\ ShortTermGroups[i].uncoveredOnly => ~covered}
        shortTerm == IF groups = {} THEN {} ELSE ShortTermGroups[Min(groups)].concepts \cap av
    IN  IF ToSet(DebtTotals) \cap av # {} THEN {DebtTotals[1]} ELSE longTerm \cup shortTerm

\* Only the newest version of each line is read.
DebtFacts(v, end, label) ==
    LET av == {c \in DebtConcepts : Versions(v, c, end) # {}}
        newest(c) == LastFiled(Versions(v, c, end))
        parts == DebtParts(av)
        lines == {FactFrom("component", "total_debt", newest(c), label, 0, c) : c \in parts}
    IN  IF parts = {} THEN {}
        ELSE IF Cardinality(parts) = 1
        THEN {FactFrom("filed", "total_debt", newest(c), label, 0, "") : c \in parts}
        ELSE lines \cup {Derived("filed", "total_debt", lines, SumVal(lines), label, NoDate, end)}

-----------------------------------------------------------------------------
(* Supersession: within one quantity the version filed last is current and *)
(* the others point at it.                                                 *)

Identity(f) == <<f.kind, f.metric, f.label, f.part>>
IsCurrent(f) == f.by = NoId

\* Of facts filed together the first in the list wins: the later period.
NewestVersion(S) ==
    CHOOSE f \in S : \A x \in S : ~Later(x, f) /\ (Later(f, x) \/ f.end >= x.end)

Link(S) ==
    {LET newest == NewestVersion({g \in S : Identity(g) = Identity(f)})
     IN  [f EXCEPT !.by = IF f.id = newest.id THEN @ ELSE newest.id] : f \in S}

AnnualFacts(v) ==
    Link(UNION {LET label == Label(v, end)
                IN  (UNION {LET versions == Winning(v, m, end)
                           IN  IF versions = {} THEN {} ELSE VersionedFacts(m, versions, label)
                          : m \in DOMAIN Chain})
                    \cup DebtFacts(v, end, label)
               : end \in Calendar(v)})

-----------------------------------------------------------------------------
(* Splits: one event per ratio and effective day; the same ratio within a  *)
(* year is one split, effective on its last day.                           *)

\* mutant: a split reported for two days counts twice
SplitEvents_NotMerged(v) ==
    {FirstFiled({x \in v.splits : x.end = e.end /\ x.val = e.val}) : e \in v.splits}

SplitEvents(v) ==
    LET tagged == {FirstFiled({x \in v.splits : x.end = e.end /\ x.val = e.val}) :
                      e \in v.splits}
        next(e) == CHOOSE x \in tagged : /\ x.end > e.end
                                         /\ \A y \in tagged : y.end > e.end => x.end <= y.end
        repeated(e) == /\ \E x \in tagged : x.end > e.end
                       /\ next(e).val = e.val
                       /\ next(e).end - e.end <= 365
    IN  {e \in tagged : ~repeated(e)}

\* Its period label is wording: the effective day is part of the id.
RatioFact(e) ==
    [FactFrom("ratio", "stock_split_ratio", e, <<0, 0>>, e.end, "") EXCEPT !.start = NoDate]

Product(S) == FoldLeft(LAMBDA acc, e : acc * e.val, 1, SetToSeq(S))

Adjusted(f, events) ==
    LET ratios == {RatioFact(e) : e \in events}
        value == IF f.metric \in Multiplied THEN f.val * Product(events)
                 ELSE f.val \div Product(events)
    IN  Derived("adjusted", f.metric, {f} \cup ratios, value, f.label, f.start, f.end)

\* A value filed after a split already reflects it.
SplitFacts(v, annual) ==
    LET after(f) == {e \in SplitEvents(v) : e.end > f.filed}
        old == {f \in annual : f.metric \in Multiplied \cup Divided /\ IsCurrent(f)
                               /\ f.kind = "filed" /\ after(f) # {}}
    IN  {Adjusted(f, after(f)) : f \in old} \cup (UNION {{RatioFact(e) : e \in after(f)} : f \in old})

-----------------------------------------------------------------------------
(* Trailing twelve months: year + year to date - prior year to date, both  *)
(* from the newest 10-Q; the year itself when it ends with or after it.    *)

FlowRows(v) ==
    UNION {v.quarterly[c] : c \in UNION {ConceptsOf(m) : m \in FlowMetrics}}

HasQuarter(v) == FlowRows(v) # {}
LatestAccession(v) == LastFiled(FlowRows(v)).accn
QuarterEnd(v) == Max({e.end : e \in {x \in FlowRows(v) : x.accn = LatestAccession(v)}})

\* mutant: the quarter alone instead of the year to date
Longest_Shortest(S) == CHOOSE e \in S : \A x \in S : Days(x) >= Days(e)

Longest(S) == CHOOSE e \in S : \A x \in S : Days(x) <= Days(e)
Distance(a, b) == IF a > b THEN a - b ELSE b - a

Current(v, c) ==
    {e \in v.quarterly[c] : e.accn = LatestAccession(v) /\ e.end = QuarterEnd(v)}

Comparatives(v, c) ==
    LET cur == Longest(Current(v, c))
    IN  {e \in v.quarterly[c] : /\ e.accn = LatestAccession(v)
                                         /\ Distance(cur.end - e.end, 365) <= 25
                                         /\ Distance(Days(e), Days(cur)) <= 20}

\* The first concept of the chain with a year-to-date row and a comparative.
PairConcepts(v, m) ==
    {i \in DOMAIN Chain[m] : /\ Current(v, Chain[m][i]) # {}
                             /\ Comparatives(v, Chain[m][i]) # {}}

YearToDate(m, e, label) == FactFrom("ytd", m, e, label, 0, "")

Trailing(v, m, annual) ==
    LET concept == Chain[m][Min(PairConcepts(v, m))]
        cur == Longest(Current(v, concept))
        prior == Longest(Comparatives(v, concept))
        label == <<cur.fy, cur.fp>>
        ytd == YearToDate(m, cur, label)
        before == YearToDate(m, prior, <<cur.fy - 1, cur.fp>>)
        \* its id takes the label of the input filed last
        sum == Derived("ttm", m, {annual, ytd, before}, annual.val + cur.val - prior.val,
                       IF Later(annual, cur) THEN annual.label ELSE label, prior.end, cur.end)
    IN  IF ~HasQuarter(v) \/ annual.end >= QuarterEnd(v)
        THEN {Derived("ttm", m, {annual}, annual.val, annual.label, annual.start, annual.end)}
        ELSE IF PairConcepts(v, m) = {} THEN {}
        \* dated by the 10-Q, whatever its inputs
        ELSE {ytd, before, [sum EXCEPT !.filed = cur.filed, !.accn = cur.accn, !.label = label]}

TrailingFacts(v, annual) ==
    UNION {LET years == {f \in annual : f.kind = "filed" /\ f.metric = m /\ IsCurrent(f)}
               newest == CHOOSE f \in years : \A x \in years : x.end <= f.end
           IN  IF years = {} THEN {} ELSE Trailing(v, m, newest)
          : m \in FlowMetrics}

\* normalize_companyfacts: everything a run dated d reads.
Facts(v) ==
    LET annual == AnnualFacts(v)
    IN  IF AnnualEnds(v) = {} THEN {}
        ELSE annual \cup SplitFacts(v, annual) \cup TrailingFacts(v, annual)
=============================================================================
