--------------------------- MODULE CompanyHistory ---------------------------
(***************************************************************************)
(* A company files while runs of every date read it (repositories/live.py, *)
(* the tool build_factsheet): a run dated d reads Facts(made, d); a lookup *)
(* by id, and the tool that reports the latest, read as of Latest.         *)
(***************************************************************************)
EXTENDS CompanyPicture

CONSTANTS
    Catalog,    \* the filings the company may make
    RunDates,   \* the dates a run may have
    Quotes,     \* what the market provider may answer
    Sic         \* its industry, of its submissions

\* Days, accessions and fiscal years are numbers, and a catalog is finite: what is filed
\* last, and which period is the latest, is then settled.  No accession is 0, the version
\* of a current fact.
ASSUME CatalogAssumption ==
    /\ RunDates \subseteq Nat /\ IsFiniteSet(Catalog)
    /\ \A f \in Catalog : /\ f.filed \in Nat /\ f.accn \in Nat \ {0} /\ f.fy \in Int
                         /\ IsFiniteSet(f.rows)
                         /\ \A r \in f.rows : r.start \in Nat /\ r.end \in Nat

VARIABLES
    made,       \* the filings made so far
    today,      \* the day of the last one
    seen        \* date -> what a run of that date is given of them

history == <<made, today, seen>>

Latest == 100000            \* no filing is later
Views == RunDates \cup {Latest}

-----------------------------------------------------------------------------
(* What is read.                                                           *)

\* build_factsheet refuses a ticker out of scope first.  The scope the sheet repeats is the
\* view's level.
SheetOf(n, facts, level, quote) ==
    IF level # "unsupported" THEN Sheet(n, facts, quote) ELSE NoSheet

SeenBy(p, d) ==
    LET facts == Facts(Readable(p, d))
        level == ScopeLevel(p, Readable(p, d), Sic)
    IN  [facts |-> facts, level |-> level,
         sheets |-> [q \in Quotes |-> SheetOf(Stated(p, d), facts, level, q)]]

-----------------------------------------------------------------------------

HistoryInit ==
    /\ made = {}
    /\ today = 0
    /\ seen = [d \in Views |-> SeenBy({}, d)]

File(f) ==
    /\ f.filed >= today
    /\ f.accn \notin {g.accn : g \in made}
    /\ made' = made \cup {f}
    /\ today' = f.filed
    /\ seen' = [d \in Views |-> SeenBy(made', d)]

HistoryNext == \E f \in Catalog : File(f)

HistorySpec == HistoryInit /\ [][HistoryNext]_history

-----------------------------------------------------------------------------
(* Properties.                                                             *)

\* The run ends before a sheet is made (SheetOf).
Refused(view) == view.level = "unsupported"

\* A later filing changes no fact a run dated before it reads, nor the periods, snapshot
\* and sources of the sheet built of them, whatever it restates, amends or splits (ADR
\* 0003).  One door is open: a filing that makes the company a foreign issuer, or no longer
\* one, may change the scope, and with it whether a sheet is given at all (scope.py
\* classify reads the forms and taxonomies of all filings, whatever the date).
HistoryStable ==
    [][\A d \in RunDates : d < today' =>
           /\ seen'[d].facts = seen[d].facts
           /\ Refused(seen'[d]) = Refused(seen[d]) => seen'[d].sheets = seen[d].sheets
           /\ ForeignIssuer(made') = ForeignIssuer(made) => seen'[d].level = seen[d].level]_history

\* The filings ids count on: an annual report says one thing of a concept and period, a
\* day has one split, and counted back from a later one no two year ends are equally many
\* years away.
AnnualRows(f) ==
    {r \in f.rows : /\ f.form \in AnnualForms /\ f.fp = 0
                    /\ r.start # NoDate => IsAnnualDuration(r.start, r.end)}
YearEnds ==
    {r.end : r \in {s \in UNION {AnnualRows(f) : f \in Catalog} :
                       s.start # NoDate /\ s.concept \in UNION {ConceptsOf(m) : m \in Anchors}}}
RegularCatalog ==
    /\ \A f \in Catalog : \A r, s \in AnnualRows(f) :
           r.concept = s.concept /\ r.end = s.end => r = s
    /\ LET splits == {r \in UNION {f.rows : f \in Catalog} :
                         r.concept \in SplitConcepts /\ r.val >= 2}
       IN  \A r, s \in splits : r.end = s.end => r.val = s.val
    /\ \A a, b, c \in YearEnds : a # b /\ a <= c /\ b <= c => ElapsedYears(c - a) # ElapsedYears(c - b)

\* Every fact can be cited: its id names it alone.
Citable == \A d \in Views : \A f, g \in seen[d].facts : f.id = g.id => f = g

\* Every fact can be traced within the view it was read in.  What it was derived from is
\* there, and is not dated after it (normalize/derived.py; a trailing figure is dated by
\* its 10-Q alone); what replaced it is there, is the same quantity, was not filed before
\* it and is itself current: no chain of versions has to be followed (restatements.py).
Traceable ==
    \A d \in Views : \A f \in seen[d].facts :
        /\ f.filed <= d
        /\ \A i \in f.inputs : \E g \in seen[d].facts :
               g.id = i /\ (f.kind # "ttm" => g.filed <= f.filed)
        /\ ~IsCurrent(f) => \E g \in seen[d].facts :
               g.id = f.by /\ IsCurrent(g) /\ Identity(g) = Identity(f) /\ g.filed >= f.filed
=============================================================================
