--------------------------- MODULE EvidenceProofs ---------------------------
(***************************************************************************)
(* What a run rests on.  The facts: a filing changes no fact that a run    *)
(* dated before it reads, every fact can be traced among those of its run, *)
(* and if reports are regular its id names it alone.                       *)
(* The quotes and numbers: whatever the models answer, a claim quotes the  *)
(* section it cites, and no number stands without a fact.  The peers: what *)
(* the valuation is offered to compare with is the nearest there is.       *)
(***************************************************************************)
EXTENDS CompanyHistory, AgentEvidence, FiniteSetTheorems, SequenceTheorems, WellFoundedInduction,
        NaturalsInduction, TLAPS

-----------------------------------------------------------------------------
(* The facts.  Every reader of the filed rows leaves out what was filed    *)
(* later, so two sets of filings that hold the same rows up to a day yield *)
(* the same facts on it, and the same sheet if both or neither are refused *)
(* one.  The scope, which decides that, is not dated (scope.py classify).  *)

\* The rows filed by day d, and two sets of filings that agree on them.
Known(p, d) == {e \in Rows(p) : e.filed <= d}
Alike(p, q, d) == Known(p, d) = Known(q, d)

-----------------------------------------------------------------------------
(* Readers.                                                                *)

\* A filing adds only rows of its own day.
LEMMA FiledLater ==
    ASSUME NEW p, NEW f, NEW d, ~(f.filed <= d)
    PROVE  Alike(p \cup {f}, p, d)
  <1>1. \A e \in Rows(p \cup {f}) : e \in Rows(p) \/ e.filed = f.filed
    BY DEF Rows
  <1>2. Rows(p) \subseteq Rows(p \cup {f})
    BY DEF Rows
  <1> QED BY <1>1, <1>2 DEF Alike, Known

\* The readers of annual, quarterly and split rows, and of a stated count
\* (annual_entries, _entries, split_events, _latest_entry).
LEMMA RowsAlike ==
    ASSUME NEW p, NEW q, NEW d, Alike(p, q, d)
    PROVE  /\ \A c : AnnualEntries(p, c, d) = AnnualEntries(q, c, d)
           /\ \A c : QuarterEntries(p, c, d) = QuarterEntries(q, c, d)
           /\ \A c : LatestEntry(p, d, c) = LatestEntry(q, d, c)
           /\ SplitRows(p, d) = SplitRows(q, d)
  <1>1. \A e : (e \in Rows(p) /\ e.filed <= d) <=> (e \in Rows(q) /\ e.filed <= d)
    BY DEF Alike, Known
  <1>2. ASSUME NEW c PROVE AnnualEntries(p, c, d) = AnnualEntries(q, c, d)
    BY <1>1 DEF AnnualEntries
  <1>3. ASSUME NEW c PROVE QuarterEntries(p, c, d) = QuarterEntries(q, c, d)
    BY <1>1 DEF QuarterEntries
  <1>4. ASSUME NEW c PROVE LatestEntry(p, d, c) = LatestEntry(q, d, c)
    <2>1. {e \in Rows(p) : e.concept = c /\ e.val # 0 /\ e.filed <= d}
            = {e \in Rows(q) : e.concept = c /\ e.val # 0 /\ e.filed <= d}
      BY <1>1
    <2> QED BY <2>1 DEF LatestEntry
  <1>5. SplitRows(p, d) = SplitRows(q, d)
    BY <1>1 DEF SplitRows
  <1> QED BY <1>2, <1>3, <1>4, <1>5

\* What a run is given of two payloads that agree up to its date.
LEMMA SeenAlike ==
    ASSUME NEW p, NEW q, NEW d, Alike(p, q, d)
    PROVE  /\ SeenBy(p, d).facts = SeenBy(q, d).facts
           /\ Refused(SeenBy(p, d)) = Refused(SeenBy(q, d))
                => SeenBy(p, d).sheets = SeenBy(q, d).sheets
           /\ ForeignIssuer(p) = ForeignIssuer(q) => SeenBy(p, d).level = SeenBy(q, d).level
  <1>0. Readable(p, d) = Readable(q, d)
    BY RowsAlike DEF Readable
  <1>1. Facts(Readable(p, d)) = Facts(Readable(q, d))
    BY <1>0
  <1>2. Stated(p, d) = Stated(q, d)
    BY RowsAlike DEF Stated
  <1>3. SeenBy(p, d).facts = SeenBy(q, d).facts
    BY <1>1 DEF SeenBy
  <1>4. ASSUME Refused(SeenBy(p, d)) = Refused(SeenBy(q, d))
        PROVE  SeenBy(p, d).sheets = SeenBy(q, d).sheets
    BY <1>1, <1>2, <1>4 DEF SeenBy, SheetOf, Refused
  <1>5. ASSUME ForeignIssuer(p) = ForeignIssuer(q)
        PROVE  SeenBy(p, d).level = SeenBy(q, d).level
    <2>1. ScopeLevel(p, Readable(p, d), Sic) = ScopeLevel(q, Readable(q, d), Sic)
      BY <1>0, <1>5, Zenon DEF ScopeLevel
    <2> QED BY <2>1 DEF SeenBy
  <1> QED BY <1>3, <1>4, <1>5

-----------------------------------------------------------------------------
(* Runs of every date read the filings made so far.                        *)

\* What a view holds is read of the filings made so far.
ViewsAreCurrent ==
    /\ made \subseteq Catalog
    /\ seen = [d \in Views |-> SeenBy(made, d)]

\* Before the first filing.
LEMMA ViewsStart == HistoryInit => ViewsAreCurrent
  BY DEF HistoryInit, ViewsAreCurrent

\* A filing refreshes every view.
LEMMA ViewsStep == ViewsAreCurrent /\ [HistoryNext]_history => ViewsAreCurrent'
  <1> SUFFICES ASSUME ViewsAreCurrent, [HistoryNext]_history PROVE ViewsAreCurrent'
    OBVIOUS
  <1>1. ASSUME NEW f \in Catalog, File(f) PROVE ViewsAreCurrent'
    BY <1>1 DEF File, ViewsAreCurrent
  <1>2. CASE UNCHANGED history
    BY <1>2 DEF history, ViewsAreCurrent
  <1> QED BY <1>1, <1>2 DEF HistoryNext

\* No filing changes the view of a date before its own.
LEMMA StepIsStable ==
    ASSUME ViewsAreCurrent, HistoryNext
    PROVE  \A d \in RunDates : d < today' =>
               /\ seen'[d].facts = seen[d].facts
               /\ Refused(seen'[d]) = Refused(seen[d]) => seen'[d].sheets = seen[d].sheets
               /\ ForeignIssuer(made') = ForeignIssuer(made) => seen'[d].level = seen[d].level
  <1> SUFFICES ASSUME NEW d \in RunDates, d < today'
               PROVE  /\ seen'[d].facts = seen[d].facts
                      /\ Refused(seen'[d]) = Refused(seen[d]) => seen'[d].sheets = seen[d].sheets
                      /\ ForeignIssuer(made') = ForeignIssuer(made)
                            => seen'[d].level = seen[d].level
    OBVIOUS
  <1>1. PICK f \in Catalog : File(f)
    BY DEF HistoryNext
  <1>2. ~(f.filed <= d)
    BY <1>1, CatalogAssumption DEF File
  <1>3. LET now == SeenBy(made \cup {f}, d)
            old == SeenBy(made, d)
        IN  /\ now.facts = old.facts
            /\ Refused(now) = Refused(old) => now.sheets = old.sheets
            /\ ForeignIssuer(made \cup {f}) = ForeignIssuer(made) => now.level = old.level
    BY <1>2, FiledLater, SeenAlike
  <1>4. d \in Views
    BY DEF Views
  <1>5. seen[d] = SeenBy(made, d) /\ seen'[d] = SeenBy(made', d)
    BY <1>1, <1>4 DEF File, ViewsAreCurrent
  <1> QED BY <1>1, <1>3, <1>5 DEF File

\* A run dated d is given the same facts whatever the company files after d, and the same
\* sheet unless the scope, which is not dated, comes to refuse or to admit the company
\* (ADR 0003).  Were days no numbers, a filing later than d could still count as made by d.
THEOREM ThePastIsStable == HistorySpec => HistoryStable
  <1>1. ViewsAreCurrent /\ [HistoryNext]_history
          => [\A d \in RunDates : d < today' =>
                  /\ seen'[d].facts = seen[d].facts
                  /\ Refused(seen'[d]) = Refused(seen[d])
                        => seen'[d].sheets = seen[d].sheets
                  /\ ForeignIssuer(made') = ForeignIssuer(made)
                        => seen'[d].level = seen[d].level]_history
    BY StepIsStable
  <1> QED BY <1>1, ViewsStart, ViewsStep, PTL DEF HistorySpec, HistoryStable

-----------------------------------------------------------------------------
(* Where a fact comes from.  A fact carries the dates of rows its reader   *)
(* may read; of finitely many dates there is a last, a first and a latest  *)
(* period, so every choice the code makes is a choice of what is there.    *)

\* Dates of filings made by day d, none of them above n
Dated(x, d, n) == x.filed \in 0 .. n /\ x.filed <= d /\ x.accn \in 0 .. n /\ x.end \in 0 .. n

\* What is read has such dates.
Read(v, d, n) ==
    /\ \A c \in Concepts : \A e \in v.annual[c] \cup v.quarterly[c] :
           Dated(e, d, n) /\ e.start \in 0 .. n
    /\ \A e \in v.splits : Dated(e, d, n)

FactFields == {"id", "kind", "metric", "label", "part", "val", "start", "end",
               "filed", "accn", "inputs", "by"}
IsFact(f, d, n) == Dated(f, d, n) /\ f = [x \in FactFields |-> f[x]]

Ids(F) == {g.id : g \in F}

\* The inputs of f are among F, and only a trailing figure may be dated before one.
Founded(f, F) ==
    \A i \in f.inputs : \E g \in F : g.id = i /\ (f.kind # "ttm" => g.filed <= f.filed)

\* Facts as they are made: nothing has replaced them yet.
Made(F, d, n) == \A f \in F : IsFact(f, d, n) /\ IsCurrent(f) /\ Founded(f, F)

\* A set of numbers has a least one: what stands for induction here.
LEMMA LeastOf ==
    ASSUME NEW S \in SUBSET Nat, S # {}
    PROVE  \E n \in S : \A y \in S : n <= y
  <1>1. IsWellFoundedOn(OpToRel(<, Nat), Nat)
    BY Zenon, NatLessThanWellFounded DEF OpToRel
  <1>2. PICK n \in S : \A y \in S : ~(<<y, n>> \in OpToRel(<, Nat))
    BY <1>1, WFMin
  <1>3. \A y \in S : ~(y < n)
    BY <1>2 DEF OpToRel
  <1> QED BY <1>3

\* Of things measured up to n some measure most and some least.
LEMMA ExtremesBy ==
    ASSUME NEW S, S # {}, NEW n \in Nat, NEW f \in [S -> 0 .. n]
    PROVE  /\ \E x \in S : \A y \in S : f[y] <= f[x]
           /\ \E x \in S : \A y \in S : f[x] <= f[y]
  <1>1. \A x \in S : f[x] \in 0 .. n
    OBVIOUS
  <1>2. \E x \in S : \A y \in S : f[x] <= f[y]
    <2> DEFINE T == {f[x] : x \in S}
    <2>1. T \in SUBSET Nat /\ T # {}
      BY <1>1
    <2>2. PICK t \in T : \A u \in T : t <= u
      BY <2>1, LeastOf
    <2> QED BY <2>2
  <1>3. \E x \in S : \A y \in S : f[y] <= f[x]
    <2> DEFINE T == {n - f[x] : x \in S}
    <2>1. T \in SUBSET Nat /\ T # {}
      BY <1>1
    <2>2. PICK t \in T : \A u \in T : t <= u
      BY <2>1, LeastOf
    <2>3. PICK x \in S : t = n - f[x]
      OBVIOUS
    <2>4. ASSUME NEW y \in S PROVE f[y] <= f[x]
      <3>1. t <= n - f[y]
        BY <2>2
      <3> QED BY <3>1, <2>3, <1>1
    <2> QED BY <2>4
  <1> QED BY <1>2, <1>3

\* The one filed last, of the latest period if several are: NewestVersion is it.
LEMMA NewestIs ==
    ASSUME NEW S, S # {}, NEW d, NEW n \in Nat, \A x \in S : Dated(x, d, n)
    PROVE  \E e \in S : \A x \in S : ~Later(x, e) /\ (Later(e, x) \/ e.end >= x.end)
  <1>1. \A x \in S : x.filed \in Nat /\ x.accn \in Nat /\ x.end \in Nat
    BY DEF Dated
  <1> DEFINE f == [x \in S |-> x.filed]
  <1>2. f \in [S -> 0 .. n]
    BY DEF Dated
  <1>3. PICK a \in S : \A x \in S : x.filed <= a.filed
    <2>1. \A x \in S : f[x] = x.filed
      OBVIOUS
    <2> HIDE DEF f
    <2>2. \E x \in S : \A y \in S : f[y] <= f[x]
      BY <1>2, ExtremesBy
    <2> QED BY <2>1, <2>2
  <1> DEFINE T == {x \in S : x.filed = a.filed}
             g == [x \in T |-> x.accn]
  <1>4. g \in [T -> 0 .. n] /\ T # {}
    BY DEF Dated
  <1>5. PICK b \in T : \A x \in T : x.accn <= b.accn
    <2>1. \A x \in T : g[x] = x.accn
      OBVIOUS
    <2> HIDE DEF g, T
    <2>2. \E x \in T : \A y \in T : g[y] <= g[x]
      BY <1>4, ExtremesBy
    <2> QED BY <2>1, <2>2
  <1> DEFINE U == {x \in T : x.accn = b.accn}
             h == [x \in U |-> x.end]
  <1>6. h \in [U -> 0 .. n] /\ U # {}
    BY DEF Dated
  <1>7. PICK e \in U : \A x \in U : x.end <= e.end
    <2>1. \A x \in U : h[x] = x.end
      OBVIOUS
    <2> HIDE DEF h, U
    <2>2. \E x \in U : \A y \in U : h[y] <= h[x]
      BY <1>6, ExtremesBy
    <2> QED BY <2>1, <2>2
  <1>8. ASSUME NEW x \in S PROVE ~Later(x, e) /\ (Later(e, x) \/ e.end >= x.end)
    <2>1. x.filed <= e.filed /\ (x.filed = e.filed => x \in T)
      BY <1>3
    <2>2. x \in T => x.accn <= e.accn /\ (x.accn = e.accn => x \in U)
      BY <1>5
    <2>3. x \in U => x.end <= e.end
      BY <1>7
    <2>4. e \in S
      OBVIOUS
    <2> HIDE DEF T, U
    <2> QED BY <2>1, <2>2, <2>3, <2>4, <1>1 DEF Later
  <1> QED BY <1>8

\* LastFiled and FirstFiled choose one of the set; nothing in it is filed after the last.
LEMMA FiledIs ==
    ASSUME NEW S, S # {}, NEW d, NEW n \in Nat, \A x \in S : Dated(x, d, n)
    PROVE  /\ LastFiled(S) \in S /\ \A x \in S : x.filed <= LastFiled(S).filed
           /\ FirstFiled(S) \in S
  <1>1. \A x \in S : x.filed \in Nat /\ x.accn \in Nat
    BY DEF Dated
  <1>2. LastFiled(S) \in S /\ \A x \in S : ~Later(x, LastFiled(S))
    <2>1. \E e \in S : \A x \in S : ~Later(x, e)
      BY NewestIs
    <2> QED BY <2>1 DEF LastFiled
  <1>3. \A x \in S : x.filed <= LastFiled(S).filed
    BY <1>1, <1>2 DEF Later
  <1> DEFINE f == [x \in S |-> x.filed]
  <1>4. f \in [S -> 0 .. n]
    BY DEF Dated
  <1>5. PICK a \in S : \A x \in S : a.filed <= x.filed
    <2>1. \A x \in S : f[x] = x.filed
      OBVIOUS
    <2> HIDE DEF f
    <2>2. \E x \in S : \A y \in S : f[x] <= f[y]
      BY <1>4, ExtremesBy
    <2> QED BY <2>1, <2>2
  <1> DEFINE T == {x \in S : x.filed = a.filed}
             g == [x \in T |-> x.accn]
  <1>6. g \in [T -> 0 .. n] /\ T # {}
    BY DEF Dated
  <1>7. PICK b \in T : \A x \in T : b.accn <= x.accn
    <2>1. \A x \in T : g[x] = x.accn
      OBVIOUS
    <2> HIDE DEF g, T
    <2>2. \E x \in T : \A y \in T : g[x] <= g[y]
      BY <1>6, ExtremesBy
    <2> QED BY <2>1, <2>2
  <1>8. \E e \in S : \A x \in S : ~Later(e, x)
    <2>1. ASSUME NEW x \in S PROVE ~Later(b, x)
      <3>1. a.filed <= x.filed /\ b.filed = a.filed /\ (x.filed = a.filed => b.accn <= x.accn)
        BY <1>5, <1>7
      <3> QED BY <3>1, <1>1 DEF Later
    <2> QED BY <2>1
  <1>9. FirstFiled(S) \in S
    BY <1>8 DEF FirstFiled
  <1> QED BY <1>2, <1>3, <1>9

\* A fact of a row: its dates are the row's, and it is derived from nothing.
LEMMA FactFromIs ==
    ASSUME NEW e, NEW d, NEW n, Dated(e, d, n), NEW kind, NEW m, NEW label, NEW ver, NEW part,
           NEW f, f = FactFrom(kind, m, e, label, ver, part)
    PROVE  IsFact(f, d, n) /\ IsCurrent(f) /\ f.inputs = {} /\ f.filed = e.filed
  BY DEF FactFrom, IsFact, FactFields, Dated, IsCurrent

AllDated(ins, d, n) == ins # {} /\ \A g \in ins : Dated(g, d, n)

\* f is derived from ins, and dated no earlier than any of them.
DerivedFrom(f, kind, ins, d, n) ==
    /\ IsFact(f, d, n) /\ IsCurrent(f) /\ f.kind = kind
    /\ f.inputs = Ids(ins) /\ \A g \in ins : g.filed <= f.filed

\* A derived fact is dated by the last of its inputs.
LEMMA DerivedIs ==
    ASSUME NEW ins, NEW d, NEW n \in Nat, AllDated(ins, d, n),
           NEW kind, NEW m, NEW val, NEW label, NEW start, NEW end \in 0 .. n,
           NEW f, f = Derived(kind, m, ins, val, label, start, end)
    PROVE  DerivedFrom(f, kind, ins, d, n)
  <1>1. LastFiled(ins) \in ins /\ \A g \in ins : g.filed <= LastFiled(ins).filed
    BY FiledIs DEF AllDated
  <1>2. Dated(LastFiled(ins), d, n)
    BY <1>1 DEF AllDated
  <1>3. f.filed = LastFiled(ins).filed /\ f.accn = LastFiled(ins).accn
    BY DEF Derived, Provenance
  <1>4. f.end = end /\ IsCurrent(f) /\ f.kind = kind /\ f.inputs = Ids(ins)
    BY DEF Derived, IsCurrent, Ids
  <1>5. f = [x \in FactFields |-> f[x]]
    BY DEF Derived, FactFields
  <1>6. IsFact(f, d, n)
    BY <1>2, <1>3, <1>4, <1>5 DEF IsFact, Dated
  <1> QED BY <1>1, <1>3, <1>4, <1>6 DEF DerivedFrom

\* Facts of several parts are made as their parts are.
LEMMA MadeTogether ==
    ASSUME NEW W, NEW d, NEW n, \A F \in W : Made(F, d, n)
    PROVE  Made(UNION W, d, n)
  <1> SUFFICES ASSUME NEW F \in W, NEW f \in F
               PROVE  IsFact(f, d, n) /\ IsCurrent(f) /\ Founded(f, UNION W)
    BY DEF Made
  <1>1. IsFact(f, d, n) /\ IsCurrent(f) /\ Founded(f, F)
    BY DEF Made
  <1>2. F \subseteq UNION W
    OBVIOUS
  <1> QED BY <1>1, <1>2 DEF Founded

\* The versions of a metric
LEMMA VersionedMade ==
    ASSUME NEW S, S # {}, NEW d, NEW n \in Nat, \A e \in S : Dated(e, d, n), NEW m, NEW label
    PROVE  Made(VersionedFacts(m, S, label), d, n)
  <1> SUFFICES ASSUME NEW f \in VersionedFacts(m, S, label)
               PROVE  IsFact(f, d, n) /\ IsCurrent(f) /\ f.inputs = {}
    BY DEF Made, Founded
  <1>1. LastFiled(S) \in S
    BY FiledIs
  <1>2. PICK e \in S, ver \in {0} \cup {x.accn : x \in S} :
            f = FactFrom("filed", m, e, label, ver, "")
    BY <1>1 DEF VersionedFacts
  <1>3. Dated(e, d, n)
    OBVIOUS
  <1> QED BY <1>2, <1>3, FactFromIs

\* The least of the places of a sequence
LEMMA PlaceIs ==
    ASSUME NEW S, NEW s \in Seq(S), NEW I \in SUBSET (DOMAIN s), I # {}
    PROVE  Min(I) \in I
  <1>1. I \in SUBSET Nat
    OBVIOUS
  <1>2. \E i \in I : \A j \in I : i <= j
    BY <1>1, LeastOf
  <1> QED BY <1>2 DEF Min

\* The concepts of a metric are read.
LEMMA ChainConcepts ==
    ASSUME NEW m \in DOMAIN Chain, NEW I \in SUBSET (DOMAIN Chain[m]), I # {}
    PROVE  Min(I) \in I /\ Chain[m][Min(I)] \in Concepts
  <1>1. Min(I) \in I
    BY ChainAssumption, PlaceIs
  <1>2. Chain[m][Min(I)] \in ConceptsOf(m)
    BY <1>1 DEF ConceptsOf, ToSet
  <1> QED BY <1>1, <1>2 DEF Concepts

\* The versions of a period are rows of the year that ends with it.
LEMMA VersionsRead ==
    ASSUME NEW v, NEW d, NEW n, Read(v, d, n), NEW end
    PROVE  /\ \A c \in Concepts : \A e \in Versions(v, c, end) : Dated(e, d, n)
           /\ \A m \in DOMAIN Chain : \A e \in Winning(v, m, end) : Dated(e, d, n)
  <1>1. \A c \in Concepts : \A e \in Versions(v, c, end) : Dated(e, d, n)
    BY DEF Versions, Read
  <1>2. ASSUME NEW m \in DOMAIN Chain, NEW e \in Winning(v, m, end) PROVE Dated(e, d, n)
    <2> DEFINE hits == {i \in DOMAIN Chain[m] : Versions(v, Chain[m][i], end) # {}}
    <2>1. hits # {} /\ e \in Versions(v, Chain[m][Min(hits)], end)
      BY <1>2 DEF Winning
    <2>2. Chain[m][Min(hits)] \in Concepts
      BY <2>1, ChainConcepts
    <2> QED BY <1>1, <2>1, <2>2
  <1> QED BY <1>1, <1>2

\* What is summed to the debt has been found.
LEMMA PartsFound ==
    ASSUME NEW av
    PROVE  DebtParts(av) \subseteq av
  <1> DEFINE buckets == {i \in DOMAIN LongTermBuckets : LongTermBuckets[i].primary \in av}
             bucket == LongTermBuckets[Min(buckets)]
             longTerm == IF buckets = {} THEN {}
                         ELSE {bucket.primary} \cup ({bucket.current} \cap av)
  <1>1. longTerm \subseteq av
    <2>1. DOMAIN LongTermBuckets \subseteq Nat
      BY DEF LongTermBuckets
    <2>2. buckets # {} => Min(buckets) \in buckets
      <3>1. buckets \in SUBSET Nat
        BY <2>1
      <3> HIDE DEF buckets
      <3> QED BY <3>1, LeastOf DEF Min
    <2>3. buckets # {} => bucket.primary \in av
      BY <2>2
    <2> HIDE DEF buckets
    <2>4. buckets # {} => longTerm = {bucket.primary} \cup ({bucket.current} \cap av)
      OBVIOUS
    <2>5. buckets = {} => longTerm = {}
      OBVIOUS
    <2> HIDE DEF longTerm
    <2> QED BY <2>3, <2>4, <2>5
  <1>2. ToSet(DebtTotals) \cap av # {} => {DebtTotals[1]} \subseteq av
    BY DEF DebtTotals, ToSet
  <1> DEFINE shortTerms(covered) ==
                 LET groups == {i \in DOMAIN ShortTermGroups :
                                   /\ ShortTermGroups[i].concepts \cap av # {}
                                   /\ ShortTermGroups[i].uncoveredOnly => ~covered}
                 IN  IF groups = {} THEN {} ELSE ShortTermGroups[Min(groups)].concepts \cap av
  <1>3. \A covered : shortTerms(covered) \subseteq av
    OBVIOUS
  <1>4. DebtParts(av) = IF ToSet(DebtTotals) \cap av # {} THEN {DebtTotals[1]}
                        ELSE longTerm \cup shortTerms(buckets # {} /\ (bucket.covers \/ bucket.current \in av))
    BY Zenon DEF DebtParts
  <1> HIDE DEF longTerm, shortTerms, buckets
  <1> QED BY <1>1, <1>2, <1>3, <1>4

\* The lines of the debt, and their sum
LEMMA DebtMade ==
    ASSUME NEW v, NEW d, NEW n \in Nat, Read(v, d, n), NEW end \in 0 .. n, NEW label
    PROVE  Made(DebtFacts(v, end, label), d, n)
  <1> DEFINE av == {c \in DebtConcepts : Versions(v, c, end) # {}}
             newest(c) == LastFiled(Versions(v, c, end))
             parts == DebtParts(av)
             lines == {FactFrom("component", "total_debt", newest(c), label, 0, c) : c \in parts}
             one == {FactFrom("filed", "total_debt", newest(c), label, 0, "") : c \in parts}
             sum == Derived("filed", "total_debt", lines, SumVal(lines), label, NoDate, end)
  <1>1. ASSUME NEW c \in parts PROVE Dated(newest(c), d, n)
    <2>1. c \in Concepts /\ Versions(v, c, end) # {}
      BY PartsFound DEF Concepts
    <2>2. \A e \in Versions(v, c, end) : Dated(e, d, n)
      BY <2>1, VersionsRead
    <2>3. newest(c) \in Versions(v, c, end)
      BY <2>1, <2>2, FiledIs
    <2> QED BY <2>2, <2>3
  <1>2. DebtFacts(v, end, label) = IF parts = {} THEN {}
                                   ELSE IF Cardinality(parts) = 1 THEN one ELSE lines \cup {sum}
    BY Zenon DEF DebtFacts
  <1> HIDE DEF newest, parts
  <1>3. ASSUME NEW f \in one \cup lines PROVE IsFact(f, d, n) /\ IsCurrent(f) /\ f.inputs = {}
    <2>1. CASE f \in one
      <3>1. PICK c \in parts : f = FactFrom("filed", "total_debt", newest(c), label, 0, "")
        BY <2>1
      <3>2. Dated(newest(c), d, n)
        BY <1>1
      <3> QED BY <3>1, <3>2, FactFromIs
    <2>2. CASE f \in lines
      <3>1. PICK c \in parts : f = FactFrom("component", "total_debt", newest(c), label, 0, c)
        BY <2>2
      <3>2. Dated(newest(c), d, n)
        BY <1>1
      <3> QED BY <3>1, <3>2, FactFromIs
    <2> QED BY <1>3, <2>1, <2>2
  <1>4. parts # {} => lines # {}
    OBVIOUS
  <1> HIDE DEF one, lines
  <1>5. ASSUME parts # {}
        PROVE  /\ IsFact(sum, d, n) /\ IsCurrent(sum) /\ sum.inputs = Ids(lines)
               /\ \A g \in lines : g.filed <= sum.filed
    <2>1. AllDated(lines, d, n)
      BY <1>3, <1>4, <1>5 DEF IsFact, AllDated
    <2>2. PICK val, at, from, to :
              to \in 0 .. n /\ sum = Derived("filed", "total_debt", lines, val, at, from, to)
      BY Zenon
    <2> HIDE DEF sum
    <2>3. DerivedFrom(sum, "filed", lines, d, n)
      BY <2>1, <2>2, DerivedIs
    <2> QED BY <2>3 DEF DerivedFrom
  <1> HIDE DEF sum
  <1>6. ASSUME parts # {} PROVE Made(lines \cup {sum}, d, n)
    <2>1. Founded(sum, lines \cup {sum})
      BY <1>5, <1>6 DEF Founded, Ids
    <2>2. ASSUME NEW f \in lines
          PROVE  IsFact(f, d, n) /\ IsCurrent(f) /\ Founded(f, lines \cup {sum})
      BY <1>3 DEF Founded
    <2> QED BY <1>5, <1>6, <2>1, <2>2 DEF Made
  <1>7. Made(one, d, n) /\ Made({}, d, n)
    BY <1>3 DEF Made, Founded
  <1> QED BY <1>2, <1>6, <1>7

\* Linking versions changes none of their fields but the pointer, points it at the newest
\* version of the quantity, and leaves that one current.
Linked(F, d, n) ==
    \A f \in F :
        /\ IsFact(f, d, n) /\ Founded(f, F)
        /\ ~IsCurrent(f) => \E g \in F : /\ g.id = f.by /\ IsCurrent(g)
                                         /\ Identity(g) = Identity(f) /\ g.filed >= f.filed

\* The newest version of what f is a version of, and f with its pointer to it
NewestOf(S, f) == NewestVersion({g \in S : Identity(g) = Identity(f)})
Pointed(S, f) == [f EXCEPT !.by = IF f.id = NewestOf(S, f).id THEN @ ELSE NewestOf(S, f).id]

\* It is a version of the same quantity, and the same for all of them.
LEMMA NewestOfIs ==
    ASSUME NEW S, NEW d, NEW n \in Nat, Made(S, d, n)
    PROVE  /\ \A f \in S : /\ NewestOf(S, f) \in S /\ Identity(NewestOf(S, f)) = Identity(f)
                          /\ NewestOf(S, f).filed >= f.filed
           /\ \A f, g \in S : Identity(f) = Identity(g) => NewestOf(S, f) = NewestOf(S, g)
  <1> DEFINE Same(f) == {g \in S : Identity(g) = Identity(f)}
  <1>1. \A f : NewestOf(S, f) = NewestVersion(Same(f))
    BY DEF NewestOf
  <1>2. ASSUME NEW f \in S
        PROVE  /\ NewestOf(S, f) \in S /\ Identity(NewestOf(S, f)) = Identity(f)
               /\ NewestOf(S, f).filed >= f.filed
    <2>1. f \in Same(f) /\ \A x \in Same(f) : Dated(x, d, n)
      BY DEF Made, IsFact
    <2>2. \E e \in Same(f) : \A x \in Same(f) : ~Later(x, e) /\ (Later(e, x) \/ e.end >= x.end)
      <3> HIDE DEF Same
      <3> QED BY <2>1, NewestIs, Zenon
    <2>3. NewestOf(S, f) \in Same(f) /\ \A x \in Same(f) : ~Later(x, NewestOf(S, f))
      <3> HIDE DEF Same
      <3> QED BY <1>1, <2>2 DEF NewestVersion
    <2>4. ~Later(f, NewestOf(S, f)) /\ f.filed \in Nat /\ NewestOf(S, f).filed \in Nat
      BY <2>1, <2>3 DEF Dated
    <2> QED BY <2>3, <2>4 DEF Later
  <1>3. ASSUME NEW f, NEW g, Identity(f) = Identity(g) PROVE NewestOf(S, f) = NewestOf(S, g)
    <2>1. Same(f) = Same(g)
      BY <1>3
    <2> HIDE DEF Same
    <2> QED BY <1>1, <2>1
  <1> QED BY <1>2, <1>3

\* Nothing but the pointer of a fact changes.
LEMMA PointedIs ==
    ASSUME NEW S, NEW d, NEW n \in Nat, Made(S, d, n), NEW f \in S, NEW g, g = Pointed(S, f)
    PROVE  /\ IsFact(g, d, n) /\ Identity(g) = Identity(f) /\ g.filed = f.filed
           /\ g.id = f.id /\ g.inputs = f.inputs /\ g.kind = f.kind /\ g.metric = f.metric
           /\ g.label = f.label /\ g.part = f.part
           /\ g.by = IF f.id = NewestOf(S, f).id THEN NoId ELSE NewestOf(S, f).id
  <1>1. IsFact(f, d, n) /\ f.by = NoId
    BY DEF Made, IsCurrent
  <1>2. DOMAIN f = FactFields
    BY <1>1 DEF IsFact
  <1>3. /\ DOMAIN g = FactFields
        /\ \A x \in FactFields \ {"by"} : g[x] = f[x]
        /\ g.by = IF f.id = NewestOf(S, f).id THEN NoId ELSE NewestOf(S, f).id
        /\ g = [x \in FactFields |-> g[x]]
    BY <1>1, <1>2 DEF FactFields, Pointed
  <1>4. /\ g.id = f.id /\ g.inputs = f.inputs /\ g.kind = f.kind
        /\ g.filed = f.filed /\ g.accn = f.accn /\ g.end = f.end
        /\ g.metric = f.metric /\ g.label = f.label /\ g.part = f.part
    BY <1>3 DEF FactFields
  <1> QED BY <1>1, <1>3, <1>4 DEF IsFact, Dated, Identity

\* So linked versions point at one that is current.
LEMMA LinkLinks ==
    ASSUME NEW S, NEW d, NEW n \in Nat, Made(S, d, n)
    PROVE  Linked(Link(S), d, n)
  <1> DEFINE newest(f) == NewestOf(S, f)
             link(f) == Pointed(S, f)
  <1>1. Link(S) = {link(f) : f \in S}
    BY Zenon DEF Link, Pointed, NewestOf
  <1>2. ASSUME NEW f \in S PROVE newest(f) \in S /\ Identity(newest(f)) = Identity(f)
                                 /\ newest(f).filed >= f.filed
    BY NewestOfIs
  <1>3. \A f, g \in S : Identity(f) = Identity(g) => newest(f) = newest(g)
    BY NewestOfIs
  <1>4. ASSUME NEW f \in S
        PROVE  /\ IsFact(link(f), d, n) /\ link(f).id = f.id /\ link(f).inputs = f.inputs
               /\ link(f).kind = f.kind /\ link(f).filed = f.filed
               /\ Identity(link(f)) = Identity(f)
               /\ link(f).by = IF f.id = newest(f).id THEN NoId ELSE newest(f).id
    BY PointedIs
  <1> HIDE DEF link, newest
  <1> SUFFICES ASSUME NEW f \in S
               PROVE  /\ IsFact(link(f), d, n) /\ Founded(link(f), Link(S))
                      /\ ~IsCurrent(link(f)) =>
                            \E g \in Link(S) : /\ g.id = link(f).by /\ IsCurrent(g)
                                               /\ Identity(g) = Identity(link(f))
                                               /\ g.filed >= link(f).filed
    BY <1>1 DEF Linked
  <1>5. Founded(link(f), Link(S))
    <2> SUFFICES ASSUME NEW i \in f.inputs
                 PROVE  \E g \in Link(S) : g.id = i /\ (f.kind # "ttm" => g.filed <= f.filed)
      BY <1>4 DEF Founded
    <2>1. PICK g \in S : g.id = i /\ (f.kind # "ttm" => g.filed <= f.filed)
      BY DEF Made, Founded
    <2> QED BY <1>1, <1>4, <2>1
  <1>6. ASSUME ~IsCurrent(link(f))
        PROVE  \E g \in Link(S) : /\ g.id = link(f).by /\ IsCurrent(g)
                                  /\ Identity(g) = Identity(link(f)) /\ g.filed >= link(f).filed
    <2>1. link(f).by = newest(f).id
      BY <1>4, <1>6 DEF IsCurrent
    <2>2. newest(newest(f)) = newest(f)
      BY <1>2, <1>3
    <2>3. newest(f) \in S /\ link(newest(f)) \in Link(S)
      BY <1>1, <1>2
    <2>4. link(newest(f)).by = NoId /\ link(newest(f)).id = newest(f).id
          /\ Identity(link(newest(f))) = Identity(newest(f))
          /\ link(newest(f)).filed = newest(f).filed
      BY <1>4, <2>2, <2>3
    <2> QED BY <1>2, <1>4, <2>1, <2>3, <2>4 DEF IsCurrent
  <1> QED BY <1>4, <1>5, <1>6

\* Every period of the calendar ends when some row does.
LEMMA EndsRead ==
    ASSUME NEW v, NEW d, NEW n, Read(v, d, n)
    PROVE  \A end \in Calendar(v) : end \in 0 .. n
  <1>1. ASSUME NEW e \in AnchorRows(v) PROVE e.end \in 0 .. n
    <2>1. PICK m \in Anchors : \E c \in ConceptsOf(m) : e \in v.annual[c]
      BY DEF AnchorRows
    <2>2. m \in DOMAIN Chain
      BY ChainAssumption
    <2>3. \E c \in Concepts : e \in v.annual[c]
      BY <2>1, <2>2 DEF Concepts
    <2> QED BY <2>3 DEF Read, Dated
  <1> QED BY <1>1 DEF Calendar, AnnualEnds

\* The annual facts before their versions are linked
YearOf(v, m, end) ==
    IF Winning(v, m, end) = {} THEN {} ELSE VersionedFacts(m, Winning(v, m, end), Label(v, end))
AllYears(v) ==
    UNION {(UNION {YearOf(v, m, end) : m \in DOMAIN Chain}) \cup DebtFacts(v, end, Label(v, end))
              : end \in Calendar(v)}

\* They are made of rows that were read.
LEMMA AllYearsMade ==
    ASSUME NEW v, NEW d, NEW n \in Nat, Read(v, d, n)
    PROVE  Made(AllYears(v), d, n)
  <1> DEFINE Of(m, end) == YearOf(v, m, end)
             Year(end) == (UNION {Of(m, end) : m \in DOMAIN Chain})
                          \cup DebtFacts(v, end, Label(v, end))
  <1>2. ASSUME NEW end \in Calendar(v), NEW m \in DOMAIN Chain PROVE Made(Of(m, end), d, n)
    <2>1. \A e \in Winning(v, m, end) : Dated(e, d, n)
      BY VersionsRead
    <2>2. CASE Winning(v, m, end) = {}
      BY <2>2 DEF Made, YearOf
    <2>3. CASE Winning(v, m, end) # {}
      <3>1. Made(VersionedFacts(m, Winning(v, m, end), Label(v, end)), d, n)
        BY <2>1, <2>3, VersionedMade
      <3> QED BY <2>3, <3>1 DEF YearOf
    <2> QED BY <2>2, <2>3
  <1>5. AllYears(v) = UNION {Year(end) : end \in Calendar(v)}
    BY Zenon DEF AllYears
  <1> HIDE DEF Of
  <1>3. ASSUME NEW end \in Calendar(v) PROVE Made(Year(end), d, n)
    <2> DEFINE debt == DebtFacts(v, end, Label(v, end))
               W == {Of(m, end) : m \in DOMAIN Chain} \cup {debt}
    <2>1. Made(debt, d, n)
      BY EndsRead, DebtMade
    <2>2. \A F \in W : Made(F, d, n)
      BY <1>2, <2>1
    <2>3. Year(end) = UNION W
      OBVIOUS
    <2> HIDE DEF W, Year
    <2>4. Made(UNION W, d, n)
      BY <2>2, MadeTogether
    <2> QED BY <2>3, <2>4
  <1> HIDE DEF Year
  <1>4. Made(UNION {Year(end) : end \in Calendar(v)}, d, n)
    <2> DEFINE W == {Year(end) : end \in Calendar(v)}
    <2>1. \A F \in W : Made(F, d, n)
      BY <1>3
    <2> HIDE DEF W
    <2>2. Made(UNION W, d, n)
      BY <2>1, MadeTogether
    <2> QED BY <2>2 DEF W
  <1> QED BY <1>4, <1>5

\* The facts of the annual reports
LEMMA AnnualLinked ==
    ASSUME NEW v, NEW d, NEW n \in Nat, Read(v, d, n)
    PROVE  Linked(AnnualFacts(v), d, n)
  <1>1. AnnualFacts(v) = Link(AllYears(v))
    BY Zenon DEF AnnualFacts, AllYears, YearOf
  <1> QED BY <1>1, AllYearsMade, LinkLinks

\* What rests on facts of A, and on one another
RestsOn(G, A, d, n) ==
    \A f \in G : IsFact(f, d, n) /\ IsCurrent(f) /\ Founded(f, A \cup G)

\* A split event is a row that was read.
LEMMA SplitsRead ==
    ASSUME NEW v, NEW d, NEW n \in Nat, Read(v, d, n)
    PROVE  \A e \in SplitEvents(v) : Dated(e, d, n)
  <1>1. ASSUME NEW e \in v.splits
        PROVE  Dated(FirstFiled({x \in v.splits : x.end = e.end /\ x.val = e.val}), d, n)
    <2> DEFINE S == {x \in v.splits : x.end = e.end /\ x.val = e.val}
    <2>1. S # {} /\ \A x \in S : Dated(x, d, n)
      BY DEF Read
    <2> HIDE DEF S
    <2>2. Dated(FirstFiled(S), d, n)
      BY <2>1, FiledIs
    <2> QED BY <2>2 DEF S
  <1> SUFFICES ASSUME NEW e \in SplitEvents(v) PROVE Dated(e, d, n)
    OBVIOUS
  <1>2. e \in {FirstFiled({x \in v.splits : x.end = r.end /\ x.val = r.val}) : r \in v.splits}
    BY Zenon DEF SplitEvents
  <1> QED BY <1>1, <1>2

\* A ratio is a fact of its row.
LEMMA RatioIs ==
    ASSUME NEW e, NEW d, NEW n, Dated(e, d, n), NEW f, f = RatioFact(e)
    PROVE  IsFact(f, d, n) /\ IsCurrent(f) /\ f.inputs = {}
  <1> DEFINE g == FactFrom("ratio", "stock_split_ratio", e, <<0, 0>>, e.end, "")
  <1>1. IsFact(g, d, n) /\ IsCurrent(g) /\ g.inputs = {}
    BY FactFromIs
  <1>2. f = [g EXCEPT !.start = NoDate]
    BY DEF RatioFact
  <1> HIDE DEF g
  <1>3. DOMAIN g = FactFields
    BY <1>1 DEF IsFact
  <1>4. /\ \A x \in FactFields \ {"start"} : f[x] = g[x]
        /\ f = [x \in FactFields |-> f[x]]
    BY <1>2, <1>3
  <1>5. /\ f.filed = g.filed /\ f.accn = g.accn /\ f.end = g.end /\ f.by = g.by
        /\ f.inputs = g.inputs
    BY <1>4 DEF FactFields
  <1> QED BY <1>1, <1>4, <1>5 DEF IsFact, Dated, IsCurrent

\* Adjusted values rest on the annual ones and on the ratios.
LEMMA SplitsRest ==
    ASSUME NEW v, NEW d, NEW n \in Nat, Read(v, d, n), NEW A, \A f \in A : IsFact(f, d, n)
    PROVE  RestsOn(SplitFacts(v, A), A, d, n)
  <1> DEFINE After(f) == {e \in SplitEvents(v) : e.end > f.filed}
             old == {f \in A : /\ f.metric \in Multiplied \cup Divided /\ IsCurrent(f)
                               /\ f.kind = "filed" /\ After(f) # {}}
             G == SplitFacts(v, A)
  <1>1. G = {Adjusted(f, After(f)) : f \in old}
            \cup (UNION {{RatioFact(e) : e \in After(f)} : f \in old})
    BY Zenon DEF SplitFacts
  <1>2. \A f : \A e \in After(f) : Dated(e, d, n)
    BY SplitsRead
  <1>3. \A f \in old : f \in A
    OBVIOUS
  <1> HIDE DEF After, old, G
  <1>4. ASSUME NEW f \in old, NEW a, a = Adjusted(f, After(f))
        PROVE  IsFact(a, d, n) /\ IsCurrent(a) /\ Founded(a, A \cup G)
    <2> DEFINE ratios == {RatioFact(e) : e \in After(f)}
               ins == {f} \cup ratios
    <2>1. PICK val : a = Derived("adjusted", f.metric, ins, val, f.label, f.start, f.end)
      BY <1>4, Zenon DEF Adjusted
    <2>2. \A g \in ratios : IsFact(g, d, n)
      BY <1>2, RatioIs
    <2>3. ratios \subseteq G
      BY <1>1
    <2>4. ins \subseteq A \cup G
      BY <1>3, <2>3
    <2>5. AllDated(ins, d, n)
      BY <1>3, <2>2 DEF IsFact, AllDated
    <2>6. f.end \in 0 .. n
      BY <1>3 DEF IsFact, Dated
    <2>7. PICK metric, label, start, end :
              end \in 0 .. n /\ a = Derived("adjusted", metric, ins, val, label, start, end)
      BY <2>1, <2>6, Zenon
    <2> HIDE DEF ins, ratios
    <2>8. DerivedFrom(a, "adjusted", ins, d, n)
      BY <2>5, <2>7, DerivedIs
    <2> QED BY <2>4, <2>8 DEF DerivedFrom, Founded, Ids
  <1>5. ASSUME NEW f \in old, NEW e \in After(f), NEW a, a = RatioFact(e)
        PROVE  IsFact(a, d, n) /\ IsCurrent(a) /\ Founded(a, A \cup G)
    BY <1>2, <1>5, RatioIs DEF Founded
  <1>6. ASSUME NEW a \in G PROVE IsFact(a, d, n) /\ IsCurrent(a) /\ Founded(a, A \cup G)
    <2>1. \/ \E f \in old : a = Adjusted(f, After(f))
          \/ \E f \in old : \E e \in After(f) : a = RatioFact(e)
      BY <1>1
    <2> QED BY <1>4, <1>5, <2>1
  <1> QED BY <1>6 DEF RestsOn, G

\* The longest of some rows is one of them.
LEMMA LongestIs ==
    ASSUME NEW n \in Nat, NEW S, S # {}, \A e \in S : e.start \in 0 .. n /\ e.end \in 0 .. n
    PROVE  Longest(S) \in S
  <1> DEFINE f == [e \in S |-> e.end - e.start + n]
  <1>1. f \in [S -> 0 .. 2 * n] /\ 2 * n \in Nat
    OBVIOUS
  <1>2. \A e \in S : f[e] = e.end - e.start + n
    OBVIOUS
  <1> HIDE DEF f
  <1>3. \E e \in S : \A x \in S : f[x] <= f[e]
    BY <1>1, ExtremesBy
  <1>4. \E e \in S : \A x \in S : Days(x) <= Days(e)
    BY <1>2, <1>3 DEF Days
  <1> QED BY <1>4 DEF Longest

\* A trailing figure rests on its year and on what is stored with it.
LEMMA TrailingRests ==
    ASSUME NEW v, NEW d, NEW n \in Nat, Read(v, d, n), NEW m \in DOMAIN Chain,
           NEW annual, IsFact(annual, d, n), NEW G, G = Trailing(v, m, annual)
    PROVE  RestsOn(G, {annual}, d, n)
  <1> DEFINE concept == Chain[m][Min(PairConcepts(v, m))]
             cur == Longest(Current(v, concept))
             prior == Longest(Comparatives(v, concept))
             label == <<cur.fy, cur.fp>>
             ytd == YearToDate(m, cur, label)
             before == YearToDate(m, prior, <<cur.fy - 1, cur.fp>>)
             ins == {annual, ytd, before}
             sum == Derived("ttm", m, ins, annual.val + cur.val - prior.val,
                            IF Later(annual, cur) THEN annual.label ELSE label,
                            prior.end, cur.end)
             dated == [sum EXCEPT !.filed = cur.filed, !.accn = cur.accn, !.label = label]
             year == Derived("ttm", m, {annual}, annual.val, annual.label,
                             annual.start, annual.end)
  <1>1. \/ G = {year}
        \/ G = {}
        \/ PairConcepts(v, m) # {} /\ G = {ytd, before, dated}
    BY Zenon DEF Trailing
  <1>2. Dated(annual, d, n) /\ annual.end \in 0 .. n
    BY DEF IsFact, Dated
  <1>3. CASE G = {year}
    <2>1. IsFact(year, d, n) /\ IsCurrent(year) /\ year.inputs = Ids({annual}) /\ year.kind = "ttm"
      <3> DEFINE one == {annual}
      <3>1. AllDated(one, d, n)
        BY <1>2 DEF AllDated
      <3>2. PICK val, at, from, to :
                to \in 0 .. n /\ year = Derived("ttm", m, one, val, at, from, to)
        BY <1>2
      <3> HIDE DEF one, year
      <3>3. DerivedFrom(year, "ttm", one, d, n)
        BY <3>1, <3>2, DerivedIs
      <3> QED BY <3>3 DEF DerivedFrom, one
    <2> HIDE DEF year
    <2> QED BY <1>3, <2>1 DEF RestsOn, Founded, Ids
  <1>4. CASE G = {}
    BY <1>4 DEF RestsOn
  <1>5. CASE PairConcepts(v, m) # {} /\ G = {ytd, before, dated}
    <2>1. concept \in Concepts /\ Current(v, concept) # {} /\ Comparatives(v, concept) # {}
      <3>1. PairConcepts(v, m) \in SUBSET (DOMAIN Chain[m])
        BY DEF PairConcepts
      <3>2. Min(PairConcepts(v, m)) \in PairConcepts(v, m) /\ concept \in Concepts
        BY <1>5, <3>1, ChainConcepts
      <3> QED BY <3>2 DEF PairConcepts
    <2> HIDE DEF concept
    <2>2. \A e \in v.quarterly[concept] : Dated(e, d, n) /\ e.start \in 0 .. n /\ e.end \in 0 .. n
      BY <2>1 DEF Read, Dated
    <2>3. cur \in Current(v, concept) /\ prior \in Comparatives(v, concept)
      <3>1. \A e \in Current(v, concept) \cup Comparatives(v, concept) :
                e.start \in 0 .. n /\ e.end \in 0 .. n
        BY <2>2 DEF Current, Comparatives
      <3> QED BY <2>1, <3>1, LongestIs
    <2>4. Dated(cur, d, n) /\ Dated(prior, d, n) /\ cur.end \in 0 .. n
      <3>1. cur \in v.quarterly[concept] /\ prior \in v.quarterly[concept]
        BY <2>3 DEF Current, Comparatives
      <3> HIDE DEF cur, prior
      <3> QED BY <2>2, <3>1
    <2> HIDE DEF cur, prior
    <2>5. /\ IsFact(ytd, d, n) /\ IsCurrent(ytd) /\ ytd.inputs = {}
          /\ IsFact(before, d, n) /\ IsCurrent(before) /\ before.inputs = {}
      BY <2>4, FactFromIs DEF YearToDate
    <2> HIDE DEF ytd, before, label
    <2>6. IsFact(sum, d, n) /\ IsCurrent(sum) /\ sum.inputs = Ids(ins) /\ sum.kind = "ttm"
      <3>1. AllDated(ins, d, n)
        BY <1>2, <2>5 DEF IsFact, AllDated
      <3>2. PICK val, at, from, to :
                to \in 0 .. n /\ sum = Derived("ttm", m, ins, val, at, from, to)
        BY <2>4
      <3> HIDE DEF ins, sum
      <3>3. DerivedFrom(sum, "ttm", ins, d, n)
        BY <3>1, <3>2, DerivedIs
      <3> QED BY <3>3 DEF DerivedFrom
    <2> HIDE DEF sum
    <2>7. IsFact(dated, d, n) /\ IsCurrent(dated) /\ dated.inputs = Ids(ins) /\ dated.kind = "ttm"
      <3>1. DOMAIN sum = FactFields
        BY <2>6 DEF IsFact
      <3>2. /\ \A x \in FactFields \ {"filed", "accn", "label"} : dated[x] = sum[x]
            /\ dated.filed = cur.filed /\ dated.accn = cur.accn
            /\ dated = [x \in FactFields |-> dated[x]]
        BY <3>1 DEF FactFields
      <3> HIDE DEF dated
      <3>3. /\ dated.end = sum.end /\ dated.by = sum.by /\ dated.inputs = sum.inputs
            /\ dated.kind = sum.kind
        BY <3>2 DEF FactFields
      <3> QED BY <2>4, <2>6, <3>2, <3>3 DEF IsFact, Dated, IsCurrent
    <2> HIDE DEF dated
    <2>8. Founded(dated, {annual} \cup G)
      BY <1>5, <2>7 DEF Founded, Ids
    <2> QED BY <1>5, <2>5, <2>7, <2>8 DEF RestsOn, Founded
  <1> QED BY <1>1, <1>3, <1>4, <1>5

\* Every trailing figure does, for the newest year of its metric.
LEMMA TrailingsRest ==
    ASSUME NEW v, NEW d, NEW n \in Nat, Read(v, d, n), NEW A, \A f \in A : IsFact(f, d, n)
    PROVE  RestsOn(TrailingFacts(v, A), A, d, n)
  <1> DEFINE years(m) == {f \in A : f.kind = "filed" /\ f.metric = m /\ IsCurrent(f)}
             newest(m) == CHOOSE f \in years(m) : \A x \in years(m) : x.end <= f.end
             Of(m) == IF years(m) = {} THEN {} ELSE Trailing(v, m, newest(m))
             G == TrailingFacts(v, A)
  <1>1. G = UNION {Of(m) : m \in FlowMetrics}
    BY Zenon DEF TrailingFacts
  <1>2. ASSUME NEW m, years(m) # {} PROVE newest(m) \in A
    <2> DEFINE e == [f \in years(m) |-> f.end]
    <2>1. e \in [years(m) -> 0 .. n] /\ \A f \in years(m) : e[f] = f.end
      BY DEF IsFact, Dated
    <2>2. \A f \in years(m) : f \in A
      OBVIOUS
    <2> HIDE DEF e, years
    <2>3. \E f \in years(m) : \A x \in years(m) : e[x] <= e[f]
      BY <1>2, <2>1, ExtremesBy
    <2>4. \E f \in years(m) : \A x \in years(m) : x.end <= f.end
      BY <2>1, <2>3
    <2> QED BY <2>2, <2>4
  <1> HIDE DEF newest, years
  <1>3. ASSUME NEW m \in FlowMetrics, NEW f \in Of(m)
        PROVE  IsFact(f, d, n) /\ IsCurrent(f) /\ Founded(f, A \cup G)
    <2>1. years(m) # {} /\ Of(m) = Trailing(v, m, newest(m))
      BY <1>3
    <2>2. newest(m) \in A /\ IsFact(newest(m), d, n) /\ m \in DOMAIN Chain
      BY <1>2, <2>1, ChainAssumption
    <2>3. RestsOn(Trailing(v, m, newest(m)), {newest(m)}, d, n)
      BY <2>2, TrailingRests
    <2>4. IsFact(f, d, n) /\ IsCurrent(f) /\ Founded(f, {newest(m)} \cup Of(m))
      BY <1>3, <2>1, <2>3 DEF RestsOn
    <2>5. {newest(m)} \cup Of(m) \subseteq A \cup G
      BY <1>1, <2>2
    <2> QED BY <2>4, <2>5 DEF Founded
  <1> HIDE DEF Of, G
  <1>4. RestsOn(G, A, d, n)
    BY <1>1, <1>3 DEF RestsOn
  <1> QED BY <1>4 DEF G

\* So all the facts of a run are linked.
LEMMA FactsLinked ==
    ASSUME NEW v, NEW d, NEW n \in Nat, Read(v, d, n)
    PROVE  Linked(Facts(v), d, n)
  <1> DEFINE A == AnnualFacts(v)
             S == SplitFacts(v, A)
             T == TrailingFacts(v, A)
  <1>1. Facts(v) = {} \/ Facts(v) = A \cup S \cup T
    BY DEF Facts
  <1>2. Linked(A, d, n) /\ \A f \in A : IsFact(f, d, n)
    BY AnnualLinked DEF Linked
  <1> HIDE DEF A
  <1>3. RestsOn(S, A, d, n) /\ RestsOn(T, A, d, n)
    BY <1>2, SplitsRest, TrailingsRest
  <1> HIDE DEF S, T
  <1>4. ASSUME NEW f \in S \cup T
        PROVE  IsFact(f, d, n) /\ IsCurrent(f) /\ Founded(f, A \cup S \cup T)
    BY <1>3 DEF RestsOn, Founded
  <1>5. ASSUME NEW f \in A
        PROVE  /\ IsFact(f, d, n) /\ Founded(f, A \cup S \cup T)
               /\ ~IsCurrent(f) => \E g \in A \cup S \cup T :
                      /\ g.id = f.by /\ IsCurrent(g)
                      /\ Identity(g) = Identity(f) /\ g.filed >= f.filed
    BY <1>2 DEF Linked, Founded
  <1>6. Linked(A \cup S \cup T, d, n)
    BY <1>4, <1>5 DEF Linked
  <1>7. Linked({}, d, n)
    BY DEF Linked
  <1> QED BY <1>1, <1>6, <1>7

\* Finitely many numbers have a bound: a smallest set of them without one would be that of
\* a smaller set, or its own element.
LEMMA BoundOf ==
    ASSUME NEW T \in SUBSET Nat, IsFiniteSet(T)
    PROVE  \E n \in Nat : \A x \in T : x <= n
  <1> DEFINE Bad == {U \in SUBSET T : \A n \in Nat : ~(\A x \in U : x <= n)}
  <1>1. SUFFICES ASSUME Bad # {} PROVE FALSE
    OBVIOUS
  <1>2. IsWellFoundedOn(StrictSubsetOrdering(T), SUBSET T)
    BY FS_StrictSubsetOrderingWellFounded, FS_FiniteSubsetsOfFinite
  <1>3. PICK U \in Bad : \A V \in Bad : ~(<<V, U>> \in StrictSubsetOrdering(T))
    <2>1. Bad \subseteq SUBSET T
      OBVIOUS
    <2> HIDE DEF Bad
    <2> QED BY <1>1, <1>2, <2>1, WFMin
  <1>4. PICK u \in U : TRUE
    OBVIOUS
  <1>5. PICK n \in Nat : \A x \in U \ {u} : x <= n
    <2>1. <<U \ {u}, U>> \in StrictSubsetOrdering(T)
      BY <1>4 DEF StrictSubsetOrdering
    <2> QED BY <1>3, <2>1
  <1>6. u \in Nat /\ U \subseteq Nat
    BY <1>4
  <1>7. CASE u <= n
    BY <1>3, <1>5, <1>7
  <1>8. CASE n < u
    <2>1. \A x \in U : x <= u
      BY <1>5, <1>6, <1>8
    <2> QED BY <1>3, <1>6, <2>1
  <1> QED BY <1>5, <1>6, <1>7, <1>8

\* What is made one by one of finitely many things is finite.
LEMMA ImageIsFinite ==
    ASSUME NEW S, IsFiniteSet(S), NEW f, f = [x \in S |-> f[x]]
    PROVE  IsFiniteSet({f[x] : x \in S})
  <1> DEFINE T == {f[x] : x \in S}
  <1>1. f \in [S -> T] /\ \A t \in T : \E x \in S : f[x] = t
    OBVIOUS
  <1>2. f \in Surjection(S, T)
    BY <1>1 DEF Surjection
  <1> HIDE DEF T
  <1>3. IsFiniteSet(T)
    BY <1>2, FS_Surjection
  <1> QED BY <1>3 DEF T

\* So are two things.
LEMMA BothFinite == \A a, b : IsFiniteSet({a, b})
  <1> SUFFICES ASSUME NEW a, NEW b PROVE IsFiniteSet({a, b})
    OBVIOUS
  <1>1. IsFiniteSet({a}) /\ IsFiniteSet({b}) /\ {a, b} = {a} \cup {b}
    BY FS_Singleton
  <1> QED BY <1>1, FS_Union

\* The numbers of a catalog have a bound.
LEMMA CatalogBound ==
    \E n \in Nat : \A f \in Catalog : /\ f.filed \in 0 .. n /\ f.accn \in 0 .. n
                                      /\ \A r \in f.rows : r.start \in 0 .. n /\ r.end \in 0 .. n
  <1> DEFINE Starts(f) == {r.start : r \in f.rows}
             Ends(f) == {r.end : r \in f.rows}
             NumbersOf(f) == {f.filed, f.accn} \cup Starts(f) \cup Ends(f)
             All == UNION {NumbersOf(f) : f \in Catalog}
  <1>1. ASSUME NEW f \in Catalog PROVE IsFiniteSet(NumbersOf(f)) /\ NumbersOf(f) \subseteq Nat
    <2>1. IsFiniteSet(f.rows) /\ NumbersOf(f) \subseteq Nat
      BY CatalogAssumption
    <2>2. IsFiniteSet(Starts(f))
      <3> DEFINE g == [r \in f.rows |-> r.start]
      <3>1. g = [r \in f.rows |-> g[r]] /\ Starts(f) = {g[r] : r \in f.rows}
        OBVIOUS
      <3> HIDE DEF g, Starts
      <3> QED BY <2>1, <3>1, ImageIsFinite
    <2>3. IsFiniteSet(Ends(f))
      <3> DEFINE g == [r \in f.rows |-> r.end]
      <3>1. g = [r \in f.rows |-> g[r]] /\ Ends(f) = {g[r] : r \in f.rows}
        OBVIOUS
      <3> HIDE DEF g, Ends
      <3> QED BY <2>1, <3>1, ImageIsFinite
    <2> HIDE DEF Starts, Ends
    <2>4. IsFiniteSet({f.filed, f.accn})
      BY BothFinite
    <2>5. IsFiniteSet({f.filed, f.accn} \cup Starts(f))
      BY <2>2, <2>4, FS_Union
    <2> QED BY <2>1, <2>3, <2>5, FS_Union
  <1>2. IsFiniteSet({NumbersOf(f) : f \in Catalog})
    <2> HIDE DEF NumbersOf
    <2> DEFINE g == [f \in Catalog |-> NumbersOf(f)]
    <2>1. g = [f \in Catalog |-> g[f]] /\ {NumbersOf(f) : f \in Catalog} = {g[f] : f \in Catalog}
      OBVIOUS
    <2>2. IsFiniteSet(Catalog)
      BY CatalogAssumption
    <2> HIDE DEF g
    <2> QED BY <2>1, <2>2, ImageIsFinite
  <1>3. IsFiniteSet(All) /\ All \subseteq Nat
    <2> DEFINE W == {NumbersOf(f) : f \in Catalog}
    <2>1. \A N \in W : IsFiniteSet(N) /\ N \subseteq Nat
      BY <1>1
    <2> HIDE DEF W
    <2>2. IsFiniteSet(UNION W)
      <3>1. IsFiniteSet(W)
        BY <1>2 DEF W
      <3>2. \A N \in W : IsFiniteSet(N)
        BY <2>1
      <3> QED BY <3>1, <3>2, FS_UNION, Zenon
    <2>3. UNION W \subseteq Nat
      BY <2>1
    <2> QED BY <2>2, <2>3 DEF W
  <1>4. PICK n \in Nat : \A x \in All : x <= n
    <2> HIDE DEF All
    <2>1. All \in SUBSET Nat
      BY <1>3
    <2> QED BY <1>3, <2>1, BoundOf, Zenon
  <1>5. ASSUME NEW f \in Catalog PROVE \A x \in NumbersOf(f) : x \in 0 .. n
    <2> SUFFICES ASSUME NEW x \in NumbersOf(f) PROVE x \in 0 .. n
      OBVIOUS
    <2>1. x \in All
      BY Zenon
    <2> HIDE DEF All, NumbersOf
    <2>2. x \in Nat /\ x <= n
      BY <1>3, <1>4, <2>1
    <2> QED BY <2>2
  <1> HIDE DEF All
  <1> QED BY <1>5

\* What a run dated d may read was filed by then.
LEMMA ReadableIs ==
    ASSUME NEW p \in SUBSET Catalog, NEW d, NEW n \in Nat,
           \A f \in Catalog : /\ f.filed \in 0 .. n /\ f.accn \in 0 .. n
                              /\ \A r \in f.rows : r.start \in 0 .. n /\ r.end \in 0 .. n
    PROVE  Read(Readable(p, d), d, n)
  <1>1. \A e \in Rows(p) : e.filed <= d => Dated(e, d, n) /\ e.start \in 0 .. n
    BY DEF Rows, Dated
  <1>2. \A c : \A e \in AnnualEntries(p, c, d) \cup QuarterEntries(p, c, d) :
            e \in Rows(p) /\ e.filed <= d
    BY DEF AnnualEntries, QuarterEntries
  <1>3. \A e \in SplitRows(p, d) : e \in Rows(p) /\ e.filed <= d
    BY DEF SplitRows
  <1> QED BY <1>1, <1>2, <1>3 DEF Read, Readable

\* Whatever a company files, every fact of every run can be traced in what that run was given:
\* nothing is from after its date, the inputs of a derived fact are there and no later than
\* it, and a superseded version points at the current one (derived.py, restatements.py).
THEOREM FactsAreTraceable == HistorySpec => []Traceable
  <1>1. ViewsAreCurrent => Traceable
    <2> SUFFICES ASSUME ViewsAreCurrent, NEW d \in Views
                 PROVE  \E n : Linked(seen[d].facts, d, n)
      BY DEF Traceable, Linked, IsFact, Dated, Founded
    <2>1. PICK n \in Nat : \A f \in Catalog :
              /\ f.filed \in 0 .. n /\ f.accn \in 0 .. n
              /\ \A r \in f.rows : r.start \in 0 .. n /\ r.end \in 0 .. n
      BY CatalogBound
    <2>2. Linked(Facts(Readable(made, d)), d, n)
      BY <2>1, ReadableIs, FactsLinked DEF ViewsAreCurrent
    <2>3. seen[d].facts = Facts(Readable(made, d))
      BY DEF ViewsAreCurrent, SeenBy
    <2> QED BY <2>2, <2>3
  <1> QED BY <1>1, ViewsStart, ViewsStep, PTL DEF HistorySpec

-----------------------------------------------------------------------------
(* The ids of the facts.  An id is made of what sets a fact apart from the *)
(* others of its run, if the reports are regular: kind, metric, period,    *)
(* version and part.                                                       *)

\* No two facts share an id.
Alone(F) == \A f, g \in F : f.id = g.id => f = g

\* What a run may read, of a regular catalog
Orderly(v) ==
    /\ \A c \in Concepts : \A x \in v.annual[c] : x.accn # 0 /\ x.fy \in Int
    /\ \A c \in Concepts : \A x, y \in v.annual[c] : x.end = y.end /\ x.accn = y.accn => x = y
    /\ \A c \in Concepts : \A x \in v.quarterly[c] : x.fy \in Int
    /\ \A x, y \in v.splits : x.end = y.end => x.val = y.val
    /\ \A a, b, c \in AnnualEnds(v) :
           a # b /\ a <= c /\ b <= c => ElapsedYears(c - a) # ElapsedYears(c - b)

\* An id tells what it is made of.
LEMMA IdTells ==
    ASSUME NEW kind, NEW m, NEW label, NEW ver, NEW part, NEW i,
           i = FactId(kind, m, label, ver, part)
    PROVE  i[1] = kind /\ i[2] = m /\ i[3] = label /\ i[4] = ver /\ i[5] = part /\ i # NoId
  BY DEF FactId, NoId

\* A fact before versions are linked, whose id tells its kind, its metric and its period
NoPart == ""
Whole(f) == f.part = NoPart
Fresh(f, kind, m, label) ==
    /\ f.kind = kind /\ f.metric = m /\ f.label = label /\ IsCurrent(f)
    /\ f.id[1] = kind /\ f.id[2] = m /\ f.id[3] = label /\ f.id # NoId

\* A fact of a row, and a derived one
LEMMA FreshFrom ==
    ASSUME NEW kind, NEW m, NEW e, NEW label, NEW ver, NEW part, NEW f,
           f = FactFrom(kind, m, e, label, ver, part)
    PROVE  Fresh(f, kind, m, label) /\ f.id[4] = ver /\ f.id[5] = part /\ f.part = part
  <1>1. f.id = FactId(kind, m, label, ver, part)
    BY DEF FactFrom
  <1>2. f.kind = kind /\ f.metric = m /\ f.label = label /\ f.by = NoId /\ f.part = part
    BY DEF FactFrom
  <1> QED BY <1>1, <1>2, IdTells DEF Fresh, IsCurrent

LEMMA FreshDerived ==
    ASSUME NEW kind, NEW m, NEW ins, NEW val, NEW label, NEW start, NEW end, NEW f,
           f = Derived(kind, m, ins, val, label, start, end)
    PROVE  Fresh(f, kind, m, label) /\ Whole(f)
  <1>1. f.id = FactId(kind, m, label, 0, "")
    BY Zenon DEF Derived
  <1>2. f.kind = kind /\ f.metric = m /\ f.label = label /\ f.by = NoId
    BY DEF Derived
  <1>3. Whole(f)
    BY DEF Derived, Whole, NoPart
  <1>4. PICK part : f.id = FactId(kind, m, label, 0, part)
    BY <1>1, Zenon
  <1> QED BY <1>2, <1>3, <1>4, IdTells DEF Fresh, IsCurrent

\* Facts of one metric and period
Placed(F, m, label) ==
    \A f \in F : /\ Fresh(f, f.kind, m, label) /\ f.kind \in {"filed", "component"}
                 /\ f.kind = "filed" => Whole(f)

\* The versions of a metric are told apart by their accession.
LEMMA VersionsAlone ==
    ASSUME NEW S, S # {}, NEW d, NEW n \in Nat, \A e \in S : Dated(e, d, n) /\ e.accn # 0,
           \A x, y \in S : x.accn = y.accn => x = y, NEW m, NEW label,
           NEW F, F = VersionedFacts(m, S, label)
    PROVE  Alone(F) /\ Placed(F, m, label)
  <1> DEFINE of(e, ver) == FactFrom("filed", m, e, label, ver, NoPart)
             current == LastFiled(S)
             old == {x \in S : x # current /\ x.val # current.val}
  <1>1. \A e, ver, f : f = of(e, ver) => Fresh(f, "filed", m, label) /\ f.id[4] = ver /\ Whole(f)
    BY FreshFrom DEF Whole
  <1>2. F = {of(current, 0)} \cup {of(e, e.accn) : e \in old}
    BY Zenon DEF VersionedFacts, NoPart
  <1>3. \A e \in old : e \in S
    OBVIOUS
  <1> HIDE DEF of, current, old
  <1>4. Alone(F)
    <2> SUFFICES ASSUME NEW f \in F, NEW g \in F, f.id = g.id PROVE f = g
      BY DEF Alone
    <2>1. f = of(current, 0) \/ \E e \in old : f = of(e, e.accn)
      BY <1>2
    <2>2. g = of(current, 0) \/ \E e \in old : g = of(e, e.accn)
      BY <1>2
    <2>3. f.id[4] = g.id[4]
      OBVIOUS
    <2> QED BY <1>1, <1>3, <2>1, <2>2, <2>3
  <1>5. Placed(F, m, label)
    BY <1>1, <1>2 DEF Placed, Fresh
  <1> QED BY <1>4, <1>5

\* The debt table is finite.
LEMMA DebtIsFinite == IsFiniteSet(DebtConcepts)
  <1> DEFINE long(i) == {LongTermBuckets[i].primary, LongTermBuckets[i].current} \ {""}
             short(i) == ShortTermGroups[i].concepts
  <1>1. IsFiniteSet(UNION {long(i) : i \in DOMAIN LongTermBuckets})
    <2> DEFINE g == [i \in DOMAIN LongTermBuckets |-> long(i)]
    <2>1. IsFiniteSet(DOMAIN LongTermBuckets)
      <3>1. DOMAIN LongTermBuckets = 1 .. 5
        BY DEF LongTermBuckets
      <3>2. IsFiniteSet(1 .. 5)
        BY FS_Interval, 1 \in Int, 5 \in Int, Zenon
      <3> QED BY <3>1, <3>2
    <2>2. g = [i \in DOMAIN LongTermBuckets |-> g[i]]
          /\ {long(i) : i \in DOMAIN LongTermBuckets} = {g[i] : i \in DOMAIN LongTermBuckets}
      BY Zenon
    <2>3. \A i : IsFiniteSet(long(i))
      <3> SUFFICES ASSUME NEW i PROVE IsFiniteSet(long(i))
        OBVIOUS
      <3> DEFINE both == {LongTermBuckets[i].primary, LongTermBuckets[i].current}
      <3>1. IsFiniteSet(both) /\ long(i) \subseteq both
        BY BothFinite, Zenon
      <3> HIDE DEF both, long
      <3> QED BY <3>1, FS_Subset
    <2> HIDE DEF long, g
    <2>4. IsFiniteSet({long(i) : i \in DOMAIN LongTermBuckets})
      BY <2>1, <2>2, ImageIsFinite
    <2> DEFINE W == {long(i) : i \in DOMAIN LongTermBuckets}
    <2>5. \A F \in W : IsFiniteSet(F)
      BY <2>3
    <2> HIDE DEF W
    <2>6. IsFiniteSet(UNION W)
      BY <2>4, <2>5, FS_UNION, Zenon DEF W
    <2> QED BY <2>6 DEF W
  <1>2. IsFiniteSet(UNION {short(i) : i \in DOMAIN ShortTermGroups})
    <2>1. ShortTermGroups = <<ShortTermGroups[1], ShortTermGroups[2], ShortTermGroups[3]>>
      BY DEF ShortTermGroups
    <2>2. /\ short(1) = {"ShortTermBorrowings"}
          /\ short(2) = {"CommercialPaper", "OtherShortTermBorrowings"}
          /\ short(3) = {"DebtCurrent"}
      BY DEF ShortTermGroups
    <2>3. DOMAIN ShortTermGroups = 1 .. 3
      BY DEF ShortTermGroups
    <2>4. IsFiniteSet(short(1)) /\ IsFiniteSet(short(2)) /\ IsFiniteSet(short(3))
      <3>1. /\ short(1) = {"ShortTermBorrowings", "ShortTermBorrowings"}
            /\ short(3) = {"DebtCurrent", "DebtCurrent"}
        BY <2>2
      <3>2. IsFiniteSet({"ShortTermBorrowings", "ShortTermBorrowings"})
        BY BothFinite, Zenon
      <3>3. IsFiniteSet({"CommercialPaper", "OtherShortTermBorrowings"})
        BY BothFinite, Zenon
      <3>4. IsFiniteSet({"DebtCurrent", "DebtCurrent"})
        BY BothFinite, Zenon
      <3> HIDE DEF short
      <3> QED BY <2>2, <3>1, <3>2, <3>3, <3>4
    <2> HIDE DEF short
    <2>5. UNION {short(i) : i \in DOMAIN ShortTermGroups} = short(1) \cup (short(2) \cup short(3))
      BY <2>3
    <2>6. IsFiniteSet(short(1) \cup (short(2) \cup short(3)))
      BY <2>4, FS_Union, Zenon
    <2> QED BY <2>5, <2>6
  <1>3. IsFiniteSet(ToSet(DebtTotals))
    <2>1. ToSet(DebtTotals) = {DebtTotals[1]}
      BY DEF ToSet, DebtTotals
    <2> QED BY <2>1, FS_Singleton
  <1>4. DebtConcepts = (ToSet(DebtTotals) \cup UNION {long(i) : i \in DOMAIN LongTermBuckets})
                       \cup UNION {short(i) : i \in DOMAIN ShortTermGroups}
    BY Zenon DEF DebtConcepts
  <1> HIDE DEF long, short
  <1> QED BY <1>1, <1>2, <1>3, <1>4, FS_Union, Zenon

\* The lines of the debt are told apart by their concept.
LEMMA DebtAlone ==
    ASSUME NEW v, NEW end, NEW label, NEW F, F = DebtFacts(v, end, label)
    PROVE  Alone(F) /\ Placed(F, "total_debt", label)
  <1> DEFINE av == {c \in DebtConcepts : Versions(v, c, end) # {}}
             newest(c) == LastFiled(Versions(v, c, end))
             parts == DebtParts(av)
             line(c) == FactFrom("component", "total_debt", newest(c), label, 0, c)
             whole(c) == FactFrom("filed", "total_debt", newest(c), label, 0, NoPart)
             lines == {line(c) : c \in parts}
             sum == Derived("filed", "total_debt", lines, SumVal(lines), label, NoDate, end)
  <1>1. F = IF parts = {} THEN {}
            ELSE IF Cardinality(parts) = 1 THEN {whole(c) : c \in parts} ELSE lines \cup {sum}
    BY Zenon DEF DebtFacts, NoPart
  <1>2. \A c, f : f = line(c) => Fresh(f, "component", "total_debt", label) /\ f.id[5] = c
    BY FreshFrom
  <1>3. \A c, f : f = whole(c) => Fresh(f, "filed", "total_debt", label) /\ Whole(f)
    BY FreshFrom DEF Whole
  <1>4. Fresh(sum, "filed", "total_debt", label) /\ Whole(sum)
    BY FreshDerived
  <1>5. Cardinality(parts) = 1 => \A b, c \in parts : b = c
    <2>1. parts \subseteq DebtConcepts
      BY PartsFound
    <2> HIDE DEF parts
    <2>2. IsFiniteSet(parts)
      BY <2>1, DebtIsFinite, FS_Subset
    <2> QED BY <2>2, FS_Singleton
  <1> HIDE DEF line, whole, sum, parts, newest
  <1>6. CASE F = {}
    BY <1>6 DEF Alone, Placed
  <1>7. CASE Cardinality(parts) = 1 /\ F = {whole(c) : c \in parts}
    BY <1>3, <1>5, <1>7 DEF Alone, Placed, Fresh
  <1>8. CASE F = lines \cup {sum}
    <2>1. Alone(F)
      <3> SUFFICES ASSUME NEW f \in F, NEW g \in F, f.id = g.id PROVE f = g
        BY DEF Alone
      <3>1. f = sum \/ \E c \in parts : f = line(c)
        BY <1>8
      <3>2. g = sum \/ \E c \in parts : g = line(c)
        BY <1>8
      <3>3. f.id[1] = g.id[1] /\ f.id[5] = g.id[5]
        OBVIOUS
      <3> HIDE DEF lines
      <3> QED BY <1>2, <1>4, <3>1, <3>2, <3>3 DEF Fresh
    <2>2. Placed(F, "total_debt", label)
      BY <1>2, <1>4, <1>8 DEF Placed, Fresh
    <2> QED BY <2>1, <2>2
  <1> QED BY <1>1, <1>6, <1>7, <1>8

\* Two years of the calendar have two labels.
LEMMA LabelsDiffer ==
    ASSUME NEW v, NEW d, NEW n \in Nat, Read(v, d, n), Orderly(v),
           NEW a \in Calendar(v), NEW b \in Calendar(v), Label(v, a) = Label(v, b)
    PROVE  a = b
  <1> DEFINE ends == AnnualEnds(v)
             newest == Max(ends)
             last == {e \in AnchorRows(v) : e.end = newest}
             own == FirstFiled(last).fy
  <1>1. \A e \in AnchorRows(v) : Dated(e, d, n) /\ e.fy \in Int
    <2> SUFFICES ASSUME NEW e \in AnchorRows(v) PROVE Dated(e, d, n) /\ e.fy \in Int
      OBVIOUS
    <2>1. PICK m \in Anchors : \E c \in ConceptsOf(m) : e \in v.annual[c]
      BY DEF AnchorRows
    <2>2. m \in DOMAIN Chain
      BY ChainAssumption
    <2>3. PICK c \in Concepts : e \in v.annual[c]
      BY <2>1, <2>2 DEF Concepts
    <2>4. Dated(e, d, n)
      BY <2>3 DEF Read
    <2>5. e.fy \in Int
      BY <2>3 DEF Orderly
    <2> QED BY <2>4, <2>5
  <1>2. a \in ends /\ b \in ends /\ \A x \in ends : x \in 0 .. n
    BY <1>1 DEF Calendar, AnnualEnds, Dated
  <1>3. newest \in ends /\ a <= newest /\ b <= newest
    <2> DEFINE g == [x \in ends |-> x]
    <2>1. g \in [ends -> 0 .. n] /\ \A x \in ends : g[x] = x
      BY <1>2
    <2> HIDE DEF g, ends
    <2>2. \E x \in ends : \A y \in ends : y <= x
      <3>1. \E x \in ends : \A y \in ends : g[y] <= g[x]
        BY <1>2, <2>1, ExtremesBy
      <3> QED BY <2>1, <3>1
    <2>3. newest \in ends /\ \A y \in ends : y <= newest
      BY <2>2 DEF Max
    <2> QED BY <1>2, <2>3
  <1>4. own \in Int
    <2>1. last # {} /\ \A x \in last : x \in AnchorRows(v)
      BY <1>3 DEF AnnualEnds
    <2> HIDE DEF last
    <2>2. FirstFiled(last) \in last
      BY <1>1, <2>1, FiledIs
    <2> QED BY <1>1, <2>1, <2>2
  <1>5. \A x : Label(v, x) = <<own - ElapsedYears(newest - x), 0>>
    BY Zenon DEF Label
  <1>6. \A x \in ends : ElapsedYears(newest - x) \in Int
    BY <1>2, <1>3 DEF ElapsedYears
  <1> HIDE DEF own, newest, ends
  <1>7. own - ElapsedYears(newest - a) = own - ElapsedYears(newest - b)
    BY <1>5
  <1>8. ElapsedYears(newest - a) = ElapsedYears(newest - b)
    BY <1>2, <1>4, <1>6, <1>7
  <1> QED BY <1>2, <1>3, <1>8 DEF Orderly, ends

\* What is made of metric m, or of the debt, for one year
InYear(v, end, m, F) ==
    \/ m \in DOMAIN Chain /\ F = YearOf(v, m, end)
    \/ m = "total_debt" /\ F = DebtFacts(v, end, Label(v, end))

\* Each is made of that metric and year alone.
LEMMA YearIsPlaced ==
    ASSUME NEW v, NEW d, NEW n \in Nat, Read(v, d, n), Orderly(v), NEW end, NEW m, NEW F,
           InYear(v, end, m, F)
    PROVE  Alone(F) /\ Placed(F, m, Label(v, end))
  <1>1. CASE m \in DOMAIN Chain /\ F = YearOf(v, m, end)
    <2>1. CASE Winning(v, m, end) = {}
      BY <1>1, <2>1 DEF YearOf, Alone, Placed
    <2>2. CASE Winning(v, m, end) # {}
      <3> DEFINE S == Winning(v, m, end)
                 hits == {i \in DOMAIN Chain[m] : Versions(v, Chain[m][i], end) # {}}
      <3>1. hits # {} /\ S = Versions(v, Chain[m][Min(hits)], end)
        BY <2>2 DEF Winning
      <3>2. Chain[m][Min(hits)] \in Concepts
        BY <1>1, <3>1, ChainConcepts
      <3> HIDE DEF hits
      <3>3. /\ \A e \in S : e.accn # 0
            /\ \A x, y \in S : x.accn = y.accn => x = y
        BY <3>1, <3>2 DEF Versions, Orderly
      <3>4. \A e \in S : Dated(e, d, n)
        BY <1>1, VersionsRead
      <3>5. F = VersionedFacts(m, S, Label(v, end))
        BY <1>1, <2>2 DEF YearOf
      <3> HIDE DEF S
      <3> QED BY <2>2, <3>3, <3>4, <3>5, VersionsAlone DEF S
    <2> QED BY <2>1, <2>2
  <1>2. CASE m = "total_debt" /\ F = DebtFacts(v, end, Label(v, end))
    BY <1>2, DebtAlone
  <1> QED BY <1>1, <1>2 DEF InYear

\* What the annual facts are before they are linked
Unlinked(F) ==
    \A f \in F : /\ Fresh(f, f.kind, f.metric, f.label)
                 /\ f.kind \in {"filed", "component"} /\ (f.kind = "filed" => Whole(f))

\* So an id tells the metric, and the label the year, of every one of them.
LEMMA AllYearsAlone ==
    ASSUME NEW v, NEW d, NEW n \in Nat, Read(v, d, n), Orderly(v)
    PROVE  Alone(AllYears(v)) /\ Unlinked(AllYears(v))
  <1>1. ASSUME NEW f \in AllYears(v)
        PROVE  \E end \in Calendar(v) : \E m, F : InYear(v, end, m, F) /\ f \in F
    <2>1. PICK end \in Calendar(v) :
              \/ f \in UNION {YearOf(v, m, end) : m \in DOMAIN Chain}
              \/ f \in DebtFacts(v, end, Label(v, end))
      BY <1>1, Zenon DEF AllYears
    <2>2. CASE f \in DebtFacts(v, end, Label(v, end))
      BY <2>2, Zenon DEF InYear
    <2>3. CASE f \in UNION {YearOf(v, m, end) : m \in DOMAIN Chain}
      <3>1. PICK m \in DOMAIN Chain : f \in YearOf(v, m, end)
        BY <2>3
      <3> QED BY <3>1, Zenon DEF InYear
    <2> QED BY <2>1, <2>2, <2>3
  <1>2. ASSUME NEW f \in AllYears(v), NEW g \in AllYears(v), f.id = g.id PROVE f = g
    <2>1. PICK end, m, F : end \in Calendar(v) /\ InYear(v, end, m, F) /\ f \in F
      BY <1>1
    <2>2. PICK end2, m2, F2 : end2 \in Calendar(v) /\ InYear(v, end2, m2, F2) /\ g \in F2
      BY <1>1
    <2>3. /\ Alone(F) /\ Placed(F, m, Label(v, end))
          /\ Alone(F2) /\ Placed(F2, m2, Label(v, end2))
      BY <2>1, <2>2, YearIsPlaced
    <2>4. m = m2 /\ Label(v, end) = Label(v, end2)
      BY <1>2, <2>1, <2>2, <2>3 DEF Placed, Fresh
    <2>5. end = end2
      BY <2>1, <2>2, <2>4, LabelsDiffer
    <2>6. F = F2
      BY <2>1, <2>2, <2>4, <2>5, ChainAssumption DEF InYear
    <2> QED BY <1>2, <2>1, <2>2, <2>3, <2>6 DEF Alone
  <1>3. Unlinked(AllYears(v))
    <2> SUFFICES ASSUME NEW f \in AllYears(v)
                 PROVE  /\ Fresh(f, f.kind, f.metric, f.label)
                        /\ f.kind \in {"filed", "component"} /\ (f.kind = "filed" => Whole(f))
      BY DEF Unlinked
    <2>1. PICK end, m, F : end \in Calendar(v) /\ InYear(v, end, m, F) /\ f \in F
      BY <1>1
    <2>2. Placed(F, m, Label(v, end))
      BY <2>1, YearIsPlaced
    <2> QED BY <2>1, <2>2 DEF Placed, Fresh
  <1> QED BY <1>2, <1>3 DEF Alone

\* One version of each quantity is current.
CurrentAlone(F) ==
    \A f, g \in F : IsCurrent(f) /\ IsCurrent(g) /\ Identity(f) = Identity(g) => f = g

\* The ids still tell the kind, the metric and the period.
Annotated(F) ==
    \A f \in F : /\ f.id[1] = f.kind /\ f.id[2] = f.metric /\ f.id[3] = f.label
                 /\ f.kind \in {"filed", "component"} /\ (f.kind = "filed" => Whole(f))

\* Linked versions keep their ids.
LEMMA LinkAlone ==
    ASSUME NEW S, NEW d, NEW n \in Nat, Made(S, d, n), Alone(S), Unlinked(S)
    PROVE  Alone(Link(S)) /\ CurrentAlone(Link(S)) /\ Annotated(Link(S))
  <1> DEFINE newest(f) == NewestOf(S, f)
             link(f) == Pointed(S, f)
  <1>1. Link(S) = {link(f) : f \in S}
    BY Zenon DEF Link, Pointed, NewestOf
  <1>2. ASSUME NEW f \in S PROVE newest(f) \in S
    BY NewestOfIs
  <1>3. \A f, g \in S : Identity(f) = Identity(g) => newest(f) = newest(g)
    BY NewestOfIs
  <1>4. ASSUME NEW f \in S
        PROVE  /\ link(f).id = f.id /\ link(f).kind = f.kind /\ link(f).metric = f.metric
               /\ link(f).label = f.label /\ link(f).part = f.part
               /\ link(f).by = IF f.id = newest(f).id THEN NoId ELSE newest(f).id
    BY PointedIs
  <1> HIDE DEF link, newest
  <1>5. Alone(Link(S))
    <2> SUFFICES ASSUME NEW f \in S, NEW g \in S, link(f).id = link(g).id PROVE link(f) = link(g)
      BY <1>1 DEF Alone
    <2>1. f = g
      BY <1>4 DEF Alone
    <2> QED BY <2>1
  <1>6. CurrentAlone(Link(S))
    <2> SUFFICES ASSUME NEW f \in S, NEW g \in S, IsCurrent(link(f)), IsCurrent(link(g)),
                        Identity(link(f)) = Identity(link(g))
                 PROVE  link(f) = link(g)
      BY <1>1 DEF CurrentAlone
    <2>1. Identity(f) = Identity(g)
      BY <1>4 DEF Identity
    <2>2. \A x \in S : x.id # NoId
      BY DEF Unlinked, Fresh
    <2>3. f.id = newest(f).id /\ g.id = newest(g).id
      BY <1>2, <1>4, <2>2 DEF IsCurrent
    <2>4. f = g
      BY <1>3, <2>1, <2>3 DEF Alone
    <2> QED BY <2>4
  <1>7. Annotated(Link(S))
    <2> SUFFICES ASSUME NEW f \in S
                 PROVE  /\ link(f).id[1] = link(f).kind /\ link(f).id[2] = link(f).metric
                        /\ link(f).id[3] = link(f).label
                        /\ link(f).kind \in {"filed", "component"}
                        /\ (link(f).kind = "filed" => Whole(link(f)))
      BY <1>1 DEF Annotated
    <2> QED BY <1>4 DEF Unlinked, Fresh, Whole
  <1> QED BY <1>5, <1>6, <1>7

\* One split takes effect on a day.
LEMMA EventsDiffer ==
    ASSUME NEW v, NEW d, NEW n \in Nat, Read(v, d, n), Orderly(v),
           NEW e \in SplitEvents(v), NEW g \in SplitEvents(v), e.end = g.end
    PROVE  e = g
  <1> DEFINE Reports(r) == {x \in v.splits : x.end = r.end /\ x.val = r.val}
             tagged == {FirstFiled(Reports(r)) : r \in v.splits}
  <1>1. \A x \in SplitEvents(v) : x \in tagged
    BY Zenon DEF SplitEvents
  <1>2. PICK r \in v.splits : e = FirstFiled(Reports(r))
    BY <1>1
  <1>3. PICK s \in v.splits : g = FirstFiled(Reports(s))
    BY <1>1
  <1>4. ASSUME NEW t \in v.splits PROVE FirstFiled(Reports(t)) \in Reports(t)
    <2>1. Reports(t) # {} /\ \A x \in Reports(t) : Dated(x, d, n)
      BY DEF Read
    <2> HIDE DEF Reports
    <2> QED BY <2>1, FiledIs
  <1>5. e.end = r.end /\ g.end = s.end
    BY <1>2, <1>3, <1>4
  <1>6. r.val = s.val /\ r.end = s.end
    BY <1>5 DEF Orderly
  <1>7. Reports(r) = Reports(s)
    BY <1>6
  <1> HIDE DEF Reports
  <1> QED BY <1>2, <1>3, <1>7

\* The kind in an id; a split ratio is told apart by its day, an adjusted value by the value
\* it adjusts.
OfKinds(F, kinds) == \A f \in F : f.id[1] \in kinds

\* The splits and what they adjust
LEMMA SplitsAlone ==
    ASSUME NEW v, NEW d, NEW n \in Nat, Read(v, d, n), Orderly(v),
           NEW A, CurrentAlone(A), Annotated(A), NEW G, G = SplitFacts(v, A)
    PROVE  Alone(G) /\ OfKinds(G, {"adjusted", "ratio"})
  <1> DEFINE After(f) == {e \in SplitEvents(v) : e.end > f.filed}
             old == {f \in A : /\ f.metric \in Multiplied \cup Divided /\ IsCurrent(f)
                               /\ f.kind = "filed" /\ After(f) # {}}
  <1>1. G = {Adjusted(f, After(f)) : f \in old}
            \cup (UNION {{RatioFact(e) : e \in After(f)} : f \in old})
    BY Zenon DEF SplitFacts
  <1>2. \A f : \A e \in After(f) : e \in SplitEvents(v)
    OBVIOUS
  <1>3. \A f \in old : f \in A /\ IsCurrent(f) /\ f.kind = "filed"
    OBVIOUS
  <1> HIDE DEF After, old
  <1>4. ASSUME NEW f \in old
        PROVE  Fresh(Adjusted(f, After(f)), "adjusted", f.metric, f.label)
    <2> DEFINE ins == {f} \cup {RatioFact(e) : e \in After(f)}
    <2>1. PICK val : Adjusted(f, After(f)) = Derived("adjusted", f.metric, ins, val, f.label,
                                                     f.start, f.end)
      BY Zenon DEF Adjusted
    <2> HIDE DEF ins
    <2> QED BY <2>1, FreshDerived
  <1>5. ASSUME NEW e PROVE RatioFact(e).id[1] = "ratio" /\ RatioFact(e).id[4] = e.end
    <2> DEFINE g == FactFrom("ratio", "stock_split_ratio", e, <<0, 0>>, e.end, NoPart)
    <2>1. g.id[1] = "ratio" /\ g.id[4] = e.end
      <3> DEFINE ratio == "stock_split_ratio"
                 label == <<0, 0>>
      <3> HIDE DEF ratio, label
      <3> QED BY FreshFrom DEF Fresh
    <2>2. RatioFact(e).id = g.id
      <3>1. RatioFact(e) = [g EXCEPT !.start = NoDate]
        BY Zenon DEF RatioFact, NoPart
      <3> HIDE DEF g
      <3> QED BY <3>1
    <2> QED BY <2>1, <2>2
  <1>6. ASSUME NEW f \in G
        PROVE  \/ \E h \in old : f = Adjusted(h, After(h))
               \/ \E e \in SplitEvents(v) : f = RatioFact(e)
    BY <1>1, <1>2
  <1>7. OfKinds(G, {"adjusted", "ratio"})
    BY <1>4, <1>5, <1>6 DEF OfKinds, Fresh
  <1>8. ASSUME NEW f \in G, NEW g \in G, f.id = g.id PROVE f = g
    <2>1. CASE f.id[1] = "adjusted"
      <3>1. PICK h \in old : f = Adjusted(h, After(h))
        BY <1>5, <1>6, <2>1
      <3>2. PICK k \in old : g = Adjusted(k, After(k))
        BY <1>5, <1>6, <1>8, <2>1
      <3>3. h.metric = k.metric /\ h.label = k.label
        BY <1>4, <1>8, <3>1, <3>2 DEF Fresh
      <3>4. h.kind = k.kind /\ h.part = k.part
        BY <1>3 DEF Annotated, Whole
      <3>5. h = k
        BY <1>3, <3>3, <3>4 DEF CurrentAlone, Identity
      <3> QED BY <3>1, <3>2, <3>5
    <2>2. CASE f.id[1] # "adjusted"
      <3>1. PICK e \in SplitEvents(v) : f = RatioFact(e)
        BY <1>4, <1>6, <2>2 DEF Fresh
      <3>2. PICK k \in SplitEvents(v) : g = RatioFact(k)
        BY <1>4, <1>6, <1>8, <2>2 DEF Fresh
      <3>3. e.end = k.end
        BY <1>5, <1>8, <3>1, <3>2
      <3>4. e = k
        BY <3>3, EventsDiffer
      <3> QED BY <3>1, <3>2, <3>4
    <2> QED BY <2>1, <2>2
  <1> QED BY <1>7, <1>8 DEF Alone

\* A year to date and the one before it are of two fiscal years.
LEMMA TrailingAlone ==
    ASSUME NEW v, NEW d, NEW n \in Nat, Read(v, d, n), Orderly(v), NEW m \in DOMAIN Chain,
           NEW annual, NEW G, G = Trailing(v, m, annual)
    PROVE  Alone(G) /\ OfKinds(G, {"ttm", "ytd"}) /\ \A f \in G : f.id[2] = m
  <1> DEFINE concept == Chain[m][Min(PairConcepts(v, m))]
             cur == Longest(Current(v, concept))
             prior == Longest(Comparatives(v, concept))
             label == <<cur.fy, cur.fp>>
             ytd == YearToDate(m, cur, label)
             before == YearToDate(m, prior, <<cur.fy - 1, cur.fp>>)
             ins == {annual, ytd, before}
             sum == Derived("ttm", m, ins, annual.val + cur.val - prior.val,
                            IF Later(annual, cur) THEN annual.label ELSE label,
                            prior.end, cur.end)
             dated == [sum EXCEPT !.filed = cur.filed, !.accn = cur.accn, !.label = label]
             year == Derived("ttm", m, {annual}, annual.val, annual.label,
                             annual.start, annual.end)
  <1>1. \/ G = {year}
        \/ G = {}
        \/ PairConcepts(v, m) # {} /\ G = {ytd, before, dated}
    BY Zenon DEF Trailing
  <1>2. year.id[1] = "ttm" /\ year.id[2] = m
    BY FreshDerived DEF Fresh
  <1>3. dated.id[1] = "ttm" /\ dated.id[2] = m
    <2>1. sum.id[1] = "ttm" /\ sum.id[2] = m
      BY FreshDerived DEF Fresh
    <2> HIDE DEF sum
    <2>2. dated.id = sum.id
      OBVIOUS
    <2> QED BY <2>1, <2>2
  <1>4. /\ ytd.id[1] = "ytd" /\ ytd.id[2] = m /\ ytd.id[3] = <<cur.fy, cur.fp>>
        /\ before.id[1] = "ytd" /\ before.id[2] = m /\ before.id[3] = <<cur.fy - 1, cur.fp>>
    <2>1. \A e, l, f : f = YearToDate(m, e, l) => Fresh(f, "ytd", m, l)
      <3>1. \A e, l : YearToDate(m, e, l) = FactFrom("ytd", m, e, l, 0, NoPart)
        BY Zenon DEF YearToDate, NoPart
      <3> QED BY <3>1, FreshFrom
    <2> HIDE DEF cur, prior
    <2> QED BY <2>1 DEF Fresh
  <1>5. ASSUME PairConcepts(v, m) # {} PROVE cur.fy \in Int
    <2>1. concept \in Concepts /\ Current(v, concept) # {}
      <3>1. PairConcepts(v, m) \in SUBSET (DOMAIN Chain[m])
        BY DEF PairConcepts
      <3>2. Min(PairConcepts(v, m)) \in PairConcepts(v, m) /\ concept \in Concepts
        BY <1>5, <3>1, ChainConcepts
      <3> QED BY <3>2 DEF PairConcepts
    <2> HIDE DEF concept
    <2>2. \A e \in Current(v, concept) : e \in v.quarterly[concept]
      BY DEF Current
    <2>3. \A e \in Current(v, concept) : e.start \in 0 .. n /\ e.end \in 0 .. n
      BY <2>1, <2>2 DEF Read, Dated
    <2>4. cur \in v.quarterly[concept]
      BY <2>1, <2>2, <2>3, LongestIs
    <2> HIDE DEF cur
    <2> QED BY <2>1, <2>4 DEF Orderly
  <1> HIDE DEF cur, label, ytd, before, dated, year
  <1>6. CASE G = {} \/ G = {year}
    BY <1>2, <1>6 DEF Alone, OfKinds
  <1>7. CASE PairConcepts(v, m) # {} /\ G = {ytd, before, dated}
    <2>1. ytd.id # before.id /\ ytd.id # dated.id /\ before.id # dated.id
      BY <1>3, <1>4, <1>5, <1>7
    <2>2. Alone(G)
      BY <1>7, <2>1 DEF Alone
    <2> QED BY <1>3, <1>4, <1>7, <2>2 DEF OfKinds
  <1> QED BY <1>1, <1>6, <1>7

\* A trailing figure is told apart by its metric.
LEMMA TrailingsAlone ==
    ASSUME NEW v, NEW d, NEW n \in Nat, Read(v, d, n), Orderly(v), NEW A,
           NEW G, G = TrailingFacts(v, A)
    PROVE  Alone(G) /\ OfKinds(G, {"ttm", "ytd"})
  <1> DEFINE years(m) == {f \in A : f.kind = "filed" /\ f.metric = m /\ IsCurrent(f)}
             newest(m) == CHOOSE f \in years(m) : \A x \in years(m) : x.end <= f.end
             Of(m) == IF years(m) = {} THEN {} ELSE Trailing(v, m, newest(m))
  <1>1. G = UNION {Of(m) : m \in FlowMetrics}
    BY Zenon DEF TrailingFacts
  <1> HIDE DEF newest, years
  <1>2. ASSUME NEW m \in FlowMetrics
        PROVE  Alone(Of(m)) /\ OfKinds(Of(m), {"ttm", "ytd"}) /\ \A f \in Of(m) : f.id[2] = m
    <2>1. CASE Of(m) = {}
      BY <2>1 DEF Alone, OfKinds
    <2>2. CASE Of(m) = Trailing(v, m, newest(m))
      <3>1. m \in DOMAIN Chain
        BY ChainAssumption
      <3> QED BY <2>2, <3>1, TrailingAlone
    <2> QED BY <2>1, <2>2
  <1> HIDE DEF Of
  <1>3. ASSUME NEW f \in G, NEW g \in G, f.id = g.id PROVE f = g
    <2>1. PICK m \in FlowMetrics : f \in Of(m)
      BY <1>1
    <2>2. PICK k \in FlowMetrics : g \in Of(k)
      BY <1>1
    <2>3. m = k
      BY <1>2, <1>3, <2>1, <2>2
    <2> QED BY <1>2, <1>3, <2>1, <2>2, <2>3 DEF Alone
  <1>4. OfKinds(G, {"ttm", "ytd"})
    BY <1>1, <1>2 DEF OfKinds
  <1> QED BY <1>3, <1>4 DEF Alone

\* So an id names one fact of a run.
LEMMA FactsAlone ==
    ASSUME NEW v, NEW d, NEW n \in Nat, Read(v, d, n), Orderly(v)
    PROVE  Alone(Facts(v))
  <1> DEFINE A == AnnualFacts(v)
             S == SplitFacts(v, A)
             T == TrailingFacts(v, A)
  <1>1. Facts(v) = {} \/ Facts(v) = A \cup S \cup T
    BY DEF Facts
  <1>2. Alone(A) /\ CurrentAlone(A) /\ Annotated(A)
    <2>1. A = Link(AllYears(v))
      BY Zenon DEF AnnualFacts, AllYears, YearOf
    <2>2. Made(AllYears(v), d, n)
      BY AllYearsMade
    <2>3. Alone(AllYears(v)) /\ Unlinked(AllYears(v))
      BY AllYearsAlone
    <2> QED BY <2>1, <2>2, <2>3, LinkAlone
  <1> HIDE DEF A
  <1>3. /\ Alone(S) /\ OfKinds(S, {"adjusted", "ratio"})
        /\ Alone(T) /\ OfKinds(T, {"ttm", "ytd"})
    BY <1>2, SplitsAlone, TrailingsAlone
  <1>4. OfKinds(A, {"filed", "component"})
    BY <1>2 DEF Annotated, OfKinds
  <1> HIDE DEF S, T
  <1>5. ASSUME NEW f \in A \cup S \cup T, NEW g \in A \cup S \cup T, f.id = g.id PROVE f = g
    <2>1. (f \in A <=> g \in A) /\ (f \in S <=> g \in S) /\ (f \in T <=> g \in T)
      BY <1>3, <1>4, <1>5 DEF OfKinds
    <2> QED BY <1>2, <1>3, <1>5, <2>1 DEF Alone
  <1> QED BY <1>1, <1>5 DEF Alone

\* A filing is made once.
AccnsDiffer(p) == \A f, g \in p : f.accn = g.accn => f = g

\* What a run may read of a regular catalog is orderly.
LEMMA ReadableIsOrderly ==
    ASSUME RegularCatalog, NEW p \in SUBSET Catalog, AccnsDiffer(p), NEW d
    PROVE  Orderly(Readable(p, d))
  <1> DEFINE v == Readable(p, d)
             RowOf(e, f, r) ==
                 /\ e.concept = r.concept /\ e.start = r.start /\ e.end = r.end /\ e.val = r.val
                 /\ e.accn = f.accn /\ e.form = f.form /\ e.fy = f.fy /\ e.fp = f.fp
             MadeOf(f, r) == [concept |-> r.concept, start |-> r.start, end |-> r.end,
                              val |-> r.val, accn |-> f.accn, form |-> f.form, filed |-> f.filed,
                              fy |-> f.fy, fp |-> f.fp]
  <1>1. /\ \A c \in Concepts : v.annual[c] = AnnualEntries(p, c, d)
        /\ \A c \in Concepts : v.quarterly[c] = QuarterEntries(p, c, d)
        /\ v.splits = SplitRows(p, d)
    BY DEF Readable
  <1>2. \A e \in Rows(p) : \E f \in p : \E r \in f.rows : e = MadeOf(f, r)
    BY Zenon DEF Rows
  <1>3. \A e, f, r : e = MadeOf(f, r) => RowOf(e, f, r)
    OBVIOUS
  <1> HIDE DEF v, MadeOf
  <1>4. ASSUME NEW c \in Concepts, NEW e \in v.annual[c]
        PROVE  \E f \in p : \E r \in AnnualRows(f) : e = MadeOf(f, r) /\ r.concept = c
    <2>1. /\ e \in Rows(p) /\ e.concept = c /\ e.form \in AnnualForms /\ e.fp = 0
          /\ e.start # NoDate => IsAnnualDuration(e.start, e.end)
      BY <1>1 DEF AnnualEntries
    <2>2. PICK f, r : f \in p /\ r \in f.rows /\ e = MadeOf(f, r)
      BY <1>2, <2>1
    <2>3. RowOf(e, f, r)
      BY <1>3, <2>2
    <2>4. r \in AnnualRows(f) /\ r.concept = c
      BY <2>1, <2>2, <2>3 DEF AnnualRows
    <2> QED BY <2>2, <2>4
  <1>5. ASSUME NEW c \in Concepts, NEW x \in v.annual[c] PROVE x.accn # 0 /\ x.fy \in Int
    <2>1. PICK f \in p : \E r \in AnnualRows(f) : x = MadeOf(f, r) /\ r.concept = c
      BY <1>4
    <2>2. x.accn = f.accn /\ x.fy = f.fy /\ f \in Catalog
      BY <1>3, <2>1
    <2> QED BY <2>2, CatalogAssumption
  <1>6. ASSUME NEW c \in Concepts, NEW x \in v.annual[c], NEW y \in v.annual[c],
               x.end = y.end, x.accn = y.accn
        PROVE  x = y
    <2>1. PICK f, r : f \in p /\ r \in AnnualRows(f) /\ x = MadeOf(f, r) /\ r.concept = c
      BY <1>4
    <2>2. PICK g, s : g \in p /\ s \in AnnualRows(g) /\ y = MadeOf(g, s) /\ s.concept = c
      BY <1>4
    <2>3. f = g
      BY <1>3, <1>6, <2>1, <2>2 DEF AccnsDiffer
    <2>4. r.concept = s.concept /\ r.end = s.end
      BY <1>3, <1>6, <2>1, <2>2
    <2>5. f \in Catalog /\ r \in AnnualRows(f) /\ s \in AnnualRows(f)
      BY <2>1, <2>2, <2>3
    <2>6. r = s
      BY <2>4, <2>5 DEF RegularCatalog
    <2> QED BY <2>1, <2>2, <2>3, <2>6
  <1>7. ASSUME NEW c \in Concepts, NEW x \in v.quarterly[c] PROVE x.fy \in Int
    <2>1. x \in Rows(p)
      BY <1>1 DEF QuarterEntries
    <2>2. PICK f \in p : \E r \in f.rows : x = MadeOf(f, r)
      BY <1>2, <2>1
    <2>3. x.fy = f.fy /\ f \in Catalog
      BY <1>3, <2>2
    <2> QED BY <2>3, CatalogAssumption
  <1>8. ASSUME NEW x \in v.splits, NEW y \in v.splits, x.end = y.end PROVE x.val = y.val
    <2> DEFINE splits == {r \in UNION {f.rows : f \in Catalog} :
                             r.concept \in SplitConcepts /\ r.val >= 2}
    <2>1. ASSUME NEW e \in v.splits PROVE \E r \in splits : e.end = r.end /\ e.val = r.val
      <3>1. e \in Rows(p) /\ e.concept \in SplitConcepts /\ e.val >= 2
        BY <1>1 DEF SplitRows
      <3>2. PICK f, r : f \in p /\ r \in f.rows /\ e = MadeOf(f, r)
        BY <1>2, <3>1
      <3>3. RowOf(e, f, r)
        BY <1>3, <3>2
      <3>4. r \in splits
        BY <3>1, <3>2, <3>3
      <3> QED BY <3>3, <3>4
    <2>2. \A r, s \in splits : r.end = s.end => r.val = s.val
      BY Zenon DEF RegularCatalog
    <2> HIDE DEF splits
    <2> QED BY <1>8, <2>1, <2>2
  <1>9. \A x \in AnnualEnds(v) : x \in YearEnds
    <2> SUFFICES ASSUME NEW e \in AnchorRows(v) PROVE e.end \in YearEnds
      BY DEF AnnualEnds
    <2>1. PICK m \in Anchors : \E c \in ConceptsOf(m) : e \in v.annual[c] /\ e.start # NoDate
      BY DEF AnchorRows
    <2>2. PICK c \in ConceptsOf(m) : e \in v.annual[c] /\ e.start # NoDate
      BY <2>1
    <2>3. c \in Concepts
      BY ChainAssumption DEF Concepts
    <2>4. PICK f, r : f \in p /\ r \in AnnualRows(f) /\ e = MadeOf(f, r) /\ r.concept = c
      BY <1>4, <2>2, <2>3
    <2>5. r.start # NoDate /\ r.end = e.end /\ f \in Catalog
      BY <1>3, <2>2, <2>4
    <2> QED BY <2>4, <2>5 DEF YearEnds
  <1>10. \A a, b, c \in AnnualEnds(v) :
            a # b /\ a <= c /\ b <= c => ElapsedYears(c - a) # ElapsedYears(c - b)
    BY <1>9, Zenon DEF RegularCatalog
  <1>11. Orderly(v)
    BY <1>5, <1>6, <1>7, <1>8, <1>10 DEF Orderly
  <1> QED BY <1>11 DEF v

\* A filing is made once, since it must have an accession no other has.
LEMMA FilingsDiffer ==
    AccnsDiffer(made) /\ [HistoryNext]_history => AccnsDiffer(made)'
  <1> SUFFICES ASSUME AccnsDiffer(made), [HistoryNext]_history PROVE AccnsDiffer(made')
    BY DEF AccnsDiffer
  <1>1. ASSUME NEW f \in Catalog, File(f) PROVE AccnsDiffer(made')
    <2>1. made' = made \cup {f} /\ \A g \in made : g.accn # f.accn
      BY <1>1 DEF File
    <2> QED BY <2>1 DEF AccnsDiffer
  <1>2. CASE UNCHANGED history
    BY <1>2 DEF history, AccnsDiffer
  <1> QED BY <1>1, <1>2 DEF HistoryNext

\* Every fact of every run can be cited by its id alone, if the reports are regular: were a
\* period reported twice by one report under one concept, or two year ends equally many years
\* back, two facts would share an id (normalize/periods.py, restatements.py, ids.py).
THEOREM FactsAreCitable == RegularCatalog => (HistorySpec => []Citable)
  <1> SUFFICES ASSUME RegularCatalog PROVE HistorySpec => []Citable
    OBVIOUS
  <1>1. ViewsAreCurrent /\ AccnsDiffer(made) => Citable
    <2> SUFFICES ASSUME ViewsAreCurrent, AccnsDiffer(made), NEW d \in Views
                 PROVE  Alone(seen[d].facts)
      BY DEF Citable, Alone
    <2>1. PICK n \in Nat : \A f \in Catalog :
              /\ f.filed \in 0 .. n /\ f.accn \in 0 .. n
              /\ \A r \in f.rows : r.start \in 0 .. n /\ r.end \in 0 .. n
      BY CatalogBound
    <2>2. Read(Readable(made, d), d, n) /\ Orderly(Readable(made, d))
      BY <2>1, ReadableIs, ReadableIsOrderly DEF ViewsAreCurrent
    <2>3. seen[d].facts = Facts(Readable(made, d))
      BY DEF ViewsAreCurrent, SeenBy
    <2> QED BY <2>2, <2>3, FactsAlone
  <1>2. HistoryInit => AccnsDiffer(made)
    BY DEF HistoryInit, AccnsDiffer
  <1> QED BY <1>1, <1>2, FilingsDiffer, ViewsStart, ViewsStep, PTL DEF HistorySpec

-----------------------------------------------------------------------------
(* Sequences.                                                              *)

\* The numbers of ids, smallest first.
Ascending(s, ids) ==
    /\ s \in [1 .. Cardinality(ids) -> ids]
    /\ \A i, j \in DOMAIN s : i < j => s[i] < s[j]

\* A set of numbers up to n can be put in order: by the least n for which one cannot.
LEMMA InOrderExists ==
    ASSUME NEW n \in Nat
    PROVE  \A ids \in SUBSET (1 .. n) : \E s : Ascending(s, ids)
  <1> DEFINE Bad == {m \in Nat : ~(\A ids \in SUBSET (1 .. m) : \E s : Ascending(s, ids))}
  <1>1. SUFFICES ASSUME Bad # {} PROVE FALSE
    OBVIOUS
  <1>2. PICK m \in Bad : \A k \in Bad : m <= k
    BY <1>1, LeastOf
  <1>3. PICK ids \in SUBSET (1 .. m) : \A s : ~Ascending(s, ids)
    OBVIOUS
  <1>4. m # 0
    <2>1. SUFFICES ASSUME m = 0 PROVE FALSE
      OBVIOUS
    <2>2. ids = {}
      BY <2>1
    <2>3. Cardinality(ids) = 0
      BY <2>2, FS_EmptySet
    <2>4. Ascending([i \in 1 .. 0 |-> 0], ids)
      BY <2>2, <2>3 DEF Ascending
    <2> QED BY <2>4, <1>3
  <1>5. m - 1 \in Nat /\ m - 1 \notin Bad
    BY <1>2, <1>4
  <1>6. \A js \in SUBSET (1 .. m - 1) : \E s : Ascending(s, js)
    BY <1>5
  <1> HIDE DEF Bad
  <1>7. m \in Nat
    BY DEF Bad
  <1>8. m \in ids
    <2>1. m \notin ids => ids \subseteq 1 .. m - 1
      BY <1>5, <1>7
    <2> QED BY <2>1, <1>6, <1>3
  <1>9. PICK r : Ascending(r, ids \ {m})
    <2>1. ids \ {m} \subseteq 1 .. m - 1
      BY <1>5, <1>7
    <2> QED BY <2>1, <1>6
  <1>10. IsFiniteSet(ids)
    <2>1. IsFiniteSet(1 .. m)
      BY <1>7, FS_Interval
    <2> QED BY <2>1, FS_Subset
  <1> DEFINE c == Cardinality(ids)
  <1>11. c \in Nat /\ c > 0 /\ Cardinality(ids \ {m}) = c - 1
    <2>1. c \in Nat
      BY <1>10, FS_CardinalityType
    <2>2. c # 0
      BY <1>8, <1>10, FS_EmptySet
    <2>3. Cardinality(ids \ {m}) = c - 1
      BY <1>8, <1>10, FS_RemoveElement
    <2> HIDE DEF c
    <2> QED BY <2>1, <2>2, <2>3
  <1> DEFINE s == [i \in 1 .. c |-> IF i = c THEN m ELSE r[i]]
  <1> HIDE DEF c
  <1>12. \A i \in 1 .. c - 1 : r[i] \in ids \ {m} /\ r[i] < m /\ r[i] \in Nat
    <2>1. r \in [1 .. c - 1 -> ids \ {m}]
      BY <1>9, <1>11 DEF Ascending
    <2>2. \A x \in ids \ {m} : x < m /\ x \in Nat
      BY <1>7
    <2> QED BY <2>1, <2>2
  <1>13. \A i, j \in 1 .. c - 1 : i < j => r[i] < r[j]
    BY <1>9, <1>11 DEF Ascending
  <1>14. s \in [1 .. c -> ids]
    BY <1>12, <1>8, <1>11
  <1>15. \A i, j \in 1 .. c : i < j => s[i] < s[j]
    BY <1>12, <1>13, <1>11
  <1>16. Ascending(s, ids)
    BY <1>14, <1>15 DEF Ascending, c
  <1> QED BY <1>16, <1>3

\* What is picked in order is picked from the set.
LEMMA InOrderPicks ==
    ASSUME NEW n \in Nat, NEW ids \in SUBSET (1 .. n)
    PROVE  /\ Cardinality(ids) \in Nat
           /\ InOrder(ids) \in [1 .. Cardinality(ids) -> ids]
  <1>1. \E s \in [1 .. Cardinality(ids) -> ids] : \A i, j \in DOMAIN s : i < j => s[i] < s[j]
    BY InOrderExists DEF Ascending
  <1>2. InOrder(ids) \in [1 .. Cardinality(ids) -> ids]
    BY <1>1 DEF InOrder
  <1>3. IsFiniteSet(ids)
    <2>1. IsFiniteSet(1 .. n)
      BY FS_Interval
    <2> QED BY <2>1, FS_Subset
  <1> QED BY <1>2, <1>3, FS_CardinalityType

\* Flattening adds nothing.
Chained(ss, n, f) ==
    f = [i \in 1 .. n |-> IF i = 1 THEN ss[i] ELSE f[i - 1] \o ss[i]]

\* The recursive function FlattenSeq is defined by: by the least length without one.
LEMMA ChainExists ==
    ASSUME NEW S, NEW ss \in Seq(Seq(S))
    PROVE  \A n \in Nat : n <= Len(ss) => \E f : Chained(ss, n, f)
  <1> DEFINE Bad == {m \in Nat : m <= Len(ss) /\ ~\E f : Chained(ss, m, f)}
  <1>1. SUFFICES ASSUME Bad # {} PROVE FALSE
    OBVIOUS
  <1>2. PICK m \in Bad : \A k \in Bad : m <= k
    BY <1>1, LeastOf
  <1>3. m # 0
    <2>1. Chained(ss, 0, [i \in 1 .. 0 |-> 0])
      BY DEF Chained
    <2> QED BY <2>1
  <1>4. PICK f : Chained(ss, m - 1, f)
    <2>1. Len(ss) \in Nat /\ m \in Nat /\ m <= Len(ss)
      OBVIOUS
    <2>2. m - 1 \in Nat /\ m - 1 <= Len(ss)
      BY <1>3, <2>1
    <2>3. m - 1 \notin Bad
      <3> HIDE DEF Bad
      <3> QED BY <1>2, <2>1
    <2> QED BY <2>2, <2>3
  <1>5. m \in Nat \ {0} /\ ~\E g : Chained(ss, m, g)
    BY <1>3
  <1> HIDE DEF Bad
  <1> DEFINE g == [i \in 1 .. m |->
                    IF i = m THEN (IF m = 1 THEN ss[1] ELSE f[m - 1] \o ss[m]) ELSE f[i]]
  <1>6. ASSUME NEW i \in 1 .. m PROVE g[i] = IF i = 1 THEN ss[i] ELSE g[i - 1] \o ss[i]
    <2>1. CASE i = m
      BY <1>5, <2>1
    <2>2. CASE i # m
      <3>1. i \in 1 .. m - 1 /\ (i # 1 => i - 1 \in 1 .. m - 1 /\ i - 1 # m)
        BY <1>5, <2>2
      <3>2. f[i] = IF i = 1 THEN ss[i] ELSE f[i - 1] \o ss[i]
        BY <1>4, <3>1 DEF Chained
      <3> QED BY <3>1, <3>2, <2>2, <1>5
    <2> QED BY <2>1, <2>2
  <1>7. g = [i \in 1 .. m |-> IF i = 1 THEN ss[i] ELSE g[i - 1] \o ss[i]]
    BY <1>6
  <1>8. Chained(ss, m, g)
    BY <1>7 DEF Chained
  <1> QED BY <1>8, <1>5

\* Each of its values is a sequence over S.
LEMMA ChainStays ==
    ASSUME NEW S, NEW ss \in Seq(Seq(S)), NEW f, Chained(ss, Len(ss), f)
    PROVE  \A n \in 1 .. Len(ss) : f[n] \in Seq(S)
  <1> DEFINE Bad == {m \in 1 .. Len(ss) : f[m] \notin Seq(S)}
  <1>1. SUFFICES ASSUME Bad # {} PROVE FALSE
    OBVIOUS
  <1>2. PICK m \in Bad : \A k \in Bad : m <= k
    <2>1. Bad \in SUBSET Nat
      BY LenProperties
    <2> HIDE DEF Bad
    <2> QED BY <1>1, <2>1, LeastOf
  <1>3. m \in 1 .. Len(ss) /\ f[m] \notin Seq(S)
    OBVIOUS
  <1>4. m # 1 => f[m - 1] \in Seq(S) /\ m - 1 \in 1 .. Len(ss)
    BY <1>2, <1>3
  <1> HIDE DEF Bad
  <1>5. f[m] = IF m = 1 THEN ss[m] ELSE f[m - 1] \o ss[m]
    BY <1>3 DEF Chained
  <1>6. ss[m] \in Seq(S)
    BY <1>3
  <1> QED BY <1>3, <1>4, <1>5, <1>6, ConcatProperties

\* Sequences over S are flattened to a sequence over S.
LEMMA FlattenStays ==
    ASSUME NEW S, NEW ss \in Seq(Seq(S))
    PROVE  FlattenSeq(ss) \in Seq(S)
  <1>1. CASE Len(ss) = 0
    <2>1. ss = <<>>
      BY <1>1
    <2>2. FlattenSeq(ss) = ss
      BY <1>1 DEF FlattenSeq
    <2> QED BY <2>1, <2>2, EmptySeq
  <1>2. CASE Len(ss) # 0
    <2>1. Len(ss) \in 1 .. Len(ss)
      BY <1>2
    <2> DEFINE f == CHOOSE g : Chained(ss, Len(ss), g)
    <2>2. Chained(ss, Len(ss), f)
      BY ChainExists
    <2>3. FlattenSeq(ss) = f[Len(ss)]
      BY <1>2 DEF FlattenSeq, Chained
    <2> HIDE DEF f
    <2> QED BY <2>1, <2>2, <2>3, ChainStays
  <1> QED BY <1>1, <1>2

-----------------------------------------------------------------------------
(* What is fetched.                                                        *)

\* A fetched section is a text, and the only one of its source.
FetchedOK ==
    /\ DOMAIN fetched = 1 .. Len(fetched)
    /\ \A s \in Range(fetched) : s.text \in Seq(Range(s.text))
    /\ \A s, t \in Range(fetched) : s.source_id = t.source_id => s = t

\* A prefix of a text is a text of its sentences.
LEMMA FirstOfIsASeq ==
    ASSUME NEW t, t \in Seq(Range(t)), NEW n \in Nat
    PROVE  FirstOf(t, n) \in Seq(Range(t))
  <1> DEFINE m == Min({n, Len(t)})
  <1>1. Len(t) \in Nat /\ \A k \in 1 .. Len(t) : t[k] \in Range(t)
    BY LenProperties DEF Range
  <1>2. m \in {n, Len(t)} /\ m <= Len(t)
    <2>1. \E x \in {n, Len(t)} : \A y \in {n, Len(t)} : x <= y
      BY <1>1
    <2> QED BY <2>1, <1>1 DEF Min
  <1>3. \A k \in 1 .. m : t[k] \in Range(t)
    BY <1>1, <1>2
  <1>4. m \in Int
    BY <1>1, <1>2
  <1> HIDE DEF m
  <1>5. SubSeq(t, 1, m) \in Seq(Range(t))
    BY <1>3, <1>4, SubSeqProperties
  <1> QED BY <1>5 DEF FirstOf, m

\* The section a fixture id names.
LEMMA GotSection ==
    ASSUME extracted.sections = Fixture, NEW j \in DOMAIN Fixture
    PROVE  LET g == GetSection(Fixture[j].section_id)
           IN  /\ g = [Fixture[j] EXCEPT !.text = FirstOf(@, MaxSection)]
               /\ g.source_id = Fixture[j].source_id
               /\ g.text \in Seq(Range(g.text))
  <1> DEFINE id == Fixture[j].section_id
             s == CHOOSE i \in DOMAIN Fixture : Fixture[i].section_id = id
             g == [Fixture[j] EXCEPT !.text = FirstOf(@, MaxSection)]
  <1>1. s \in DOMAIN Fixture /\ Fixture[s].section_id = id
    OBVIOUS
  <1>2. Fixture[s] \in Range(Fixture) /\ Fixture[j] \in Range(Fixture)
    BY <1>1 DEF Range
  <1>3. Fixture[s] = Fixture[j]
    BY <1>1, <1>2, EvidenceAssumption
  <1>4. GetSection(id) = [Fixture[s] EXCEPT !.text = FirstOf(@, MaxSection)]
    BY DEF GetSection
  <1>5. GetSection(id) = g
    BY <1>3, <1>4
  <1>6. DOMAIN Fixture[j] = {"item", "section_id", "source_id", "text"}
    BY <1>2, EvidenceAssumption
  <1>7. g.source_id = Fixture[j].source_id /\ g.text = FirstOf(Fixture[j].text, MaxSection)
    BY <1>6
  <1>8. g.text \in Seq(Range(g.text))
    <2>1. Fixture[j].text \in Seq(Range(Fixture[j].text)) /\ MaxSection \in Nat
      BY <1>2, EvidenceAssumption
    <2>2. FirstOf(Fixture[j].text, MaxSection) \in Seq(Range(Fixture[j].text))
      BY <2>1, FirstOfIsASeq
    <2> QED BY <2>2, <1>7, SeqOfRange
  <1> QED BY <1>5, <1>7, <1>8

\* The ids a search answers with name fixture sections, or there are none.
LEMMA IdsFound ==
    ASSUME case.backend # "live" => extracted.sections = Fixture
    PROVE  /\ SectionIds \in Seq(Range(SectionIds))
           /\ case.backend = "live" => SectionIds = <<>>
           /\ \A i \in DOMAIN SectionIds :
                 \E j \in DOMAIN Fixture : SectionIds[i] = Fixture[j].section_id
  <1> DEFINE ss == [f \in DOMAIN SearchFilings |-> SearchFilings[f].section_ids]
  <1>1. CASE case.backend = "live"
    <2> DEFINE row == [section_ids |-> <<>>]
    <2>1. \E r : SearchFilings = FirstOf(<<r>>, 0)
      BY <1>1, Zenon DEF SearchFilings
    <2>2. PICK r : SearchFilings = FirstOf(<<r>>, 0)
      BY <2>1
    <2>3. Min({0, Len(<<r>>)}) = 0
      <3>1. Len(<<r>>) = 1
        OBVIOUS
      <3> QED BY <3>1 DEF Min
    <2>4. SearchFilings = <<>>
      BY <2>2, <2>3, SubSeqEmpty DEF FirstOf
    <2>5. ss = <<>>
      BY <2>4
    <2>6. FlattenSeq(ss) = <<>>
      BY <2>5 DEF FlattenSeq
    <2> QED BY <2>6, EmptySeq DEF SectionIds
  <1>2. CASE case.backend # "live"
    <2> DEFINE ids == [i \in DOMAIN Fixture |-> Fixture[i].section_id]
               S == {Fixture[i].section_id : i \in DOMAIN Fixture}
    <2>1. SearchFilings = <<[section_ids |-> ids]>>
      BY <1>2 DEF SearchFilings
    <2>2. DOMAIN Fixture = 1 .. Len(Fixture) /\ Len(Fixture) \in Nat
      BY EvidenceAssumption, LenProperties
    <2>3. ids \in Seq(S)
      BY <2>2
    <2>4. ss = <<ids>>
      BY <2>1
    <2> HIDE DEF ids, S, ss
    <2>5. ss \in Seq(Seq(S))
      BY <2>3, <2>4
    <2>6. SectionIds \in Seq(S)
      BY <2>5, FlattenStays DEF SectionIds, ss
    <2>7. \A i \in DOMAIN SectionIds : SectionIds[i] \in S
      BY <2>6, LenProperties
    <2> QED BY <2>6, <2>7, <1>2, SeqOfRange DEF S
  <1> QED BY <1>1, <1>2

\* Ingest fetches fixture sections only, those of a live filing not being found.
LEMMA IngestFetches ==
    ASSUME case.backend # "live" => extracted.sections = Fixture, Ingest
    PROVE  FetchedOK'
  <1> DEFINE ids == {i \in DOMAIN SectionIds : SectionIds[i][2] \in ItemsNeeded}
             wanted == InOrder(ids)
             n == Cardinality(ids)
  <1>1. fetched' = [k \in DOMAIN wanted |-> GetSection(SectionIds[wanted[k]])]
    BY DEF Ingest
  <1>2. DOMAIN SectionIds = 1 .. Len(SectionIds) /\ Len(SectionIds) \in Nat
    BY IdsFound, LenProperties
  <1>3. ids \in SUBSET (1 .. Len(SectionIds))
    BY <1>2
  <1> HIDE DEF ids
  <1>4. n \in Nat /\ wanted \in [1 .. n -> ids]
    BY <1>2, <1>3, InOrderPicks
  <1> HIDE DEF wanted, n
  <1>5. fetched' = [k \in 1 .. n |-> GetSection(SectionIds[wanted[k]])]
    BY <1>1, <1>4
  <1>6. ASSUME NEW s \in Range(fetched')
        PROVE  /\ extracted.sections = Fixture
               /\ \E j \in DOMAIN Fixture : s = GetSection(Fixture[j].section_id)
    <2>1. PICK k \in 1 .. n : s = GetSection(SectionIds[wanted[k]])
      BY <1>5 DEF Range
    <2>2. wanted[k] \in DOMAIN SectionIds
      BY <1>3, <1>4, <1>2
    <2>3. SectionIds # <<>>
      BY <2>2
    <2> QED BY <2>1, <2>2, <2>3, IdsFound
  <1>7. \A s \in Range(fetched') : s.text \in Seq(Range(s.text))
    BY <1>6, GotSection
  <1>8. ASSUME NEW s \in Range(fetched'), NEW t \in Range(fetched'), s.source_id = t.source_id
        PROVE  s = t
    <2>1. PICK j \in DOMAIN Fixture : s = GetSection(Fixture[j].section_id)
      BY <1>6
    <2>2. PICK k \in DOMAIN Fixture : t = GetSection(Fixture[k].section_id)
      BY <1>6
    <2>3. extracted.sections = Fixture
      BY <1>6
    <2>4. Fixture[j].source_id = Fixture[k].source_id
      BY <1>8, <2>1, <2>2, <2>3, GotSection
    <2>5. Fixture[j] = Fixture[k]
      BY <2>4, EvidenceAssumption DEF Range
    <2> QED BY <2>1, <2>2, <2>5
  <1>9. DOMAIN fetched' = 1 .. Len(fetched')
    BY <1>5, <1>4
  <1> QED BY <1>7, <1>8, <1>9 DEF FetchedOK

-----------------------------------------------------------------------------
(* What an agent is shown, and what it may quote of it.                    *)

\* The claims are a sequence, and what each quotes is one.
ClaimsOK ==
    /\ claims \in Seq(Range(claims))
    /\ \A c \in Range(claims) : c.quote \in Seq(Range(c.quote))

\* A verbatim quote is made of the sentences of the text.
LEMMA QuoteIsOfText ==
    ASSUME NEW S, NEW text \in Seq(S), NEW q, q \in Seq(Range(q)), Verbatim(q, text)
    PROVE  Range(q) \subseteq S
  <1>1. PICK i \in 0 .. Len(text) - Len(q) : SubSeq(text, i + 1, i + Len(q)) = q
    BY DEF Verbatim
  <1>2. Len(text) \in Nat /\ Len(q) \in Nat /\ DOMAIN q = 1 .. Len(q)
    BY LenProperties
  <1>3. \A k \in (i + 1) .. (i + Len(q)) : text[k] \in S
    BY <1>1, <1>2
  <1>4. q \in Seq(S)
    <2>1. i + 1 \in Int /\ i + Len(q) \in Int
      BY <1>2
    <2>2. SubSeq(text, i + 1, i + Len(q)) \in Seq(S)
      BY <1>3, <2>1, SubSeqProperties
    <2> QED BY <1>1, <2>2
  <1> QED BY <1>4, RangeOfSeq

\* The synthesizer is shown sentences of the quotes of one source only.
LEMMA QuotedIsQuotes ==
    ASSUME ClaimsOK, NEW source
    PROVE  Quoted(source) \in Seq(UNION {Range(claims[j].quote) :
                                        j \in {k \in DOMAIN claims : claims[k].source_id = source}})
  <1> DEFINE own == {k \in DOMAIN claims : claims[k].source_id = source}
             ids == {i \in own : \A j \in own : j < i => claims[j].quote # claims[i].quote}
             once == InOrder(ids)
             n == Cardinality(ids)
             S == UNION {Range(claims[j].quote) : j \in own}
             ss == [k \in DOMAIN once |-> claims[once[k]].quote]
  <1>1. DOMAIN claims = 1 .. Len(claims) /\ Len(claims) \in Nat
    BY LenProperties DEF ClaimsOK
  <1>2. ids \in SUBSET (1 .. Len(claims)) /\ ids \subseteq own
    BY <1>1
  <1>3. \A j \in own : claims[j].quote \in Seq(S)
    <2> SUFFICES ASSUME NEW j \in own PROVE claims[j].quote \in Seq(S)
      OBVIOUS
    <2>1. claims[j].quote \in Seq(Range(claims[j].quote))
      BY DEF ClaimsOK, Range
    <2>2. Range(claims[j].quote) \subseteq S
      OBVIOUS
    <2> QED BY <2>1, <2>2, SeqMonotonic
  <1>4. Quoted(source) = FlattenSeq(ss)
    BY Zenon DEF Quoted
  <1> HIDE DEF ids
  <1>5. n \in Nat /\ once \in [1 .. n -> ids]
    BY <1>1, <1>2, InOrderPicks
  <1> HIDE DEF once, n
  <1>6. ss = [k \in 1 .. n |-> claims[once[k]].quote]
    BY <1>5
  <1>7. \A k \in 1 .. n : claims[once[k]].quote \in Seq(S)
    BY <1>5, <1>2, <1>3
  <1> HIDE DEF ss, S
  <1>8. ss \in Seq(Seq(S))
    BY <1>5, <1>6, <1>7
  <1> QED BY <1>4, <1>8, FlattenStays DEF S

\* QuotesAreTheSections, of one claim about to be merged.
QuoteSound(c) ==
    LET source == {s \in Range(fetched) : s.source_id = c.source_id}
    IN  /\ Range(c.quote) \cap Instructions = {}
        /\ \E s \in source : Range(c.quote) \subseteq Range(s.text) \cup {Removed}
        /\ c.by # "synthesizer" => \E s \in source : s.item \in ItemsOf[c.by]
        /\ c.by = "synthesizer" =>
              \A q \in Range(c.quote) :
                  \E j \in DOMAIN claims : /\ claims[j].source_id = c.source_id
                                           /\ q \in Range(claims[j].quote)

\* An agent that reads the filing
LEMMA ReaderQuotes ==
    ASSUME FetchedOK, Agent # "synthesizer", NEW f,
           f.quote \in Seq(Range(f.quote)), VerifiedEvidence(f)
    PROVE  \E s \in Range(fetched) :
              /\ s.source_id = f.source_id /\ s.item \in ItemsOf[Agent]
              /\ Range(f.quote) \subseteq (Range(s.text) \ Instructions) \cup {Removed}
  <1> DEFINE mine == {s \in Range(fetched) : s.item \in ItemsOf[Agent]}
             of(source) == CHOOSE s \in mine : s.source_id = source
             docs == [source \in {s.source_id : s \in mine} |-> Neutralize(of(source).text)]
  <1>1. Docs = docs
    BY Zenon DEF Docs
  <1>2. f.source_id \in {s.source_id : s \in mine} /\ Verbatim(f.quote, docs[f.source_id])
    BY <1>1 DEF VerifiedEvidence
  <1> DEFINE s == of(f.source_id)
             S == (Range(s.text) \ Instructions) \cup {Removed}
  <1>3. s \in mine /\ s.source_id = f.source_id
    BY <1>2
  <1>4. Verbatim(f.quote, Neutralize(s.text))
    BY <1>2
  <1> HIDE DEF s
  <1>5. s.text \in Seq(Range(s.text))
    BY <1>3 DEF FetchedOK
  <1>6. Neutralize(s.text) \in Seq(S)
    <2>1. DOMAIN s.text = 1 .. Len(s.text) /\ Len(s.text) \in Nat
      BY <1>5, LenProperties
    <2>2. \A k \in 1 .. Len(s.text) :
             (IF s.text[k] \in Instructions THEN Removed ELSE s.text[k]) \in S
      BY <2>1 DEF Range
    <2> HIDE DEF S
    <2> QED BY <2>1, <2>2 DEF Neutralize
  <1>7. Range(f.quote) \subseteq S
    <2> HIDE DEF S
    <2> QED BY <1>4, <1>6, QuoteIsOfText
  <1> QED BY <1>3, <1>7

\* What the synthesizer quotes was quoted before, of the same source.
LEMMA SynthesizerQuotes ==
    ASSUME ClaimsOK, Agent = "synthesizer", NEW f,
           f.quote \in Seq(Range(f.quote)), VerifiedEvidence(f)
    PROVE  /\ \E c \in Range(claims) : c.source_id = f.source_id
           /\ \A q \in Range(f.quote) :
                 \E j \in DOMAIN claims : /\ claims[j].source_id = f.source_id
                                          /\ q \in Range(claims[j].quote)
  <1> DEFINE docs == [source \in {c.source_id : c \in EvidencePool} |-> Quoted(source)]
             own == {k \in DOMAIN claims : claims[k].source_id = f.source_id}
             S == UNION {Range(claims[j].quote) : j \in own}
  <1>1. Docs = docs
    BY Zenon DEF Docs
  <1>2. f.source_id \in {c.source_id : c \in EvidencePool} /\ Verbatim(f.quote, Quoted(f.source_id))
    BY <1>1 DEF VerifiedEvidence
  <1>3. Quoted(f.source_id) \in Seq(S)
    BY QuotedIsQuotes
  <1>4. Range(f.quote) \subseteq S
    <2> HIDE DEF S
    <2> QED BY <1>2, <1>3, QuoteIsOfText
  <1>5. \A c \in EvidencePool : c \in Range(claims)
    BY DEF EvidencePool, ToSet, Range
  <1> QED BY <1>2, <1>4, <1>5

\* The quotes of the merged claims.
QuotesHold == \A i \in DOMAIN claims : QuoteSound(claims[i])

\* A finding that is kept makes a claim with a sound quote: a sentence handed on by a
\* claim is one of the section that claim quoted, and a source has one section.
LEMMA KeptQuotes ==
    ASSUME FetchedOK, ClaimsOK, QuotesHold, NEW f, f.quote \in Seq(Range(f.quote)), KeepFinding(f)
    PROVE  QuoteSound(ClaimOf(f))
  <1> DEFINE c == ClaimOf(f)
  <1>1. VerifiedEvidence(f)
    BY DEF KeepFinding
  <1>2. c.by = Agent /\ c.source_id = f.source_id /\ c.quote = f.quote
    BY DEF ClaimOf
  <1> HIDE DEF c
  <1>3. Removed \notin Instructions
    BY EvidenceAssumption
  <1>4. CASE Agent # "synthesizer"
    <2>1. PICK s \in Range(fetched) :
              /\ s.source_id = f.source_id /\ s.item \in ItemsOf[Agent]
              /\ Range(f.quote) \subseteq (Range(s.text) \ Instructions) \cup {Removed}
      BY <1>1, <1>4, ReaderQuotes
    <2> QED BY <2>1, <1>2, <1>3, <1>4 DEF QuoteSound, c
  <1>5. CASE Agent = "synthesizer"
    <2>1. \A q \in Range(f.quote) : \E j \in DOMAIN claims : /\ claims[j].source_id = f.source_id
                                                         /\ q \in Range(claims[j].quote)
      BY <1>1, <1>5, SynthesizerQuotes
    <2>2. PICK k \in DOMAIN claims : claims[k].source_id = f.source_id
      BY <1>1, <1>5, SynthesizerQuotes DEF Range
    <2>3. PICK s \in Range(fetched) : s.source_id = f.source_id
      BY <2>2 DEF QuotesHold, QuoteSound
    <2>4. ASSUME NEW q \in Range(f.quote)
          PROVE  q \notin Instructions /\ q \in Range(s.text) \cup {Removed}
      <3>1. PICK j \in DOMAIN claims :
                claims[j].source_id = f.source_id /\ q \in Range(claims[j].quote)
        BY <2>1
      <3>2. QuoteSound(claims[j])
        BY DEF QuotesHold
      <3>3. PICK t \in Range(fetched) :
                /\ t.source_id = f.source_id
                /\ Range(claims[j].quote) \subseteq Range(t.text) \cup {Removed}
        BY <3>1, <3>2 DEF QuoteSound
      <3>4. t = s
        BY <2>3, <3>3 DEF FetchedOK
      <3> QED BY <3>1, <3>2, <3>3, <3>4 DEF QuoteSound
    <2> QED BY <2>1, <2>3, <2>4, <1>2, <1>5 DEF QuoteSound, c
  <1> QED BY <1>4, <1>5

\* Each of the claims made of an answer is made of a finding that was kept.
LEMMA ClaimsAreKept ==
    ASSUME NEW findings, findings \in Seq(Range(findings))
    PROVE  LET new == ToClaims(findings)
           IN  /\ new \in Seq(Range(new))
               /\ \A k \in DOMAIN new :
                     \E f \in Range(findings) : /\ KeepFinding(f) /\ KeepClaim(f)
                                                /\ new[k] = ClaimOf(f)
  <1> DEFINE ids == {i \in DOMAIN findings : KeepFinding(findings[i]) /\ KeepClaim(findings[i])}
             kept == InOrder(ids)
             n == Cardinality(ids)
             new == ToClaims(findings)
  <1>1. DOMAIN findings = 1 .. Len(findings) /\ Len(findings) \in Nat
    BY LenProperties
  <1>2. ids \in SUBSET (1 .. Len(findings))
    BY <1>1
  <1>3. new = [k \in DOMAIN kept |-> ClaimOf(findings[kept[k]])]
    BY Zenon DEF ToClaims
  <1>4. \A i \in ids : /\ findings[i] \in Range(findings)
                       /\ KeepFinding(findings[i]) /\ KeepClaim(findings[i])
    BY DEF Range
  <1> HIDE DEF ids
  <1>5. n \in Nat /\ kept \in [1 .. n -> ids]
    BY <1>1, <1>2, InOrderPicks
  <1> HIDE DEF kept, n, new
  <1>6. new = [k \in 1 .. n |-> ClaimOf(findings[kept[k]])]
    BY <1>3, <1>5
  <1>7. \A k \in 1 .. n : new[k] \in Range(new)
    BY <1>6 DEF Range
  <1>8. new \in Seq(Range(new))
    BY <1>5, <1>6, <1>7
  <1>9. \A k \in DOMAIN new : kept[k] \in ids /\ new[k] = ClaimOf(findings[kept[k]])
    BY <1>5, <1>6
  <1>10. \A k \in DOMAIN new : \E f \in Range(findings) : /\ KeepFinding(f) /\ KeepClaim(f)
                                                          /\ new[k] = ClaimOf(f)
    BY <1>4, <1>9
  <1> QED BY <1>8, <1>10 DEF new

-----------------------------------------------------------------------------
(* The invariants.                                                         *)

\* The inductive invariant: a quote can only be traced back while its section is there,
\* fetched once and for all, and the claims it was taken from are sound themselves.
IInv ==
    /\ case.backend # "live" => extracted.sections = Fixture
    /\ step = "ingest" => claims = <<>>
    /\ step # "ingest" => FetchedOK
    /\ ClaimsOK
    /\ QuotesHold
    /\ QuotesAreTheSections
    /\ NoBareNumbers

\* NoBareNumbers, of one claim.
NumbersSound(c) ==
    /\ c.value \/ c.numeral = "typed" => c.fact_ids # {}
    /\ UsesCalc(c.by) \/ StrictNumerals(c.by) => c.numeral # "typed"
    /\ c.by = "synthesizer" => ~c.value

\* A finding that is kept makes a claim with sound numbers: the synthesizer is given no
\* facts and no calc results, so it can carry none.
LEMMA KeptNumbers ==
    ASSUME NEW f, KeepFinding(f), KeepClaim(f)
    PROVE  NumbersSound(ClaimOf(f))
  <1> DEFINE c == ClaimOf(f)
  <1>1. /\ c.by = Agent /\ c.numeral = f.numeral
        /\ c.value = Numbers(f) /\ c.fact_ids = ResolveFacts(f)
    BY DEF ClaimOf
  <1> HIDE DEF c
  <1>2. c.value \/ c.numeral = "typed" => c.fact_ids # {}
    BY <1>1 DEF KeepClaim, UnsourcedNumbers, TypedNumeral
  <1>3. UsesCalc(c.by) \/ StrictNumerals(c.by) => c.numeral # "typed"
    BY <1>1 DEF KeepFinding, TypedNumeral
  <1>4. c.by = "synthesizer" => ~c.value
    <2> SUFFICES ASSUME Agent = "synthesizer" PROVE ~Numbers(f)
      BY <1>1
    <2>1. FactsGiven = {} /\ ~UsesCalc(Agent)
      BY DEF FactsGiven, UsesCalc
    <2>2. ResolveFacts(f) = {}
      BY <2>1, Zenon DEF ResolveFacts
    <2>3. CalcGiven = NoCalc /\ DOMAIN NoCalc = {}
      BY <2>1 DEF CalcGiven, NoCalc
    <2> QED BY <2>2, <2>3 DEF Numbers
  <1> QED BY <1>2, <1>3, <1>4 DEF NumbersSound, c

\* Nothing is claimed yet.
LEMMA InitHolds == Init => IInv
  <1> SUFFICES ASSUME Init PROVE IInv
    OBVIOUS
  <1>1. case.backend # "live" => extracted.sections = Fixture
    BY DEF Init
  <1>2. claims = <<>> /\ step = "ingest"
    BY DEF Init
  <1>3. DOMAIN claims = {}
    BY <1>2
  <1>4. claims \in Seq(Range(claims))
    BY <1>2, EmptySeq
  <1>5. Range(claims) = {}
    BY <1>3 DEF Range
  <1> QED BY <1>1, <1>2, <1>3, <1>4, <1>5
          DEF IInv, ClaimsOK, QuotesHold, QuotesAreTheSections, NoBareNumbers

\* A step that leaves the claims alone
LEMMA ClaimsStay ==
    ASSUME IInv, UNCHANGED <<case, extracted, claims>>,
           step # "ingest" => UNCHANGED fetched /\ step' # "ingest",
           step = "ingest" => Ingest \/ UNCHANGED <<step, fetched>>
    PROVE  IInv'
  <1>1. (case.backend # "live" => extracted.sections = Fixture)'
    BY DEF IInv
  <1>2. (step = "ingest" => claims = <<>>)'
    BY DEF IInv
  <1>3. (step # "ingest" => FetchedOK)'
    <2>1. CASE step # "ingest"
      BY <2>1 DEF IInv, FetchedOK
    <2>2. CASE step = "ingest" /\ Ingest
      BY <2>2, IngestFetches DEF IInv
    <2>3. CASE step = "ingest" /\ UNCHANGED <<step, fetched>>
      BY <2>3
    <2> QED BY <2>1, <2>2, <2>3
  <1>4. ClaimsOK'
    BY DEF IInv, ClaimsOK
  <1>5. NoBareNumbers'
    BY DEF IInv, NoBareNumbers
  <1>6. QuotesHold' /\ QuotesAreTheSections'
    <2>1. CASE UNCHANGED fetched
      BY <2>1 DEF IInv, QuotesHold, QuoteSound, QuotesAreTheSections
    <2>2. CASE step = "ingest"
      <3>1. DOMAIN claims' = {}
        BY <2>2 DEF IInv
      <3> QED BY <3>1 DEF QuotesHold, QuotesAreTheSections
    <2> QED BY <2>1, <2>2
  <1> QED BY <1>1, <1>2, <1>3, <1>4, <1>5, <1>6 DEF IInv

\* An accepted answer appends the claims of the findings kept.
LEMMA AnswerKeeps ==
    ASSUME IInv, NEW out \in Outputs, Acceptable(out), step = "findings",
           claims' = claims \o ToClaims(out.findings), step' # "ingest",
           UNCHANGED <<case, extracted, fetched>>
    PROVE  IInv'
  <1> DEFINE new == ToClaims(out.findings)
             S == Range(claims) \cup Range(new)
             l == Len(claims)
  <1>1. out.findings \in Seq(Range(out.findings))
    BY EvidenceAssumption
  <1>2. /\ new \in Seq(Range(new))
        /\ \A k \in DOMAIN new :
              \E f \in Range(out.findings) : /\ KeepFinding(f) /\ KeepClaim(f)
                                             /\ new[k] = ClaimOf(f)
    BY <1>1, ClaimsAreKept
  <1>3. ASSUME NEW k \in DOMAIN new
        PROVE  /\ QuoteSound(new[k]) /\ NumbersSound(new[k])
               /\ new[k].quote \in Seq(Range(new[k].quote))
    <2>1. PICK f \in Range(out.findings) : KeepFinding(f) /\ KeepClaim(f) /\ new[k] = ClaimOf(f)
      BY <1>2
    <2>2. f.quote \in Seq(Range(f.quote))
      BY EvidenceAssumption
    <2>3. new[k].quote = f.quote
      BY <2>1 DEF ClaimOf
    <2>4. FetchedOK /\ ClaimsOK /\ QuotesHold
      BY DEF IInv
    <2> QED BY <2>1, <2>2, <2>3, <2>4, KeptQuotes, KeptNumbers
  <1> HIDE DEF new
  <1>4. claims \in Seq(Range(claims))
    BY DEF IInv, ClaimsOK
  <1>5. /\ claims' = claims \o new
        /\ claims \in Seq(S) /\ new \in Seq(S)
    <2>1. claims \in Seq(S) /\ new \in Seq(S)
      BY <1>2, <1>4, SeqMonotonic
    <2> QED BY <2>1 DEF new
  <1>6. /\ l \in Nat /\ DOMAIN claims = 1 .. l
        /\ Len(new) \in Nat /\ DOMAIN new = 1 .. Len(new)
        /\ claims' \in Seq(S) /\ Len(claims') = l + Len(new)
        /\ DOMAIN claims' = 1 .. l + Len(new)
        /\ \A i \in 1 .. l + Len(new) : claims'[i] = IF i <= l THEN claims[i] ELSE new[i - l]
    BY <1>5, LenProperties, ConcatProperties
  <1> HIDE DEF S, l
  <1>7. ASSUME NEW i \in DOMAIN claims'
        PROVE  \/ i \in DOMAIN claims /\ claims'[i] = claims[i]
               \/ i > l /\ i - l \in DOMAIN new /\ claims'[i] = new[i - l]
    <2>1. i \in 1 .. l + Len(new) /\ claims'[i] = IF i <= l THEN claims[i] ELSE new[i - l]
      BY <1>6, <1>7
    <2>2. CASE i <= l
      <3>1. i \in DOMAIN claims
        BY <1>6, <2>1, <2>2
      <3> QED BY <2>1, <2>2, <3>1
    <2>3. CASE ~(i <= l)
      <3>1. i > l /\ i - l \in DOMAIN new
        BY <1>6, <2>1, <2>3
      <3> QED BY <2>1, <2>3, <3>1
    <2> QED BY <2>2, <2>3
  <1>8. DOMAIN claims \subseteq DOMAIN claims' /\ \A j \in DOMAIN claims : claims'[j] = claims[j]
    BY <1>6
  <1>9. ClaimsOK'
    <2>1. claims' \in Seq(Range(claims'))
      BY <1>6, SeqOfRange
    <2>2. ASSUME NEW c \in Range(claims') PROVE c.quote \in Seq(Range(c.quote))
      <3>1. PICK i \in DOMAIN claims' : c = claims'[i]
        BY DEF Range
      <3>2. \A j \in DOMAIN claims : claims[j].quote \in Seq(Range(claims[j].quote))
        BY DEF IInv, ClaimsOK, Range
      <3> QED BY <3>1, <3>2, <1>7, <1>3
    <2> QED BY <2>1, <2>2 DEF ClaimsOK
  <1>10. NoBareNumbers'
    <2>1. \A i \in DOMAIN claims : NumbersSound(claims[i])
      BY DEF IInv, NoBareNumbers, NumbersSound
    <2>2. \A i \in DOMAIN claims' : NumbersSound(claims'[i])
      BY <2>1, <1>7, <1>3
    <2> QED BY <2>2 DEF NoBareNumbers, NumbersSound
  <1>11. ASSUME NEW c, QuoteSound(c) PROVE QuoteSound(c)'
    BY <1>11, <1>8 DEF QuoteSound
  <1>12. QuotesHold'
    <2>1. \A i \in DOMAIN claims : QuoteSound(claims[i])
      BY DEF IInv, QuotesHold
    <2> QED BY <2>1, <1>7, <1>3, <1>11 DEF QuotesHold
  <1>13. QuotesAreTheSections'
    <2>1. \A i \in DOMAIN claims' : QuoteSound(claims[i])'
      BY <1>12 DEF QuotesHold
    <2>2. ASSUME NEW i \in DOMAIN claims', claims'[i].by = "synthesizer",
                 NEW q \in Range(claims'[i].quote)
          PROVE  \E j \in 1 .. i - 1 : /\ claims'[j].source_id = claims'[i].source_id
                                       /\ q \in Range(claims'[j].quote)
      <3>1. CASE i \in DOMAIN claims /\ claims'[i] = claims[i]
        <4>1. PICK j \in 1 .. i - 1 : /\ claims[j].source_id = claims[i].source_id
                                     /\ q \in Range(claims[j].quote)
          BY <2>2, <3>1 DEF IInv, QuotesAreTheSections
        <4>2. j \in DOMAIN claims
          BY <1>6, <3>1
        <4> QED BY <4>1, <4>2, <3>1, <1>8
      <3>2. CASE i > l /\ i - l \in DOMAIN new /\ claims'[i] = new[i - l]
        <4>1. PICK j \in DOMAIN claims : /\ claims[j].source_id = new[i - l].source_id
                                        /\ q \in Range(claims[j].quote)
          BY <2>2, <3>2, <1>3 DEF QuoteSound
        <4>2. j \in 1 .. i - 1
          BY <1>6, <3>2
        <4> QED BY <4>1, <4>2, <3>2, <1>8
      <3> QED BY <1>7, <3>1, <3>2
    <2> QED BY <2>1, <2>2 DEF QuoteSound, QuotesAreTheSections
  <1>14. /\ (case.backend # "live" => extracted.sections = Fixture)'
         /\ (step = "ingest" => claims = <<>>)'
         /\ (step # "ingest" => FetchedOK)'
    BY DEF IInv, FetchedOK
  <1> QED BY <1>9, <1>10, <1>12, <1>13, <1>14 DEF IInv

\* One step per action.
LEMMA StepKeeps == IInv /\ [Next]_vars => IInv'
  <1> SUFFICES ASSUME IInv, [Next]_vars PROVE IInv'
    OBVIOUS
  <1>1. FirstStep(turn') # "ingest"
    BY DEF FirstStep
  <1>2. CASE Ingest
    BY <1>2, ClaimsStay DEF Ingest
  <1>3. CASE FetchPeers
    BY <1>3, ClaimsStay DEF FetchPeers
  <1>4. CASE Calculate
    BY <1>4, ClaimsStay DEF Calculate
  <1>5. CASE LlmFails
    BY <1>5, ClaimsStay DEF LlmFails
  <1>6. CASE Rejected /\ step # "ingest"
    BY <1>6, ClaimsStay DEF Rejected
  <1>7. ASSUME NEW p \in Plans, MakePlan(p) PROVE IInv'
    <2>1. CASE PlanPasses(p)
      <3>1. step = "plan" /\ step' = "calculate" /\ UNCHANGED <<case, extracted, fetched, claims>>
        BY <1>7, <2>1 DEF MakePlan
      <3> QED BY <3>1, ClaimsStay
    <2>2. CASE ~PlanPasses(p)
      BY <1>7, <2>2, <1>6 DEF MakePlan
    <2> QED BY <2>1, <2>2
  <1>8. ASSUME NEW out \in Outputs, Answer(out) PROVE IInv'
    <2>1. CASE Acceptable(out)
      <3>1. /\ step = "findings" /\ claims' = claims \o ToClaims(out.findings)
            /\ step' = FirstStep(turn') /\ UNCHANGED <<case, extracted, fetched>>
        BY <1>8, <2>1 DEF Answer
      <3> QED BY <2>1, <3>1, <1>1, AnswerKeeps
    <2>2. CASE ~Acceptable(out)
      BY <1>8, <2>2, <1>6 DEF Answer
    <2> QED BY <2>1, <2>2
  <1>9. CASE Over
    BY <1>9, ClaimsStay DEF Over, vars
  <1>10. CASE UNCHANGED vars
    BY <1>10, ClaimsStay DEF vars
  <1> QED BY <1>2, <1>3, <1>4, <1>5, <1>7, <1>8, <1>9, <1>10 DEF Next

\* The invariant holds of every behaviour.
THEOREM Invariance == Spec => []IInv
  BY InitHolds, StepKeeps, PTL DEF Spec

\* A claim quotes what its agent was shown of the section it cites, and no sentence taken for
\* an instruction, however the models answer (agents/base.py _verified_evidence, sanitize.py).
THEOREM QuotesAreReal == Spec => []QuotesAreTheSections
  <1>1. IInv => QuotesAreTheSections
    BY DEF IInv
  <1> QED BY <1>1, Invariance, PTL

\* No claim carries a value, or types a numeral its quotes lack, without a fact its agent was
\* given, and calc agents and the synthesizer type none (agents/base.py to_claims, claims.py).
THEOREM NumbersAreSourced == Spec => []NoBareNumbers
  <1>1. IInv => NoBareNumbers
    BY DEF IInv
  <1> QED BY <1>1, Invariance, PTL

-----------------------------------------------------------------------------
(* The peers offered.  A ranking exists because counting the nearer rows    *)
(* of each gives them places; a pass takes the nearest of what it may pick, *)
(* and two passes and the provider's list make the selection.               *)

\* The least of some numbers.
LEMMA MinIs ==
    ASSUME NEW S \in SUBSET Nat, S # {}
    PROVE  Min(S) \in S /\ \A x \in S : Min(S) <= x
  <1>1. \E x \in S : \A y \in S : x <= y
    BY LeastOf
  <1> QED BY <1>1 DEF Min

\* A company's amount is a number.
LEMMA RevenueIs ==
    ASSUME NEW ind, IsIndustry(ind), NEW cik \in DOMAIN IndustryRevenues(ind)
    PROVE  IndustryRevenues(ind)[cik] \in Int
  <1> DEFINE order == RevenueConceptOrder(ind.sic)
             carries(k, c) == c \in DOMAIN ind.frames[order[k]] /\ ind.frames[order[k]][c] # Nothing
             ciks == {c \in UNION {DOMAIN ind.frames[f] : f \in DOMAIN ind.frames} :
                         \E k \in DOMAIN order : carries(k, c)}
             first == {k \in DOMAIN order : carries(k, cik)}
  <1>1. /\ cik \in ciks
        /\ IndustryRevenues(ind)[cik] = ind.frames[order[Min(first)]][cik]
    BY DEF IndustryRevenues
  <1>2. DOMAIN order = 1 .. 3 /\ \A k \in 1 .. 3 : order[k] \in DOMAIN ind.frames
    BY DEF RevenueConceptOrder, IsIndustry
  <1> HIDE DEF order
  <1>3. first \in SUBSET Nat /\ first # {}
    BY <1>1, <1>2
  <1>4. Min(first) \in first
    BY <1>3, MinIs
  <1>5. order[Min(first)] \in DOMAIN ind.frames /\ cik \in DOMAIN ind.frames[order[Min(first)]]
    BY <1>2, <1>4
  <1> QED BY <1>1, <1>5 DEF IsIndustry

\* A company's primary ticker is one of its listings.
LEMMA TickerIs ==
    ASSUME NEW ind, IsIndustry(ind), NEW cik \in DOMAIN PrimaryTickers(ind.listings)
    PROVE  \E i \in DOMAIN ind.listings : /\ ind.listings[i][2] = cik
                                          /\ ind.listings[i][1] = PrimaryTickers(ind.listings)[cik]
                                          /\ ind.listings[i][1] \in Int
  <1> DEFINE l == ind.listings
             own == {i \in DOMAIN l : l[i][2] = cik}
             shortest == {i \in own : \A j \in own : l[i][3] <= l[j][3]}
  <1>1. cik \in {l[i][2] : i \in DOMAIN l} /\ PrimaryTickers(l)[cik] = l[Min(shortest)][1]
    BY DEF PrimaryTickers
  <1>2. own # {}
    BY <1>1
  <1>3. \A i \in DOMAIN l : i \in Nat /\ l[i] \in Int \X Int \X Nat
    BY DEF IsIndustry
  <1> HIDE DEF l
  <1>4. \A i \in DOMAIN l : l[i][1] \in Int /\ l[i][3] \in Nat
    BY <1>3
  <1>5. shortest # {}
    <2> DEFINE T == {l[i][3] : i \in own}
    <2>1. T \in SUBSET Nat /\ T # {}
      BY <1>2, <1>4
    <2>2. PICK t \in T : \A u \in T : t <= u
      BY <2>1, LeastOf
    <2> QED BY <2>2
  <1>6. shortest \in SUBSET Nat
    BY <1>3
  <1>7. Min(shortest) \in shortest
    BY <1>5, <1>6, MinIs
  <1> QED BY <1>1, <1>4, <1>7 DEF l

\* No two companies share a primary ticker.
LEMMA TickersDiffer ==
    ASSUME NEW ind, IsIndustry(ind),
           NEW a \in DOMAIN PrimaryTickers(ind.listings), NEW b \in DOMAIN PrimaryTickers(ind.listings),
           PrimaryTickers(ind.listings)[a] = PrimaryTickers(ind.listings)[b]
    PROVE  a = b
  <1>1. PICK i \in DOMAIN ind.listings : /\ ind.listings[i][2] = a
                                         /\ ind.listings[i][1] = PrimaryTickers(ind.listings)[a]
    BY TickerIs
  <1>2. PICK j \in DOMAIN ind.listings : /\ ind.listings[j][2] = b
                                         /\ ind.listings[j][1] = PrimaryTickers(ind.listings)[b]
    BY TickerIs
  <1>3. i = j
    BY <1>1, <1>2 DEF IsIndustry
  <1> QED BY <1>1, <1>2, <1>3

\* The companies of the industry that can be ranked.
Rankable(ind) ==
    {cik \in Range(ind.members) : /\ cik # ind.cik /\ cik \in DOMAIN IndustryRevenues(ind)
                                  /\ cik \in DOMAIN PrimaryTickers(ind.listings)}

\* Each of them has a row and each row is of one of them.
LEMMA RowsAre ==
    ASSUME NEW ind, IsIndustry(ind)
    PROVE  /\ \A r \in PeerRows(ind) : /\ r.cik \in Rankable(ind)
                                       /\ r.ticker = PrimaryTickers(ind.listings)[r.cik]
                                       /\ r.distance = Far(ind, r.cik)
                                       /\ r.ticker \in Int /\ r.distance \in Int
           /\ \A cik \in Rankable(ind) : \E r \in PeerRows(ind) : r.cik = cik
           /\ \A a, b \in PeerRows(ind) : a.ticker = b.ticker => a = b
           /\ IsFiniteSet(PeerRows(ind))
  <1> DEFINE row(cik) == [ticker |-> PrimaryTickers(ind.listings)[cik], cik |-> cik, distance |-> Far(ind, cik)]
  <1>1. PeerRows(ind) = {row(cik) : cik \in Rankable(ind)}
    BY DEF PeerRows, Rankable, Far
  <1>2. ASSUME NEW cik \in Rankable(ind) PROVE row(cik).ticker \in Int /\ row(cik).distance \in Int
    <2>1. row(cik).ticker \in Int
      BY TickerIs DEF Rankable
    <2>2. IndustryRevenues(ind)[cik] \in Int /\ ind.size \in Int
      BY RevenueIs DEF Rankable, IsIndustry
    <2> QED BY <2>1, <2>2 DEF Far, SizeDistance
  <1>3. \A a, b \in PeerRows(ind) : a.ticker = b.ticker => a = b
    <2> SUFFICES ASSUME NEW x \in Rankable(ind), NEW y \in Rankable(ind), row(x).ticker = row(y).ticker
                 PROVE  x = y
      BY <1>1
    <2> QED BY TickersDiffer DEF Rankable
  <1>4. IsFiniteSet(PeerRows(ind))
    <2>1. IsFiniteSet(Range(ind.members))
      <3> DEFINE m == ind.members
      <3>1. m \in Seq(Range(m))
        BY DEF IsIndustry
      <3>2. Len(m) \in Nat /\ DOMAIN m = 1 .. Len(m)
        BY <3>1, LenProperties
      <3>3. IsFiniteSet(1 .. Len(m))
        BY <3>2, FS_Interval
      <3>4. m = [i \in 1 .. Len(m) |-> m[i]] /\ Range(m) = {m[i] : i \in 1 .. Len(m)}
        BY <3>1, <3>2 DEF Range
      <3> HIDE DEF m
      <3>5. IsFiniteSet({m[i] : i \in 1 .. Len(m)})
        BY <3>3, <3>4, ImageIsFinite
      <3> QED BY <3>4, <3>5 DEF m
    <2>2. IsFiniteSet(Rankable(ind))
      BY <2>1, FS_Subset DEF Rankable
    <2> DEFINE g == [cik \in Rankable(ind) |-> row(cik)]
    <2>3. g = [cik \in Rankable(ind) |-> g[cik]] /\ PeerRows(ind) = {g[cik] : cik \in Rankable(ind)}
      BY <1>1
    <2> HIDE DEF g
    <2> QED BY <2>2, <2>3, ImageIsFinite
  <1>5. ASSUME NEW r \in PeerRows(ind)
        PROVE  /\ r.cik \in Rankable(ind) /\ r.ticker = PrimaryTickers(ind.listings)[r.cik]
               /\ r.distance = Far(ind, r.cik) /\ r.ticker \in Int /\ r.distance \in Int
    <2>1. PICK cik \in Rankable(ind) : r = row(cik)
      BY <1>1
    <2>2. r.cik = cik /\ r.ticker = PrimaryTickers(ind.listings)[cik] /\ r.distance = Far(ind, cik)
      BY <2>1
    <2>3. r.ticker \in Int /\ r.distance \in Int
      BY <1>2, <2>1
    <2> QED BY <2>2, <2>3
  <1>6. ASSUME NEW cik \in Rankable(ind) PROVE \E r \in PeerRows(ind) : r.cik = cik
    <2>1. row(cik) \in PeerRows(ind) /\ row(cik).cik = cik
      BY <1>1
    <2> QED BY <2>1
  <1> HIDE DEF row
  <1> QED BY <1>3, <1>4, <1>5, <1>6

\* Rows in order: nearest first.
Sorted(s, R) ==
    /\ s \in [1 .. Cardinality(R) -> R]
    /\ \A i, j \in DOMAIN s : i < j => Nearer(s[i], s[j])

\* Finitely many rows with tickers of their own can be put in order, by counting for
\* each the rows nearer than it.
LEMMA SortedExists ==
    ASSUME NEW R, IsFiniteSet(R), \A r \in R : r.ticker \in Int /\ r.distance \in Int,
           \A a, b \in R : a.ticker = b.ticker => a = b
    PROVE  \E s : Sorted(s, R)
  <1> DEFINE below(r) == {x \in R : Nearer(x, r)}
             c == Cardinality(R)
             pos == [r \in R |-> Cardinality(below(r)) + 1]
             P == {pos[r] : r \in R}
             at == InOrder(P)
             s == [k \in 1 .. c |-> CHOOSE r \in R : pos[r] = at[k]]
  <1>1. c \in Nat
    BY FS_CardinalityType
  <1>2. ASSUME NEW r \in R PROVE pos[r] \in 1 .. c + 1
    <2>1. Cardinality(below(r)) \in Nat /\ Cardinality(below(r)) <= c
      <3>1. below(r) \in SUBSET R
        OBVIOUS
      <3> HIDE DEF below, c
      <3>2. IsFiniteSet(below(r)) /\ Cardinality(below(r)) <= Cardinality(R)
        BY <3>1, FS_Subset
      <3> QED BY <3>2, FS_CardinalityType DEF c
    <2> HIDE DEF below, c
    <2> QED BY <1>1, <2>1
  <1>3. ASSUME NEW a \in R, NEW b \in R, Nearer(a, b) PROVE pos[a] < pos[b]
    <2>1. below(a) \in SUBSET below(b)
      BY <1>3 DEF Nearer
    <2>2. a \in below(b) /\ a \notin below(a)
      BY <1>3 DEF Nearer
    <2>3. below(b) \in SUBSET R
      OBVIOUS
    <2> HIDE DEF below
    <2>4. IsFiniteSet(below(b))
      BY <2>3, FS_Subset
    <2>5. /\ Cardinality(below(a)) <= Cardinality(below(b))
          /\ Cardinality(below(a)) # Cardinality(below(b))
          /\ IsFiniteSet(below(a))
      BY <2>1, <2>2, <2>4, FS_Subset
    <2>6. Cardinality(below(a)) \in Nat /\ Cardinality(below(b)) \in Nat
      BY <2>4, <2>5, FS_CardinalityType
    <2> QED BY <2>5, <2>6
  <1>4. \A a, b \in R : a = b \/ Nearer(a, b) \/ Nearer(b, a)
    BY DEF Nearer
  <1>5. \A a, b \in R : pos[a] = pos[b] => a = b
    <2> SUFFICES ASSUME NEW a \in R, NEW b \in R, pos[a] = pos[b], a # b PROVE FALSE
      OBVIOUS
    <2>1. pos[a] \in Int
      BY <1>2
    <2> HIDE DEF pos
    <2> QED BY <1>3, <1>4, <2>1
  <1> HIDE DEF pos
  <1>6. P \in SUBSET (1 .. c + 1) /\ c + 1 \in Nat
    BY <1>1, <1>2
  <1>7. Cardinality(P) = c
    <2>1. pos \in [R -> P] /\ \A p \in P : \E r \in R : pos[r] = p
      BY DEF pos
    <2>2. pos \in Bijection(R, P)
      BY <1>5, <2>1 DEF Bijection, Injection, Surjection, IsInjective
    <2>3. ExistsBijection(R, P)
      BY <2>2 DEF ExistsBijection
    <2> HIDE DEF P
    <2> QED BY <2>3, FS_Bijection DEF c
  <1>8. Ascending(at, P)
    <2> HIDE DEF P, c
    <2>1. \E t : Ascending(t, P)
      BY <1>6, InOrderExists
    <2> QED BY <2>1 DEF Ascending, InOrder
  <1>9. at \in [1 .. c -> P] /\ \A i, j \in 1 .. c : i < j => at[i] < at[j]
    BY <1>7, <1>8 DEF Ascending
  <1> HIDE DEF at, c
  <1>10. ASSUME NEW k \in 1 .. c PROVE s[k] \in R /\ pos[s[k]] = at[k]
    <2>1. \E r \in R : pos[r] = at[k]
      BY <1>9
    <2> QED BY <2>1
  <1>11. s \in [1 .. c -> R]
    BY <1>10
  <1>12. ASSUME NEW i \in 1 .. c, NEW j \in 1 .. c, i < j PROVE Nearer(s[i], s[j])
    <2>1. /\ s[i] \in R /\ s[j] \in R /\ pos[s[i]] < pos[s[j]]
          /\ pos[s[i]] \in Int /\ pos[s[j]] \in Int
      BY <1>2, <1>9, <1>10, <1>12
    <2> HIDE DEF s
    <2>2. ~Nearer(s[j], s[i]) /\ s[i] # s[j]
      BY <1>3, <2>1
    <2> QED BY <1>4, <2>1, <2>2
  <1> HIDE DEF s
  <1>13. Sorted(s, R)
    BY <1>11, <1>12 DEF Sorted, c
  <1> QED BY <1>13

\* An injection between finite sets of one size misses nothing.
LEMMA NothingMissed ==
    ASSUME NEW R, IsFiniteSet(R), NEW s \in [1 .. Cardinality(R) -> R],
           \A i, j \in 1 .. Cardinality(R) : i < j => s[i] # s[j]
    PROVE  \A r \in R : \E k \in 1 .. Cardinality(R) : s[k] = r
  <1>1. Cardinality(R) \in Nat
    BY FS_CardinalityType
  <1>2. s \in Injection(1 .. Cardinality(R), R)
    BY <1>1 DEF Injection, IsInjective
  <1>3. Cardinality(1 .. Cardinality(R)) = Cardinality(R)
    <2> DEFINE c == Cardinality(R)
    <2>1. c \in Nat
      BY <1>1
    <2> HIDE DEF c
    <2>2. Cardinality(1 .. c) = c
      BY <2>1, FS_Interval
    <2> QED BY <2>2 DEF c
  <1>4. s \in Surjection(1 .. Cardinality(R), R)
    BY <1>2, <1>3, FS_Injection
  <1> QED BY <1>4 DEF Surjection

\* t is what s has at the first of ids, as many as there are and room is.
TakenFrom(t, s, ids, room) ==
    /\ Len(t) \in {room, Cardinality(ids)} /\ Len(t) <= room /\ Len(t) <= Cardinality(ids)
    /\ \A k \in 1 .. Len(t) : \E i \in ids : /\ t[k] = s[i]
                                             /\ \A j \in ids : j < i => \E l \in 1 .. Len(t) : t[l] = s[j]
    /\ \A k, l \in 1 .. Len(t) : k < l => \E i, j \in ids : i < j /\ t[k] = s[i] /\ t[l] = s[j]
    /\ Len(t) = Cardinality(ids) => \A i \in ids : \E k \in 1 .. Len(t) : t[k] = s[i]

\* What a pass picks, cut to the room there is.
LEMMA TakenIs ==
    ASSUME NEW n \in Nat, NEW X, NEW s \in [1 .. n -> X], NEW ids \in SUBSET (1 .. n), NEW room \in Nat,
           NEW t, t = FirstOf(Picked(s, ids), room)
    PROVE  t \in Seq(X) /\ Cardinality(ids) \in Nat /\ TakenFrom(t, s, ids, room)
  <1> DEFINE c == Cardinality(ids)
             at == InOrder(ids)
             p == Picked(s, ids)
             m == Min({room, Len(p)})
  <1>1. Ascending(at, ids)
    <2>1. \E r : Ascending(r, ids)
      BY InOrderExists
    <2> QED BY <2>1 DEF Ascending, InOrder
  <1>2. IsFiniteSet(ids)
    <2>1. IsFiniteSet(1 .. n)
      BY FS_Interval
    <2> QED BY <2>1, FS_Subset
  <1>3. c \in Nat
    BY <1>2, FS_CardinalityType
  <1>4. at \in [1 .. c -> ids] /\ \A i, j \in 1 .. c : i < j => at[i] < at[j]
    BY <1>1 DEF Ascending
  <1> HIDE DEF at
  <1>0. \A k \in 1 .. c : at[k] \in ids /\ at[k] \in Int
    <2>1. \A i \in ids : i \in Int
      OBVIOUS
    <2> HIDE DEF c
    <2> QED BY <1>4, <2>1
  <1>5. \A i \in ids : \E k \in 1 .. c : at[k] = i
    <2>2. \A i, j \in 1 .. c : i < j => at[i] # at[j]
      <3> HIDE DEF c
      <3> QED BY <1>0, <1>4, <1>3
    <2> QED BY <1>2, <1>4, <2>2, NothingMissed
  <1>6. p = [k \in 1 .. c |-> s[at[k]]]
    BY <1>4 DEF Picked, at
  <1> HIDE DEF c
  <1>7. p \in Seq(X) /\ Len(p) = c /\ \A k \in 1 .. c : p[k] = s[at[k]]
    <2>1. \A k \in 1 .. c : s[at[k]] \in X
      BY <1>4
    <2>2. p \in [1 .. c -> X]
      BY <1>6, <2>1
    <2>3. p \in Seq(X)
      BY <1>3, <2>2, SeqDef
    <2>4. DOMAIN p = 1 .. c
      BY <1>6
    <2>5. Len(p) = c
      BY <1>3, <2>3, <2>4, LenProperties
    <2> QED BY <1>6, <2>3, <2>5
  <1> HIDE DEF p
  <1>8. m \in {room, c} /\ m <= room /\ m <= c
    <2>1. \E x \in {room, c} : \A y \in {room, c} : x <= y
      BY <1>3
    <2> QED BY <1>3, <1>7, <2>1 DEF Min
  <1> HIDE DEF m
  <1>9. t \in Seq(X) /\ Len(t) = m /\ \A k \in 1 .. m : t[k] = s[at[k]]
    <2>1. m \in Nat /\ \A k \in 1 .. m : p[k] \in X
      BY <1>3, <1>7, <1>8, ElementOfSeq
    <2>2. t = SubSeq(p, 1, m)
      BY DEF FirstOf, p, m
    <2>3. t \in Seq(X) /\ Len(t) = m /\ \A k \in 1 .. m : t[k] = p[k]
      BY <2>1, <2>2, SubSeqProperties
    <2> QED BY <1>3, <1>7, <1>8, <2>1, <2>3
  <1>10. ASSUME NEW k \in 1 .. m
         PROVE  \E i \in ids : /\ t[k] = s[i]
                               /\ \A j \in ids : j < i => \E l \in 1 .. m : t[l] = s[j]
    <2>1. k \in 1 .. c /\ at[k] \in ids
      BY <1>3, <1>4, <1>8
    <2>2. ASSUME NEW j \in ids, j < at[k] PROVE \E l \in 1 .. m : t[l] = s[j]
      <3>1. PICK l \in 1 .. c : at[l] = j
        BY <1>5
      <3>2. at[l] \in Int /\ at[k] \in Int /\ (k < l => at[k] < at[l])
        BY <1>0, <1>4, <2>1
      <3>3. l < k
        BY <2>1, <2>2, <3>1, <3>2, <1>3
      <3>4. l \in 1 .. m
        BY <3>3, <1>3, <1>8
      <3> QED BY <1>9, <3>1, <3>4
    <2> QED BY <1>9, <2>1, <2>2
  <1>11. ASSUME NEW k \in 1 .. m, NEW l \in 1 .. m, k < l
         PROVE  \E i, j \in ids : i < j /\ t[k] = s[i] /\ t[l] = s[j]
    <2>1. k \in 1 .. c /\ l \in 1 .. c
      BY <1>3, <1>8
    <2>2. at[k] \in ids /\ at[l] \in ids /\ at[k] < at[l]
      BY <1>4, <1>11, <2>1
    <2> QED BY <1>9, <2>2
  <1>12. m = c => \A i \in ids : \E k \in 1 .. m : t[k] = s[i]
    BY <1>5, <1>9
  <1>13. TakenFrom(t, s, ids, room)
    <2>1. Len(t) = m
      BY <1>9
    <2>2. Len(t) \in {room, c} /\ Len(t) <= room /\ Len(t) <= c
      BY <1>8, <2>1
    <2> HIDE DEF c
    <2>3. Len(t) \in {room, c} /\ (Len(t) = c => \A i \in ids : \E k \in 1 .. Len(t) : t[k] = s[i])
      BY <1>12, <2>1, <2>2
    <2>4. \A k \in 1 .. Len(t) : \E i \in ids : /\ t[k] = s[i]
                                                 /\ \A j \in ids : j < i => \E l \in 1 .. Len(t) : t[l] = s[j]
      BY <1>10, <2>1
    <2>5. \A k, l \in 1 .. Len(t) : k < l => \E i, j \in ids : i < j /\ t[k] = s[i] /\ t[l] = s[j]
      BY <1>11, <2>1
    <2> QED BY <2>2, <2>3, <2>4, <2>5 DEF TakenFrom, c
  <1> QED BY <1>3, <1>9, <1>13 DEF c

\* The ranking is the rows in order, all of them.
LEMMA RankedIs ==
    ASSUME NEW ind, IsIndustry(ind), NEW r, r = RankCandidates(ind)
    PROVE  /\ Cardinality(PeerRows(ind)) \in Nat
           /\ Sorted(r, PeerRows(ind))
           /\ \A i, j \in DOMAIN r : i < j => r[i] # r[j]
           /\ \A row \in PeerRows(ind) : \E i \in DOMAIN r : r[i] = row
  <1> DEFINE R == PeerRows(ind)
             n == Cardinality(R)
  <1>1. \E s : Sorted(s, R)
    BY RowsAre, SortedExists
  <1>2. Sorted(r, R)
    BY <1>1 DEF RankCandidates, Sorted
  <1>3. n \in Nat
    BY RowsAre, FS_CardinalityType
  <1>4. DOMAIN r = 1 .. n /\ \A i \in 1 .. n : r[i] \in R
    BY <1>2 DEF Sorted
  <1>5. \A i, j \in 1 .. n : i < j => r[i] # r[j]
    <2> SUFFICES ASSUME NEW i \in 1 .. n, NEW j \in 1 .. n, i < j PROVE r[i] # r[j]
      OBVIOUS
    <2>1. r[i].ticker \in Int /\ r[i].distance \in Int
      BY <1>4, RowsAre
    <2>2. Nearer(r[i], r[j])
      BY <1>2, <1>4 DEF Sorted
    <2> QED BY <2>1, <2>2 DEF Nearer
  <1>6. r \in [1 .. n -> R] /\ IsFiniteSet(R)
    BY <1>2, RowsAre DEF Sorted
  <1> HIDE DEF R
  <1>7. \A row \in R : \E i \in 1 .. n : r[i] = row
    BY <1>5, <1>6, NothingMissed
  <1> QED BY <1>2, <1>3, <1>4, <1>5, <1>7 DEF R

\* The companies a pass can pick: within the cutoff and not picked before.
Reach(ind, cutoff, already) ==
    {cik \in Comparable(ind) : Far(ind, cik) <= cutoff /\ PrimaryTickers(ind.listings)[cik] \notin already}

\* t is rows of the nearest of the companies S, each once, as many as room is.
Foremost(t, ind, S, room) ==
    /\ \A k \in 1 .. Len(t) : t[k] \in PeerRows(ind) /\ t[k].cik \in S
    /\ Len(t) \in {room, Cardinality(S)} /\ Len(t) <= room /\ Len(t) <= Cardinality(S)
    /\ \A k \in 1 .. Len(t) : \A cik \in S :
           Far(ind, cik) < t[k].distance => \E l \in 1 .. Len(t) : t[l].cik = cik
    /\ \A k, l \in 1 .. Len(t) : k < l => t[k].ticker # t[l].ticker
    /\ Len(t) = Cardinality(S) => \A cik \in S : \E k \in 1 .. Len(t) : t[k].cik = cik

\* A pass over the ranking takes the nearest.
LEMMA NearestFirst ==
    ASSUME NEW ind, IsIndustry(ind), NEW cutoff \in Nat, NEW already, NEW room \in Nat,
           NEW t, t = FirstOf(Within(ind, RankCandidates(ind), cutoff, already), room)
    PROVE  /\ t \in Seq(PeerRows(ind)) /\ Foremost(t, ind, Reach(ind, cutoff, already), room)
           /\ Cardinality(Reach(ind, cutoff, already)) \in Nat /\ IsFiniteSet(Reach(ind, cutoff, already))
  <1> DEFINE R == PeerRows(ind)
             n == Cardinality(R)
             S == Reach(ind, cutoff, already)
  <1>0. PICK r : r = RankCandidates(ind)
    OBVIOUS
  <1>1. n \in Nat /\ DOMAIN r = 1 .. n /\ r \in [1 .. n -> R] /\ \A i \in 1 .. n : r[i] \in R
    BY <1>0, RankedIs DEF Sorted
  <1>2. /\ \A i, j \in 1 .. n : i < j => Nearer(r[i], r[j]) /\ r[i] # r[j]
        /\ \A row \in R : \E i \in 1 .. n : r[i] = row
    BY <1>0, <1>1, RankedIs DEF Sorted
  <1>3. \A i \in 1 .. n : /\ r[i].cik \in Rankable(ind) /\ r[i].distance = Far(ind, r[i].cik)
                          /\ r[i].ticker = PrimaryTickers(ind.listings)[r[i].cik]
                          /\ r[i].ticker \in Int /\ r[i].distance \in Int
    BY <1>1, RowsAre
  <1> DEFINE ids == {i \in 1 .. n : r[i].cik \in S}
  <1>4. \A cik \in S : cik \in Rankable(ind)
    BY DEF Reach, Comparable, Rankable
  <1>5. \A i \in 1 .. n : r[i].cik \in S <=> /\ ind.size # Nothing => \A j \in 1 .. i : r[j].distance <= cutoff
                                             /\ r[i].ticker \notin already \cup {ind.ticker}
                                             /\ InScope(ind, r[i].ticker)
    <2> SUFFICES ASSUME NEW i \in 1 .. n
                 PROVE  r[i].cik \in S <=> /\ ind.size # Nothing => \A j \in 1 .. i : r[j].distance <= cutoff
                                           /\ r[i].ticker \notin already \cup {ind.ticker}
                                           /\ InScope(ind, r[i].ticker)
      OBVIOUS
    <2>1. r[i].cik \in S <=> /\ r[i].distance <= cutoff
                             /\ r[i].ticker \notin already \cup {ind.ticker}
                             /\ InScope(ind, r[i].ticker)
      BY <1>3 DEF Reach, Comparable, Rankable, InScope
    <2>2. \A j \in 1 .. i : j \in 1 .. n /\ r[j].distance <= r[i].distance
      <3> SUFFICES ASSUME NEW j \in 1 .. i PROVE j \in 1 .. n /\ r[j].distance <= r[i].distance
        OBVIOUS
      <3>1. j \in 1 .. n /\ (j = i \/ j < i)
        BY <1>1
      <3>2. r[j].distance \in Int /\ r[i].distance \in Int
        BY <1>3, <3>1
      <3>3. j < i => Nearer(r[j], r[i])
        BY <1>2, <3>1
      <3> QED BY <3>1, <3>2, <3>3 DEF Nearer
    <2>3. ind.size = Nothing => r[i].distance = 0
      BY <1>3 DEF Far
    <2>4. r[i].distance <= cutoff <=> (ind.size # Nothing => \A j \in 1 .. i : r[j].distance <= cutoff)
      <3>1. i \in 1 .. i /\ r[i].distance \in Int /\ \A j \in 1 .. i : r[j].distance \in Int
        BY <1>1, <1>3, <2>2
      <3> QED BY <2>2, <2>3, <3>1
    <2> QED BY <2>1, <2>4
  <1>6. t = FirstOf(Picked(r, ids), room)
    <2>1. ids = {i \in DOMAIN r : /\ ind.size # Nothing => \A j \in 1 .. i : r[j].distance <= cutoff
                                  /\ r[i].ticker \notin already \cup {ind.ticker}
                                  /\ InScope(ind, r[i].ticker)}
      BY <1>1, <1>5
    <2> HIDE DEF ids
    <2> QED BY <1>0, <2>1 DEF Within
  <1>7. t \in Seq(R) /\ Cardinality(ids) \in Nat /\ TakenFrom(t, r, ids, room)
    <2>1. ids \in SUBSET (1 .. n)
      OBVIOUS
    <2> HIDE DEF ids, n, R
    <2> QED BY <1>1, <1>6, <2>1, TakenIs
  <1>8. \A cik \in S : \E i \in ids : r[i].cik = cik
    <2> SUFFICES ASSUME NEW cik \in S PROVE \E i \in ids : r[i].cik = cik
      OBVIOUS
    <2>1. PICK row \in R : row.cik = cik
      BY <1>4, RowsAre
    <2> QED BY <1>2, <2>1
  <1>9. \A i, j \in ids : i < j => r[i].cik # r[j].cik /\ r[i].ticker # r[j].ticker
    <2> SUFFICES ASSUME NEW i \in ids, NEW j \in ids, i < j PROVE r[i].cik # r[j].cik /\ r[i].ticker # r[j].ticker
      OBVIOUS
    <2>1. r[i] # r[j] /\ r[i] \in R /\ r[j] \in R
      BY <1>1, <1>2
    <2>2. r[i].ticker # r[j].ticker
      BY <2>1, RowsAre
    <2> QED BY <1>3, <2>2
  <1>10. Cardinality(S) = Cardinality(ids) /\ IsFiniteSet(S)
    <2> DEFINE f == [i \in ids |-> r[i].cik]
    <2>1. f \in [ids -> S] /\ \A cik \in S : \E i \in ids : f[i] = cik
      BY <1>8
    <2>2. \A i, j \in ids : f[i] = f[j] => i = j
      <3> SUFFICES ASSUME NEW i \in ids, NEW j \in ids, f[i] = f[j], i # j PROVE FALSE
        OBVIOUS
      <3>1. i < j \/ j < i
        BY <1>1
      <3> QED BY <1>9, <3>1
    <2> HIDE DEF f
    <2>3. f \in Bijection(ids, S)
      <3> HIDE DEF ids, S
      <3> QED BY <2>1, <2>2 DEF Bijection, Injection, Surjection, IsInjective
    <2>4. IsFiniteSet(ids)
      <3>1. IsFiniteSet(1 .. n) /\ ids \in SUBSET (1 .. n)
        BY <1>1, FS_Interval
      <3> HIDE DEF ids
      <3> QED BY <3>1, FS_Subset
    <2>5. ExistsBijection(ids, S)
      BY <2>3 DEF ExistsBijection
    <2> HIDE DEF ids, S
    <2> QED BY <2>4, <2>5, FS_Bijection
  <1>11. \A k \in 1 .. Len(t) : \E i \in ids : /\ t[k] = r[i]
                                               /\ \A j \in ids : j < i => \E l \in 1 .. Len(t) : t[l] = r[j]
    BY <1>7 DEF TakenFrom
  <1>12. \A k \in 1 .. Len(t) : t[k] \in R /\ t[k].cik \in S
    BY <1>1, <1>11
  <1>13. ASSUME NEW k \in 1 .. Len(t), NEW cik \in S, Far(ind, cik) < t[k].distance
         PROVE  \E l \in 1 .. Len(t) : t[l].cik = cik
    <2>1. PICK i \in ids : /\ t[k] = r[i]
                           /\ \A j \in ids : j < i => \E l \in 1 .. Len(t) : t[l] = r[j]
      BY <1>11
    <2>2. PICK j \in ids : r[j].cik = cik
      BY <1>8
    <2>3. /\ i \in 1 .. n /\ j \in 1 .. n /\ r[j].distance < r[i].distance
          /\ r[j].distance \in Int /\ r[i].distance \in Int
      BY <1>3, <1>13, <2>1, <2>2
    <2>4. j < i
      <3>1. i < j => Nearer(r[i], r[j])
        BY <1>2, <2>3
      <3>2. i \in Int /\ j \in Int /\ i # j
        BY <2>3, <1>1
      <3> QED BY <2>3, <3>1, <3>2 DEF Nearer
    <2> QED BY <2>1, <2>2, <2>4
  <1>14. \A k, l \in 1 .. Len(t) : k < l => t[k].ticker # t[l].ticker
    <2>1. \A k, l \in 1 .. Len(t) : k < l => \E i, j \in ids : i < j /\ t[k] = r[i] /\ t[l] = r[j]
      BY <1>7 DEF TakenFrom
    <2> QED BY <1>9, <2>1
  <1>15. Len(t) = Cardinality(S) => \A cik \in S : \E k \in 1 .. Len(t) : t[k].cik = cik
    <2>1. Len(t) = Cardinality(ids) => \A i \in ids : \E k \in 1 .. Len(t) : t[k] = r[i]
      BY <1>7 DEF TakenFrom
    <2> HIDE DEF ids, S
    <2> QED BY <1>8, <1>10, <2>1
  <1>16. Len(t) \in {room, Cardinality(S)} /\ Len(t) <= room /\ Len(t) <= Cardinality(S)
    <2> HIDE DEF ids, S
    <2> QED BY <1>7, <1>10 DEF TakenFrom
  <1>17. Foremost(t, ind, S, room)
    <2>1. \A k \in 1 .. Len(t) : \A cik \in S :
              Far(ind, cik) < t[k].distance => \E l \in 1 .. Len(t) : t[l].cik = cik
      BY <1>13
    <2> HIDE DEF S
    <2> QED BY <1>12, <1>14, <1>15, <1>16, <2>1 DEF Foremost
  <1> HIDE DEF ids
  <1> QED BY <1>7, <1>10, <1>17

\* One list after another.
LEMMA JoinIs ==
    ASSUME NEW X, NEW a \in Seq(X), NEW b \in Seq(X), NEW c, c = a \o b
    PROVE  /\ c \in Seq(X) /\ Len(a) \in Nat /\ Len(b) \in Nat /\ Len(c) = Len(a) + Len(b)
           /\ \A k \in 1 .. Len(c) : \/ k \in 1 .. Len(a) /\ c[k] = a[k]
                                     \/ k - Len(a) \in 1 .. Len(b) /\ c[k] = b[k - Len(a)]
           /\ \A k \in 1 .. Len(a) : k \in 1 .. Len(c) /\ c[k] = a[k]
           /\ \A k \in 1 .. Len(b) : Len(a) + k \in 1 .. Len(c) /\ c[Len(a) + k] = b[k]
  <1>1. /\ c \in Seq(X) /\ Len(c) = Len(a) + Len(b) /\ Len(a) \in Nat /\ Len(b) \in Nat
        /\ \A i \in 1 .. Len(a) + Len(b) : c[i] = IF i <= Len(a) THEN a[i] ELSE b[i - Len(a)]
    BY ConcatProperties, LenProperties
  <1>2. \A k \in 1 .. Len(c) : \/ k \in 1 .. Len(a) /\ c[k] = a[k]
                               \/ k - Len(a) \in 1 .. Len(b) /\ c[k] = b[k - Len(a)]
    BY <1>1
  <1>3. \A k \in 1 .. Len(a) : k \in 1 .. Len(c) /\ c[k] = a[k]
    BY <1>1
  <1>4. \A k \in 1 .. Len(b) : Len(a) + k \in 1 .. Len(c) /\ c[Len(a) + k] = b[k]
    <2> SUFFICES ASSUME NEW k \in 1 .. Len(b) PROVE Len(a) + k \in 1 .. Len(c) /\ c[Len(a) + k] = b[k]
      OBVIOUS
    <2>1. Len(a) + k \in 1 .. Len(a) + Len(b) /\ ~(Len(a) + k <= Len(a)) /\ (Len(a) + k) - Len(a) = k
      BY <1>1
    <2>2. c[Len(a) + k] = b[(Len(a) + k) - Len(a)]
      BY <1>1, <2>1
    <2> QED BY <1>1, <2>1, <2>2
  <1> QED BY <1>1, <1>2, <1>3, <1>4

\* The tickers of rows or peers.
TickersOf(s) == {s[i].ticker : i \in DOMAIN s}

\* The steps of a selection: both passes, their peers, and the provider's.
NearOf(ind) == FirstOf(Within(ind, RankCandidates(ind), MaxLogDistance, {}), Limit)
WideOf(ind, near) ==
    IF Len(near) < MinPeers
    THEN FirstOf(Within(ind, RankCandidates(ind), WidenedLogDistance, TickersOf(near)), Limit - Len(near))
    ELSE <<>>
Peered(ind, row, by) ==
    [ticker |-> row.ticker, by |-> by, distance |-> row.distance, figures |-> Figures(ind, row.cik)]
ChosenOf(ind, near, wide) ==
    [i \in DOMAIN near |-> Peered(ind, near[i], "size")] \o [i \in DOMAIN wide |-> Peered(ind, wide[i], "relaxed")]
VendorOf(ind, chosen) ==
    IF Len(chosen) < MinPeers THEN ProviderFallback(ind, Limit - Len(chosen), TickersOf(chosen)) ELSE <<>>


\* What both passes give: rows of comparable companies, each once and none passed
\* over, and fewer than a peer set only when there are no more within the wide cutoff.
BothPasses(ind, near, wide, rows) ==
    /\ near \in Seq(PeerRows(ind)) /\ wide \in Seq(PeerRows(ind)) /\ Len(rows) <= Limit
    /\ Foremost(near, ind, Reach(ind, MaxLogDistance, {}), Limit)
    /\ \A k \in 1 .. Len(rows) : rows[k].cik \in Comparable(ind)
    /\ \A k, l \in 1 .. Len(rows) : k # l => rows[k].ticker # rows[l].ticker
    /\ \A k \in 1 .. Len(rows) : \A cik \in Comparable(ind) :
           Far(ind, cik) < rows[k].distance => \E l \in 1 .. Len(rows) : rows[l].cik = cik
    /\ Len(rows) < MinPeers => Cardinality(Reach(ind, WidenedLogDistance, {})) <= Len(rows)
    /\ Cardinality(Reach(ind, MaxLogDistance, {})) \in Nat

\* The rows of both passes are such.
LEMMA RowsOfBoth ==
    ASSUME NEW ind, IsIndustry(ind), PeersAssumption,
           NEW near, near = NearOf(ind), NEW wide, wide = WideOf(ind, near), NEW rows, rows = near \o wide
    PROVE  BothPasses(ind, near, wide, rows)
  <1> DEFINE R == PeerRows(ind)
             tickers == PrimaryTickers(ind.listings)
             S1 == Reach(ind, MaxLogDistance, {})
             S2 == Reach(ind, WidenedLogDistance, TickersOf(near))
             room == Limit - Len(near)
  <1>1. MinPeers \in Nat /\ Limit \in Nat /\ MinPeers <= Limit
    BY DEF PeersAssumption
  <1>2. near \in Seq(R) /\ Foremost(near, ind, S1, Limit) /\ Cardinality(S1) \in Nat
    <2>1. MaxLogDistance \in Nat
      BY DEF MaxLogDistance
    <2>2. near = FirstOf(Within(ind, RankCandidates(ind), MaxLogDistance, {}), Limit)
      BY DEF NearOf
    <2> HIDE DEF R, S1
    <2> QED BY <1>1, <2>1, <2>2, NearestFirst DEF R, S1
  <1>3. Len(near) \in Nat /\ Len(near) <= Limit /\ room \in Nat
    <2>1. Len(near) \in Nat
      BY <1>2, LenProperties
    <2>2. Len(near) <= Limit
      BY <1>2 DEF Foremost
    <2> QED BY <1>1, <2>1, <2>2
  <1>4. ASSUME Len(near) < MinPeers
        PROVE  wide \in Seq(R) /\ Foremost(wide, ind, S2, room)
    <2>1. WidenedLogDistance \in Nat
      BY DEF WidenedLogDistance
    <2>2. wide = FirstOf(Within(ind, RankCandidates(ind), WidenedLogDistance, TickersOf(near)), room)
      BY <1>4 DEF WideOf
    <2> HIDE DEF R, S2, room
    <2> QED BY <1>3, <2>1, <2>2, NearestFirst DEF R, S2
  <1>5. ASSUME ~(Len(near) < MinPeers) PROVE wide = <<>> /\ Len(wide) = 0 /\ wide \in Seq(R)
    BY <1>5 DEF WideOf
  <1>6. wide \in Seq(R) /\ Len(wide) \in Nat
    <2>1. wide \in Seq(R)
      BY <1>4, <1>5
    <2> QED BY <2>1, LenProperties
  <1>7. Len(wide) # 0 => Len(near) < MinPeers
    BY <1>5
  <1>8. /\ rows \in Seq(R) /\ Len(rows) = Len(near) + Len(wide)
        /\ \A k \in 1 .. Len(rows) : \/ k \in 1 .. Len(near) /\ rows[k] = near[k]
                                     \/ k - Len(near) \in 1 .. Len(wide) /\ rows[k] = wide[k - Len(near)]
        /\ \A k \in 1 .. Len(near) : k \in 1 .. Len(rows) /\ rows[k] = near[k]
        /\ \A k \in 1 .. Len(wide) : Len(near) + k \in 1 .. Len(rows) /\ rows[Len(near) + k] = wide[k]
    <2> HIDE DEF R
    <2> QED BY <1>2, <1>6, JoinIs
  <1>9. Len(rows) <= Limit
    <2>1. Len(near) < MinPeers => Len(wide) <= room
      BY <1>4 DEF Foremost
    <2> QED BY <1>1, <1>3, <1>5, <1>6, <1>8, <2>1
  <1>10. \A cik \in S1 : cik \in Comparable(ind) /\ Far(ind, cik) <= MaxLogDistance
    BY DEF Reach
  <1>11. \A cik \in S2 : /\ cik \in Comparable(ind) /\ Far(ind, cik) <= WidenedLogDistance
                         /\ tickers[cik] \notin TickersOf(near)
    BY DEF Reach
  <1>12. \A k \in 1 .. Len(near) : near[k] \in R /\ near[k].cik \in S1
    BY <1>2 DEF Foremost
  <1>13. \A k \in 1 .. Len(wide) : wide[k] \in R /\ wide[k].cik \in S2
    <2> SUFFICES ASSUME NEW k \in 1 .. Len(wide) PROVE wide[k] \in R /\ wide[k].cik \in S2
      OBVIOUS
    <2>1. Len(near) < MinPeers
      BY <1>6, <1>7
    <2> QED BY <1>4, <2>1 DEF Foremost
  <1>14. \A row \in R : /\ row.ticker = tickers[row.cik] /\ row.distance = Far(ind, row.cik) /\ row.distance \in Int
                        /\ row.cik \in Rankable(ind)
    BY RowsAre
  <1>15. \A k \in 1 .. Len(rows) : rows[k].cik \in Comparable(ind)
    <2> SUFFICES ASSUME NEW k \in 1 .. Len(rows) PROVE rows[k].cik \in Comparable(ind)
      OBVIOUS
    <2> HIDE DEF R, S1, S2, room
    <2>1. CASE k \in 1 .. Len(near) /\ rows[k] = near[k]
      BY <1>10, <1>12, <2>1
    <2>2. CASE \E j \in 1 .. Len(wide) : rows[k] = wide[j]
      BY <1>11, <1>13, <2>2
    <2> QED BY <1>8, <2>1, <2>2
  <1>16. \A a, b \in Comparable(ind) : tickers[a] = tickers[b] => a = b
    BY TickersDiffer DEF Comparable
  <1>17. \A x \in TickersOf(near) : \E k \in 1 .. Len(near) : near[k].ticker = x
    <2>1. DOMAIN near = 1 .. Len(near)
      BY <1>2, LenProperties
    <2> QED BY <2>1 DEF TickersOf
  <1>18. \A k \in 1 .. Len(near) : near[k].ticker \in TickersOf(near)
    <2>1. DOMAIN near = 1 .. Len(near)
      BY <1>2, LenProperties
    <2> QED BY <2>1 DEF TickersOf
  <1>19. \A cik \in Comparable(ind) :
             tickers[cik] \in TickersOf(near) => \E l \in 1 .. Len(near) : near[l].cik = cik
    <2> SUFFICES ASSUME NEW cik \in Comparable(ind), tickers[cik] \in TickersOf(near)
                 PROVE  \E l \in 1 .. Len(near) : near[l].cik = cik
      OBVIOUS
    <2>1. PICK l \in 1 .. Len(near) : near[l].ticker = tickers[cik]
      BY <1>17
    <2>2. near[l].cik \in Comparable(ind) /\ tickers[near[l].cik] = tickers[cik]
      BY <1>10, <1>12, <1>14, <2>1
    <2> QED BY <1>16, <2>2
  <1> HIDE DEF R, S1, S2, room, tickers
  <1>20. \A k, l \in 1 .. Len(rows) : k # l => rows[k].ticker # rows[l].ticker
    <2>1. \A k, l \in 1 .. Len(near) : k # l => near[k].ticker # near[l].ticker
      <3>1. \A k, l \in 1 .. Len(near) : k < l => near[k].ticker # near[l].ticker
        BY <1>2 DEF Foremost
      <3>2. \A k, l \in 1 .. Len(near) : k # l => k < l \/ l < k
        BY <1>3
      <3> QED BY <3>1, <3>2
    <2>2. \A k, l \in 1 .. Len(wide) : k # l => wide[k].ticker # wide[l].ticker
      <3> SUFFICES ASSUME NEW k \in 1 .. Len(wide), NEW l \in 1 .. Len(wide), k # l
                   PROVE  wide[k].ticker # wide[l].ticker
        OBVIOUS
      <3>1. Foremost(wide, ind, S2, room)
        BY <1>4, <1>6, <1>7
      <3>2. k < l \/ l < k
        BY <1>6
      <3> QED BY <3>1, <3>2 DEF Foremost
    <2>3. \A k \in 1 .. Len(near) : \A l \in 1 .. Len(wide) : near[k].ticker # wide[l].ticker
      <3> SUFFICES ASSUME NEW k \in 1 .. Len(near), NEW l \in 1 .. Len(wide)
                   PROVE  near[k].ticker # wide[l].ticker
        OBVIOUS
      <3>1. wide[l].ticker = tickers[wide[l].cik] /\ wide[l].cik \in S2
        BY <1>13, <1>14
      <3>2. wide[l].ticker \notin TickersOf(near)
        BY <1>11, <3>1
      <3> QED BY <1>18, <3>2
    <2> SUFFICES ASSUME NEW k \in 1 .. Len(rows), NEW l \in 1 .. Len(rows), k # l
                 PROVE  rows[k].ticker # rows[l].ticker
      OBVIOUS
    <2>4. CASE k \in 1 .. Len(near) /\ rows[k] = near[k]
      <3>1. CASE l \in 1 .. Len(near) /\ rows[l] = near[l]
        BY <2>1, <2>4, <3>1
      <3>2. CASE l - Len(near) \in 1 .. Len(wide) /\ rows[l] = wide[l - Len(near)]
        BY <2>3, <2>4, <3>2
      <3> QED BY <1>8, <3>1, <3>2
    <2>5. CASE k - Len(near) \in 1 .. Len(wide) /\ rows[k] = wide[k - Len(near)]
      <3>1. CASE l \in 1 .. Len(near) /\ rows[l] = near[l]
        <4>1. near[l].ticker # wide[k - Len(near)].ticker
          BY <2>3, <2>5, <3>1
        <4> QED BY <2>5, <3>1, <4>1
      <3>2. CASE l - Len(near) \in 1 .. Len(wide) /\ rows[l] = wide[l - Len(near)]
        <4>1. k - Len(near) # l - Len(near)
          BY <1>3, <1>6, <1>8
        <4>2. wide[k - Len(near)].ticker # wide[l - Len(near)].ticker
          BY <2>2, <2>5, <3>2, <4>1
        <4> QED BY <2>5, <3>2, <4>2
      <3> QED BY <1>8, <3>1, <3>2
    <2> QED BY <1>8, <2>4, <2>5
  <1>21. ASSUME NEW k \in 1 .. Len(rows), NEW cik \in Comparable(ind), Far(ind, cik) < rows[k].distance
         PROVE  \E l \in 1 .. Len(rows) : rows[l].cik = cik
    <2>1. Far(ind, cik) \in Int
      <3>1. cik \in Rankable(ind)
        BY DEF Comparable, Rankable
      <3>2. PICK row \in R : row.cik = cik
        BY <3>1, RowsAre DEF R
      <3> QED BY <1>14, <3>2
    <2>2. CASE k \in 1 .. Len(near) /\ rows[k] = near[k]
      <3>1. /\ near[k].distance = Far(ind, near[k].cik) /\ near[k].distance \in Int
            /\ Far(ind, near[k].cik) <= MaxLogDistance
        BY <1>10, <1>12, <1>14, <2>2
      <3>2. cik \in S1
        BY <1>21, <2>1, <2>2, <3>1 DEF S1, Reach, MaxLogDistance
      <3>3. \E l \in 1 .. Len(near) : near[l].cik = cik
        BY <1>2, <1>21, <2>2, <3>2 DEF Foremost
      <3> QED BY <1>8, <3>3
    <2>3. CASE k - Len(near) \in 1 .. Len(wide) /\ rows[k] = wide[k - Len(near)]
      <3>0. PICK j \in 1 .. Len(wide) : rows[k] = wide[j]
        BY <2>3
      <3>1. /\ wide[j].distance = Far(ind, wide[j].cik) /\ wide[j].distance \in Int
            /\ Far(ind, wide[j].cik) <= WidenedLogDistance
        BY <1>11, <1>13, <1>14
      <3>2. CASE tickers[cik] \in TickersOf(near)
        <4>1. \E l \in 1 .. Len(near) : near[l].cik = cik
          BY <1>19, <3>2
        <4> QED BY <1>8, <4>1
      <3>3. CASE tickers[cik] \notin TickersOf(near)
        <4>1. cik \in S2
          BY <1>21, <2>1, <3>0, <3>1, <3>3 DEF S2, Reach, WidenedLogDistance, tickers
        <4>2. Foremost(wide, ind, S2, room)
          BY <1>4, <1>6, <1>7
        <4>3. PICK l \in 1 .. Len(wide) : wide[l].cik = cik
          BY <1>21, <3>0, <4>1, <4>2 DEF Foremost
        <4>4. Len(near) + l \in 1 .. Len(rows) /\ rows[Len(near) + l] = wide[l]
          BY <1>8
        <4> QED BY <4>3, <4>4
      <3> QED BY <3>2, <3>3
    <2> QED BY <1>8, <2>2, <2>3
  <1>22. ASSUME Len(rows) < MinPeers PROVE Cardinality(Reach(ind, WidenedLogDistance, {})) <= Len(rows)
    <2> DEFINE W == Reach(ind, WidenedLogDistance, {})
               h == [cik \in W |-> CHOOSE k \in 1 .. Len(rows) : rows[k].cik = cik]
    <2>1. Len(near) < MinPeers /\ Len(wide) # room
      BY <1>1, <1>3, <1>6, <1>8, <1>22 DEF room
    <2>2. Foremost(wide, ind, S2, room)
      BY <1>4, <2>1
    <2>3. \A cik \in S2 : \E k \in 1 .. Len(wide) : wide[k].cik = cik
      BY <2>1, <2>2 DEF Foremost
    <2>4. \A cik \in W : cik \in Comparable(ind) /\ (tickers[cik] \notin TickersOf(near) => cik \in S2)
      BY DEF Reach, S2, tickers
    <2>5. \A cik \in W : \E k \in 1 .. Len(rows) : rows[k].cik = cik
      <3> SUFFICES ASSUME NEW cik \in W PROVE \E k \in 1 .. Len(rows) : rows[k].cik = cik
        OBVIOUS
      <3>1. \/ \E l \in 1 .. Len(near) : near[l].cik = cik
            \/ \E l \in 1 .. Len(wide) : wide[l].cik = cik
        BY <1>19, <2>3, <2>4
      <3>2. CASE \E l \in 1 .. Len(near) : near[l].cik = cik
        BY <1>8, <3>2
      <3>3. CASE \E l \in 1 .. Len(wide) : wide[l].cik = cik
        <4>1. PICK l \in 1 .. Len(wide) : wide[l].cik = cik
          BY <3>3
        <4>2. Len(near) + l \in 1 .. Len(rows) /\ rows[Len(near) + l] = wide[l]
          BY <1>8
        <4> QED BY <4>1, <4>2
      <3> QED BY <3>1, <3>2, <3>3
    <2> HIDE DEF W
    <2>6. \A cik \in W : h[cik] \in 1 .. Len(rows) /\ rows[h[cik]].cik = cik
      BY <2>5
    <2>7. h \in [W -> 1 .. Len(rows)]
      BY <2>6
    <2> HIDE DEF h
    <2>8. h \in Injection(W, 1 .. Len(rows))
      BY <2>6, <2>7 DEF Injection, IsInjective
    <2>9. Len(rows) \in Nat
      BY <1>3, <1>6, <1>8
    <2> DEFINE L == Len(rows)
    <2> HIDE DEF L
    <2>10. L \in Nat /\ h \in Injection(W, 1 .. L)
      BY <2>8, <2>9 DEF L
    <2>11. IsFiniteSet(1 .. L) /\ Cardinality(1 .. L) = L
      BY <2>10, FS_Interval
    <2>12. Cardinality(W) <= Cardinality(1 .. L)
      BY <2>10, <2>11, FS_Injection
    <2> QED BY <2>11, <2>12 DEF W, L
  <1>23. \A k \in 1 .. Len(rows) : \A cik \in Comparable(ind) :
             Far(ind, cik) < rows[k].distance => \E l \in 1 .. Len(rows) : rows[l].cik = cik
    BY <1>21
  <1>24. near \in Seq(PeerRows(ind)) /\ wide \in Seq(PeerRows(ind))
    BY <1>2, <1>6 DEF R
  <1>25. /\ Foremost(near, ind, Reach(ind, MaxLogDistance, {}), Limit)
         /\ Cardinality(Reach(ind, MaxLogDistance, {})) \in Nat
    BY <1>2 DEF S1
  <1> QED BY <1>9, <1>15, <1>20, <1>22, <1>23, <1>24, <1>25 DEF BothPasses

\* What the provider adds: nothing offered before, each once, with its own figures.
LEMMA VendorIs ==
    ASSUME NEW ind, IsIndustry(ind), NEW already, NEW room \in Nat,
           NEW v, v = ProviderFallback(ind, room, already)
    PROVE  /\ Len(v) <= room /\ \E X : v \in Seq(X)
           /\ \A k \in 1 .. Len(v) :
                  /\ v[k].by = "provider" /\ v[k].ticker \notin already
                  /\ v[k].ticker # ind.ticker /\ v[k].ticker \in ind.inScope
                  /\ v[k].figures # Nothing => PrimaryTickers(ind.listings)[v[k].figures] = v[k].ticker
           /\ \A k, l \in 1 .. Len(v) : k < l => v[k].ticker # v[l].ticker
  <1> DEFINE tickers == PrimaryTickers(ind.listings)
             given == ind.provider
             n == Len(given)
             fresh == {i \in DOMAIN given :
                          /\ given[i] \notin already \cup {ind.ticker} /\ InScope(ind, given[i])
                          /\ \A j \in 1 .. i - 1 : given[j] # given[i]}
             owner(x) == {cik \in DOMAIN tickers : tickers[cik] = x}
             peer(x) == [ticker |-> x, by |-> "provider", distance |-> 0,
                         figures |-> IF owner(x) = {} THEN Nothing
                                     ELSE Figures(ind, CHOOSE cik \in owner(x) : TRUE)]
             s == [i \in DOMAIN given |-> peer(given[i])]
             X == {peer(given[i]) : i \in DOMAIN given}
  <1>1. v = FirstOf(Picked(s, fresh), room)
    BY DEF ProviderFallback
  <1>2. given \in Seq(Range(given))
    BY DEF IsIndustry
  <1>3. n \in Nat /\ DOMAIN given = 1 .. n
    BY <1>2, LenProperties
  <1>4. s \in [1 .. n -> X] /\ fresh \in SUBSET (1 .. n)
    BY <1>3
  <1>5. \A i \in fresh : /\ s[i].by = "provider" /\ s[i].ticker = given[i] /\ s[i].ticker \notin already
                         /\ s[i].ticker # ind.ticker /\ s[i].ticker \in ind.inScope
    BY DEF InScope
  <1>6. \A i \in fresh : s[i].figures # Nothing => tickers[s[i].figures] = s[i].ticker
    <2> SUFFICES ASSUME NEW i \in fresh, s[i].figures # Nothing PROVE tickers[s[i].figures] = s[i].ticker
      OBVIOUS
    <2> DEFINE x == given[i]
               o == CHOOSE cik \in owner(x) : TRUE
    <2>1. s[i].ticker = x /\ s[i].figures = IF owner(x) = {} THEN Nothing ELSE Figures(ind, o)
      OBVIOUS
    <2>2. owner(x) # {} /\ s[i].figures = Figures(ind, o)
      BY <2>1
    <2>3. o \in owner(x)
      BY <2>2
    <2>4. s[i].figures = o
      BY <2>2 DEF Figures
    <2> QED BY <2>1, <2>3, <2>4
  <1>7. \A i, j \in fresh : i < j => s[i].ticker # s[j].ticker
    <2> SUFFICES ASSUME NEW i \in fresh, NEW j \in fresh, i < j PROVE s[i].ticker # s[j].ticker
      OBVIOUS
    <2>1. i \in 1 .. j - 1
      BY <1>3
    <2> QED BY <2>1
  <1> HIDE DEF fresh, s, X, n, tickers
  <1>8. v \in Seq(X) /\ Cardinality(fresh) \in Nat /\ TakenFrom(v, s, fresh, room)
    BY <1>1, <1>3, <1>4, TakenIs
  <1>9. \A k \in 1 .. Len(v) : \E i \in fresh : v[k] = s[i]
    BY <1>8 DEF TakenFrom
  <1>10. \A k, l \in 1 .. Len(v) : k < l => v[k].ticker # v[l].ticker
    <2>1. \A k, l \in 1 .. Len(v) : k < l => \E i, j \in fresh : i < j /\ v[k] = s[i] /\ v[l] = s[j]
      BY <1>8 DEF TakenFrom
    <2> QED BY <1>7, <2>1
  <1>11. Len(v) <= room
    BY <1>8 DEF TakenFrom
  <1>12. \A k \in 1 .. Len(v) :
             /\ v[k].by = "provider" /\ v[k].ticker \notin already
             /\ v[k].ticker # ind.ticker /\ v[k].ticker \in ind.inScope
             /\ v[k].figures # Nothing => tickers[v[k].figures] = v[k].ticker
    <2> SUFFICES ASSUME NEW k \in 1 .. Len(v)
                 PROVE  /\ v[k].by = "provider" /\ v[k].ticker \notin already
                        /\ v[k].ticker # ind.ticker /\ v[k].ticker \in ind.inScope
                        /\ v[k].figures # Nothing => tickers[v[k].figures] = v[k].ticker
      OBVIOUS
    <2>1. PICK i \in fresh : v[k] = s[i]
      BY <1>9
    <2> QED BY <1>5, <1>6, <2>1
  <1>13. \E Y : v \in Seq(Y)
    BY <1>8
  <1> QED BY <1>10, <1>11, <1>12, <1>13 DEF tickers

\* Peers that are rows, those of the first pass named for their size.
ArePeers(ind, near, wide, rows, chosen) ==
    /\ \E X : chosen \in Seq(X)
    /\ Len(near) \in Nat /\ Len(chosen) \in Nat /\ Len(near) <= Len(chosen)
    /\ Len(rows) = Len(chosen) /\ Len(chosen) = Len(near) + Len(wide)
    /\ \A k \in 1 .. Len(chosen) :
           chosen[k] = Peered(ind, rows[k], IF k <= Len(near) THEN "size" ELSE "relaxed")

\* What is chosen is such.
LEMMA ChosenIs ==
    ASSUME NEW ind, NEW R, NEW near \in Seq(R), NEW wide \in Seq(R), NEW rows, rows = near \o wide,
           NEW chosen, chosen = ChosenOf(ind, near, wide)
    PROVE  ArePeers(ind, near, wide, rows, chosen)
  <1> DEFINE a == [i \in DOMAIN near |-> Peered(ind, near[i], "size")]
             b == [i \in DOMAIN wide |-> Peered(ind, wide[i], "relaxed")]
             X == {Peered(ind, row, by) : row \in R, by \in {"size", "relaxed"}}
  <1>1. /\ Len(near) \in Nat /\ DOMAIN near = 1 .. Len(near) /\ \A k \in 1 .. Len(near) : near[k] \in R
        /\ Len(wide) \in Nat /\ DOMAIN wide = 1 .. Len(wide) /\ \A k \in 1 .. Len(wide) : wide[k] \in R
    BY LenProperties, ElementOfSeq
  <1>2. a \in [1 .. Len(near) -> X] /\ b \in [1 .. Len(wide) -> X]
    BY <1>1
  <1>3. a \in Seq(X) /\ b \in Seq(X)
    <2> DEFINE p == Len(near)
               q == Len(wide)
    <2> HIDE DEF a, b, X, p, q
    <2>1. p \in Nat /\ a \in [1 .. p -> X]
      BY <1>1, <1>2 DEF p
    <2>2. q \in Nat /\ b \in [1 .. q -> X]
      BY <1>1, <1>2 DEF q
    <2>3. a \in Seq(X)
      BY <2>1, SeqDef
    <2>4. b \in Seq(X)
      BY <2>2, SeqDef
    <2> QED BY <2>3, <2>4
  <1>4. Len(a) = Len(near) /\ Len(b) = Len(wide)
    <2>1. DOMAIN a = 1 .. Len(near) /\ DOMAIN b = 1 .. Len(wide)
      BY <1>1
    <2> HIDE DEF a, b, X
    <2> QED BY <1>1, <1>3, <2>1, LenProperties
  <1>5. /\ \A k \in 1 .. Len(near) : a[k] = Peered(ind, near[k], "size")
        /\ \A k \in 1 .. Len(wide) : b[k] = Peered(ind, wide[k], "relaxed")
    BY <1>1
  <1>6. chosen = a \o b
    BY DEF ChosenOf
  <1> HIDE DEF a, b, X
  <1>7. /\ chosen \in Seq(X) /\ Len(chosen) = Len(near) + Len(wide)
        /\ \A k \in 1 .. Len(chosen) : \/ k \in 1 .. Len(near) /\ chosen[k] = a[k]
                                       \/ k - Len(near) \in 1 .. Len(wide) /\ chosen[k] = b[k - Len(near)]
    <2> DEFINE Join(c) == /\ c \in Seq(X) /\ Len(c) = Len(a) + Len(b)
                          /\ \A k \in 1 .. Len(c) : \/ k \in 1 .. Len(a) /\ c[k] = a[k]
                                                    \/ k - Len(a) \in 1 .. Len(b) /\ c[k] = b[k - Len(a)]
    <2>0. \A c : c = a \o b => Join(c)
      BY <1>3, JoinIs
    <2>1. Join(chosen)
      <3> HIDE DEF Join
      <3> QED BY <1>6, <2>0
    <2>2. Len(chosen) = Len(near) + Len(wide)
      BY <1>4, <2>1
    <2>3. ASSUME NEW k \in 1 .. Len(chosen)
          PROVE  \/ k \in 1 .. Len(near) /\ chosen[k] = a[k]
                 \/ k - Len(near) \in 1 .. Len(wide) /\ chosen[k] = b[k - Len(near)]
      <3>1. \/ k \in 1 .. Len(a) /\ chosen[k] = a[k]
            \/ k - Len(a) \in 1 .. Len(b) /\ chosen[k] = b[k - Len(a)]
        BY <2>1
      <3> QED BY <1>4, <3>1
    <2> QED BY <2>1, <2>2, <2>3
  <1>8. /\ Len(rows) = Len(near) + Len(wide)
        /\ \A k \in 1 .. Len(near) : rows[k] = near[k]
        /\ \A k \in 1 .. Len(rows) : \/ k \in 1 .. Len(near) /\ rows[k] = near[k]
                                     \/ k - Len(near) \in 1 .. Len(wide) /\ rows[k] = wide[k - Len(near)]
    <2>1. Len(rows) = Len(near) + Len(wide)
      BY JoinIs
    <2>2. \A k \in 1 .. Len(near) : rows[k] = near[k]
      BY JoinIs
    <2>3. \A k \in 1 .. Len(rows) : \/ k \in 1 .. Len(near) /\ rows[k] = near[k]
                                    \/ k - Len(near) \in 1 .. Len(wide) /\ rows[k] = wide[k - Len(near)]
      BY JoinIs
    <2> QED BY <2>1, <2>2, <2>3
  <1>9. ASSUME NEW k \in 1 .. Len(chosen)
        PROVE  chosen[k] = Peered(ind, rows[k], IF k <= Len(near) THEN "size" ELSE "relaxed")
    <2>1. CASE k \in 1 .. Len(near)
      <3>1. k <= Len(near) /\ k - Len(near) \notin 1 .. Len(wide)
        BY <1>1, <2>1
      <3>2. chosen[k] = a[k]
        BY <1>7, <3>1
      <3>3. rows[k] = near[k]
        BY <1>8, <2>1
      <3> QED BY <1>5, <2>1, <3>1, <3>2, <3>3
    <2>2. CASE k \notin 1 .. Len(near)
      <3>1. /\ k - Len(near) \in 1 .. Len(wide) /\ chosen[k] = b[k - Len(near)]
            /\ rows[k] = wide[k - Len(near)]
        <4>1. k - Len(near) \in 1 .. Len(wide) /\ chosen[k] = b[k - Len(near)]
          BY <1>7, <2>2
        <4>2. k \in 1 .. Len(rows)
          BY <1>7, <1>8
        <4>3. rows[k] = wide[k - Len(near)]
          BY <1>8, <2>2, <4>2
        <4> QED BY <4>1, <4>3
      <3>2. ~(k <= Len(near))
        BY <1>1, <1>7, <2>2
      <3> QED BY <1>5, <3>1, <3>2
    <2> QED BY <2>1, <2>2
  <1>10. \E Y : chosen \in Seq(Y)
    BY <1>7
  <1>11. Len(chosen) \in Nat /\ Len(near) <= Len(chosen)
    BY <1>1, <1>7
  <1>12. Len(rows) = Len(chosen)
    BY <1>7, <1>8
  <1> QED BY <1>1, <1>7, <1>9, <1>10, <1>11, <1>12 DEF ArePeers

\* A list of some things is one of more things.
LEMMA SeqOfMore ==
    ASSUME NEW X, NEW Y, X \subseteq Y, NEW s \in Seq(X)
    PROVE  s \in Seq(Y)
  <1>1. PICK n \in Nat : s \in [1 .. n -> X]
    BY SeqDef
  <1>2. s \in [1 .. n -> Y]
    BY <1>1
  <1> QED BY <1>1, <1>2, SeqDef

\* What a selection says of itself.
GapsOf(ind, near, peers) ==
    (IF IndustryRevenues(ind) = <<>> THEN {"no revenues"} ELSE {})
        \cup (IF Len(near) < MinPeers THEN {"cutoff relaxed"} ELSE {})
        \cup (IF Len(peers) < MinPeers THEN {"few peers"} ELSE {})

\* A selection is its steps.
LEMMA SelectedIs ==
    ASSUME NEW ind, Classified(ind)
    PROVE  LET near == NearOf(ind)
               chosen == ChosenOf(ind, near, WideOf(ind, near))
               peers == chosen \o VendorOf(ind, chosen)
           IN  Select(ind).peers = peers /\ Select(ind).gaps = GapsOf(ind, near, peers)
  <1> DEFINE near == NearOf(ind)
             chosen == ChosenOf(ind, near, WideOf(ind, near))
             peers == chosen \o VendorOf(ind, chosen)
  <1>1. Select(ind) = [peers |-> peers, gaps |-> GapsOf(ind, near, peers)]
    BY DEF Select, NearOf, WideOf, ChosenOf, VendorOf, GapsOf, TickersOf, Peered
  <1> QED BY <1>1

\* What is offered is nearest.
LEMMA SelectIsNearest ==
    ASSUME NEW ind, IsIndustry(ind), Classified(ind), NEW o, o = Select(ind)
    PROVE  NearestPeers(ind, o)
  <1> DEFINE tickers == PrimaryTickers(ind.listings)
             R == PeerRows(ind)
             S == Reach(ind, MaxLogDistance, {})
             W == Reach(ind, WidenedLogDistance, {})
  <1>1. PICK near : near = NearOf(ind)
    OBVIOUS
  <1>2. PICK wide : wide = WideOf(ind, near)
    OBVIOUS
  <1>3. PICK chosen : chosen = ChosenOf(ind, near, wide)
    OBVIOUS
  <1>4. PICK vendor : vendor = VendorOf(ind, chosen)
    OBVIOUS
  <1> DEFINE peers == o.peers
  <1>5. peers = chosen \o vendor
    BY <1>1, <1>2, <1>3, <1>4, SelectedIs
  <1>6. PICK rows : rows = near \o wide
    OBVIOUS
  <1>7. /\ Len(near) < MinPeers => "cutoff relaxed" \in o.gaps
        /\ Len(peers) < MinPeers => "few peers" \in o.gaps
    <2>1. o.gaps = GapsOf(ind, near, peers)
      BY <1>1, <1>2, <1>3, <1>4, <1>5, SelectedIs
    <2> QED BY <2>1 DEF GapsOf
  <1> HIDE DEF peers
  <1>8. MinPeers \in Nat /\ Limit \in Nat /\ MinPeers <= Limit
    BY PeersAssumption DEF PeersAssumption
  <1>9. /\ near \in Seq(R) /\ wide \in Seq(R) /\ Len(rows) <= Limit
        /\ Foremost(near, ind, S, Limit)
        /\ \A k \in 1 .. Len(rows) : rows[k].cik \in Comparable(ind)
        /\ \A k, l \in 1 .. Len(rows) : k # l => rows[k].ticker # rows[l].ticker
        /\ \A k \in 1 .. Len(rows) : \A cik \in Comparable(ind) :
               Far(ind, cik) < rows[k].distance => \E l \in 1 .. Len(rows) : rows[l].cik = cik
        /\ Len(rows) < MinPeers => Cardinality(W) <= Len(rows)
        /\ Cardinality(S) \in Nat
    <2>1. \A a, b, c : a = NearOf(ind) /\ b = WideOf(ind, a) /\ c = a \o b => BothPasses(ind, a, b, c)
      BY RowsOfBoth, PeersAssumption
    <2>2. BothPasses(ind, near, wide, rows)
      BY <1>1, <1>2, <1>6, <2>1
    <2> QED BY <2>2 DEF BothPasses
  <1> HIDE DEF S, W, R
  <1>10. /\ \E X : chosen \in Seq(X)
         /\ Len(near) \in Nat /\ Len(chosen) \in Nat /\ Len(near) <= Len(chosen)
         /\ Len(rows) = Len(chosen) /\ Len(chosen) = Len(near) + Len(wide)
         /\ \A k \in 1 .. Len(chosen) :
                chosen[k] = Peered(ind, rows[k], IF k <= Len(near) THEN "size" ELSE "relaxed")
    <2>1. near \in Seq(R) /\ wide \in Seq(R)
      BY <1>9
    <2>2. \A a, b : a = near \o wide /\ b = ChosenOf(ind, near, wide) => ArePeers(ind, near, wide, a, b)
      BY <2>1, ChosenIs
    <2>3. ArePeers(ind, near, wide, rows, chosen)
      BY <1>3, <1>6, <2>2
    <2> QED BY <2>3 DEF ArePeers
  <1>11. Limit - Len(chosen) \in Nat
    BY <1>8, <1>9, <1>10
  <1>12. ASSUME Len(chosen) < MinPeers
         PROVE  /\ Len(vendor) <= Limit - Len(chosen) /\ \E X : vendor \in Seq(X)
                /\ \A k \in 1 .. Len(vendor) :
                       /\ vendor[k].by = "provider" /\ vendor[k].ticker \notin TickersOf(chosen)
                       /\ vendor[k].ticker # ind.ticker /\ vendor[k].ticker \in ind.inScope
                       /\ vendor[k].figures # Nothing => tickers[vendor[k].figures] = vendor[k].ticker
                /\ \A k, l \in 1 .. Len(vendor) : k < l => vendor[k].ticker # vendor[l].ticker
    <2>1. vendor = ProviderFallback(ind, Limit - Len(chosen), TickersOf(chosen))
      BY <1>4, <1>12 DEF VendorOf
    <2> QED BY <1>11, <2>1, VendorIs
  <1>13. ASSUME ~(Len(chosen) < MinPeers) PROVE vendor = <<>> /\ Len(vendor) = 0 /\ \A X : vendor \in Seq(X)
    BY <1>4, <1>13 DEF VendorOf
  <1> HIDE DEF tickers
  <1>14. /\ Len(vendor) \in Nat /\ Len(vendor) <= Limit - Len(chosen)
         /\ \E X : vendor \in Seq(X)
         /\ \A k \in 1 .. Len(vendor) :
                /\ vendor[k].by = "provider" /\ vendor[k].ticker \notin TickersOf(chosen)
                /\ vendor[k].ticker # ind.ticker /\ vendor[k].ticker \in ind.inScope
                /\ vendor[k].figures # Nothing => tickers[vendor[k].figures] = vendor[k].ticker
         /\ \A k, l \in 1 .. Len(vendor) : k < l => vendor[k].ticker # vendor[l].ticker
    <2>1. \E X : vendor \in Seq(X)
      BY <1>12, <1>13
    <2>2. Len(vendor) \in Nat
      BY <2>1, LenProperties
    <2>3. CASE Len(chosen) < MinPeers
      BY <1>12, <2>2, <2>3
    <2>4. CASE ~(Len(chosen) < MinPeers)
      <3>1. Len(vendor) = 0 /\ 1 .. Len(vendor) = {}
        BY <1>13, <2>4
      <3> QED BY <1>11, <2>1, <2>2, <3>1
    <2> QED BY <2>3, <2>4
  <1>15. Len(vendor) # 0 => Len(chosen) < MinPeers
    BY <1>13
  <1>16. /\ Len(peers) = Len(chosen) + Len(vendor) /\ DOMAIN peers = 1 .. Len(peers)
         /\ \A k \in 1 .. Len(peers) : \/ k \in 1 .. Len(chosen) /\ peers[k] = chosen[k]
                                       \/ k - Len(chosen) \in 1 .. Len(vendor) /\ peers[k] = vendor[k - Len(chosen)]
         /\ \A k \in 1 .. Len(chosen) : k \in 1 .. Len(peers) /\ peers[k] = chosen[k]
    <2>1. PICK X : chosen \in Seq(X)
      BY <1>10
    <2>2. PICK Y : vendor \in Seq(Y)
      BY <1>14
    <2>3. PICK Z : Z = X \cup Y
      OBVIOUS
    <2>4. chosen \in Seq(Z)
      BY <2>1, <2>3, SeqOfMore
    <2>5. vendor \in Seq(Z)
      BY <2>2, <2>3, SeqOfMore
    <2>6. peers \in Seq(Z) /\ Len(peers) = Len(chosen) + Len(vendor)
      BY <1>5, <2>4, <2>5, JoinIs
    <2>7. \A k \in 1 .. Len(peers) : \/ k \in 1 .. Len(chosen) /\ peers[k] = chosen[k]
                                     \/ k - Len(chosen) \in 1 .. Len(vendor) /\ peers[k] = vendor[k - Len(chosen)]
      BY <1>5, <2>4, <2>5, JoinIs
    <2>8. \A k \in 1 .. Len(chosen) : k \in 1 .. Len(peers) /\ peers[k] = chosen[k]
      BY <1>5, <2>4, <2>5, JoinIs
    <2>9. DOMAIN peers = 1 .. Len(peers)
      BY <2>6, LenProperties
    <2> QED BY <2>6, <2>7, <2>8, <2>9
  <1>17. \A k \in 1 .. Len(chosen) : /\ chosen[k].ticker = rows[k].ticker /\ chosen[k].distance = rows[k].distance
                                     /\ chosen[k].by = (IF k <= Len(near) THEN "size" ELSE "relaxed")
                                     /\ chosen[k].figures = Figures(ind, rows[k].cik)
    BY <1>10 DEF Peered
  <1>18. \A k \in 1 .. Len(chosen) : rows[k].ticker = tickers[rows[k].cik] /\ rows[k].distance = Far(ind, rows[k].cik)
    <2>1. near \in Seq(R) /\ wide \in Seq(R)
      BY <1>9
    <2>2. rows \in Seq(R)
      BY <1>6, <2>1, JoinIs
    <2>3. \A k \in 1 .. Len(rows) : rows[k] \in R
      BY <2>2, ElementOfSeq
    <2>4. \A row \in R : row.ticker = tickers[row.cik] /\ row.distance = Far(ind, row.cik)
      BY RowsAre DEF R, tickers
    <2> QED BY <1>10, <2>3, <2>4
  <1>19. \A cik \in Comparable(ind) : /\ tickers[cik] \in ind.inScope /\ tickers[cik] # ind.ticker
                                      /\ cik \in DOMAIN IndustryRevenues(ind)
    BY DEF Comparable, tickers
  <1>20. \A k \in 1 .. Len(chosen) : rows[k].cik \in Comparable(ind)
    BY <1>9, <1>10
  <1>21. \A k \in 1 .. Len(chosen) : chosen[k].ticker \in TickersOf(chosen)
    <2>1. PICK X : chosen \in Seq(X)
      BY <1>10
    <2>2. DOMAIN chosen = 1 .. Len(chosen)
      BY <2>1, LenProperties
    <2> QED BY <2>2 DEF TickersOf
  \* What a peer is named for tells where it stands.
  <1>22. \A k \in 1 .. Len(peers) : /\ peers[k].by = "size" <=> k \in 1 .. Len(near)
                                    /\ peers[k].by \in {"size", "relaxed"} <=> k \in 1 .. Len(chosen)
                                    /\ peers[k].by = "provider" => Len(chosen) < MinPeers
                                    /\ peers[k].by \in {"size", "relaxed", "provider"}
    <2> SUFFICES ASSUME NEW k \in 1 .. Len(peers)
                 PROVE  /\ peers[k].by = "size" <=> k \in 1 .. Len(near)
                        /\ peers[k].by \in {"size", "relaxed"} <=> k \in 1 .. Len(chosen)
                        /\ peers[k].by = "provider" => Len(chosen) < MinPeers
                        /\ peers[k].by \in {"size", "relaxed", "provider"}
      OBVIOUS
    <2>1. CASE k \in 1 .. Len(chosen) /\ peers[k] = chosen[k]
      <3>1. peers[k].by = IF k <= Len(near) THEN "size" ELSE "relaxed"
        BY <1>17, <2>1
      <3>2. k <= Len(near) <=> k \in 1 .. Len(near)
        BY <1>10, <2>1
      <3> QED BY <2>1, <3>1, <3>2
    <2>2. CASE k - Len(chosen) \in 1 .. Len(vendor) /\ peers[k] = vendor[k - Len(chosen)]
      <3>1. peers[k].by = "provider"
        BY <1>14, <2>2
      <3>2. k \notin 1 .. Len(chosen) /\ k \notin 1 .. Len(near) /\ Len(vendor) # 0
        BY <1>10, <1>14, <1>16, <2>2
      <3> QED BY <1>15, <3>1, <3>2
    <2> QED BY <1>16, <2>1, <2>2
  <1>23. Len(peers) <= Limit
    BY <1>8, <1>10, <1>14, <1>16
  <1>24. \A i, j \in 1 .. Len(peers) : i # j => peers[i].ticker # peers[j].ticker
    <2>1. \A i, j \in 1 .. Len(chosen) : i # j => chosen[i].ticker # chosen[j].ticker
      BY <1>9, <1>10, <1>17
    <2>2. \A i, j \in 1 .. Len(vendor) : i # j => vendor[i].ticker # vendor[j].ticker
      <3> SUFFICES ASSUME NEW i \in 1 .. Len(vendor), NEW j \in 1 .. Len(vendor), i # j
                   PROVE  vendor[i].ticker # vendor[j].ticker
        OBVIOUS
      <3>1. i < j \/ j < i
        BY <1>14
      <3> QED BY <1>14, <3>1
    <2>3. \A i \in 1 .. Len(chosen) : \A j \in 1 .. Len(vendor) : chosen[i].ticker # vendor[j].ticker
      BY <1>14, <1>21
    <2> SUFFICES ASSUME NEW i \in 1 .. Len(peers), NEW j \in 1 .. Len(peers), i # j
                 PROVE  peers[i].ticker # peers[j].ticker
      OBVIOUS
    <2>4. CASE i \in 1 .. Len(chosen) /\ peers[i] = chosen[i]
      <3>1. CASE j \in 1 .. Len(chosen) /\ peers[j] = chosen[j]
        BY <2>1, <2>4, <3>1
      <3>2. CASE j - Len(chosen) \in 1 .. Len(vendor) /\ peers[j] = vendor[j - Len(chosen)]
        BY <2>3, <2>4, <3>2
      <3> QED BY <1>16, <3>1, <3>2
    <2>5. CASE i - Len(chosen) \in 1 .. Len(vendor) /\ peers[i] = vendor[i - Len(chosen)]
      <3>1. CASE j \in 1 .. Len(chosen) /\ peers[j] = chosen[j]
        <4>1. chosen[j].ticker # vendor[i - Len(chosen)].ticker
          BY <2>3, <2>5, <3>1
        <4> QED BY <2>5, <3>1, <4>1
      <3>2. CASE j - Len(chosen) \in 1 .. Len(vendor) /\ peers[j] = vendor[j - Len(chosen)]
        <4>1. i - Len(chosen) # j - Len(chosen)
          BY <1>10, <1>14, <1>16
        <4>2. vendor[i - Len(chosen)].ticker # vendor[j - Len(chosen)].ticker
          BY <2>2, <2>5, <3>2, <4>1
        <4> QED BY <2>5, <3>2, <4>2
      <3> QED BY <1>16, <3>1, <3>2
    <2> QED BY <1>16, <2>4, <2>5
  <1>25. \A k \in 1 .. Len(peers) : /\ peers[k].ticker \in ind.inScope /\ peers[k].ticker # ind.ticker
                                    /\ peers[k].figures # Nothing => tickers[peers[k].figures] = peers[k].ticker
    <2> SUFFICES ASSUME NEW k \in 1 .. Len(peers)
                 PROVE  /\ peers[k].ticker \in ind.inScope /\ peers[k].ticker # ind.ticker
                        /\ peers[k].figures # Nothing => tickers[peers[k].figures] = peers[k].ticker
      OBVIOUS
    <2>1. CASE k \in 1 .. Len(chosen) /\ peers[k] = chosen[k]
      <3>1. rows[k].cik \in Comparable(ind) /\ chosen[k].ticker = tickers[rows[k].cik]
        BY <1>17, <1>18, <1>20, <2>1
      <3>2. chosen[k].figures = rows[k].cik
        BY <1>17, <1>19, <2>1, <3>1 DEF Figures
      <3> QED BY <1>19, <2>1, <3>1, <3>2
    <2>2. CASE k - Len(chosen) \in 1 .. Len(vendor) /\ peers[k] = vendor[k - Len(chosen)]
      BY <1>14, <2>2
    <2> QED BY <1>16, <2>1, <2>2
  <1>26. \A k \in 1 .. Len(chosen) : \A cik \in Comparable(ind) :
             Far(ind, cik) < peers[k].distance => \E j \in 1 .. Len(peers) : peers[j].ticker = tickers[cik]
    <2> SUFFICES ASSUME NEW k \in 1 .. Len(chosen), NEW cik \in Comparable(ind), Far(ind, cik) < peers[k].distance
                 PROVE  \E j \in 1 .. Len(peers) : peers[j].ticker = tickers[cik]
      OBVIOUS
    <2>1. peers[k].distance = rows[k].distance
      BY <1>16, <1>17
    <2>2. PICK l \in 1 .. Len(rows) : rows[l].cik = cik
      BY <1>9, <1>10, <2>1
    <2>3. l \in 1 .. Len(chosen) /\ chosen[l].ticker = tickers[cik]
      BY <1>10, <1>17, <1>18, <2>2
    <2> QED BY <1>16, <2>3
  <1>27. {k \in 1 .. Len(peers) : peers[k].by \in {"size"}} = 1 .. Len(near)
    <2>1. \A k \in 1 .. Len(near) : k \in 1 .. Len(peers)
      BY <1>10, <1>14, <1>16
    <2> QED BY <1>22, <2>1
  <1>28. Len(near) \in {Limit, Cardinality(S)} /\ Len(near) <= Limit /\ Len(near) <= Cardinality(S)
    BY <1>9 DEF Foremost
  <1>29. Cardinality(1 .. Len(near)) = Min({Limit, Cardinality(S)})
    <2> DEFINE n == Len(near)
               c == Cardinality(S)
               m == Min({Limit, c})
    <2>1. n \in Nat /\ c \in Nat /\ n \in {Limit, c} /\ n <= Limit /\ n <= c /\ Limit \in Nat
      BY <1>8, <1>9, <1>10, <1>28
    <2> HIDE DEF n, c
    <2>2. Cardinality(1 .. n) = n
      BY <2>1, FS_Interval
    <2>3. {Limit, c} \in SUBSET Nat /\ {Limit, c} # {}
      BY <2>1
    <2>4. m \in {Limit, c} /\ \A x \in {Limit, c} : m <= x
      BY <2>3, MinIs
    <2> HIDE DEF m
    <2>5. n = m
      BY <2>1, <2>4
    <2> QED BY <2>2, <2>5 DEF n, m, c
  <1>30. Len(near) < MinPeers => Cardinality(S) < MinPeers
    BY <1>8, <1>9, <1>10, <1>28
  <1>31. ASSUME NEW k \in 1 .. Len(peers), peers[k].by \in {"relaxed", "provider"}
         PROVE  Len(near) < MinPeers
    <2>1. k \notin 1 .. Len(near)
      BY <1>22, <1>31
    <2>2. CASE k \in 1 .. Len(chosen)
      <3>1. Len(wide) # 0
        BY <1>10, <2>1, <2>2
      <3> QED BY <1>2, <3>1 DEF WideOf
    <2>3. CASE k \notin 1 .. Len(chosen)
      <3>1. Len(chosen) < MinPeers
        BY <1>22, <2>3
      <3> QED BY <1>8, <1>10, <3>1
    <2> QED BY <2>2, <2>3
  <1>32. ASSUME NEW k \in 1 .. Len(peers), peers[k].by \in {"provider"}
         PROVE  Cardinality(W) < MinPeers
    <2>1. Len(chosen) < MinPeers
      BY <1>22, <1>32
    <2>2. Cardinality(W) <= Len(chosen)
      BY <1>9, <1>10, <2>1
    <2>3. Cardinality(W) \in Nat
      <3>1. WidenedLogDistance \in Nat
        BY DEF WidenedLogDistance
      <3> QED BY <1>8, <3>1, NearestFirst DEF W
    <2> QED BY <1>8, <1>10, <2>1, <2>2, <2>3
  <1> DEFINE within(cutoff) == {cik \in Comparable(ind) : Far(ind, cik) <= cutoff}
             of(by) == {k \in DOMAIN peers : peers[k].by \in by}
  <1>33. within(MaxLogDistance) = S /\ within(WidenedLogDistance) = W
    BY DEF Reach, S, W
  <1>34. \A i \in of({"size", "relaxed"}) : i \in 1 .. Len(chosen)
    BY <1>16, <1>22
  <1>35. of({"size"}) = 1 .. Len(near)
    BY <1>16, <1>27
  <1>36. of({"relaxed", "provider"}) # {} => Len(near) < MinPeers
    BY <1>16, <1>31
  <1>37. of({"provider"}) # {} => Cardinality(W) < MinPeers
    BY <1>16, <1>32
  <1> HIDE DEF within, of
  <1>38. /\ Len(peers) <= Limit
         /\ \A i, j \in DOMAIN peers : i # j => peers[i].ticker # peers[j].ticker
         /\ \A i \in DOMAIN peers : peers[i].ticker \in ind.inScope /\ peers[i].ticker # ind.ticker
    BY <1>16, <1>23, <1>24, <1>25
  <1>39. \A i \in of({"size", "relaxed"}) : \A cik \in Comparable(ind) :
             Far(ind, cik) < peers[i].distance => \E j \in DOMAIN peers : peers[j].ticker = tickers[cik]
    BY <1>16, <1>26, <1>34
  <1>40. Cardinality(of({"size"})) = Min({Limit, Cardinality(within(MaxLogDistance))})
    BY <1>29, <1>33, <1>35
  <1>41. of({"relaxed", "provider"}) # {} => /\ Cardinality(within(MaxLogDistance)) < MinPeers
                                             /\ "cutoff relaxed" \in o.gaps
    BY <1>7, <1>30, <1>33, <1>36
  <1>42. of({"provider"}) # {} => Cardinality(within(WidenedLogDistance)) < MinPeers
    BY <1>33, <1>37
  <1>43. Len(peers) < MinPeers => "few peers" \in o.gaps
    BY <1>7
  <1>44. \A i \in DOMAIN peers : peers[i].figures # Nothing => tickers[peers[i].figures] = peers[i].ticker
    BY <1>16, <1>25
  <1> QED BY <1>38, <1>39, <1>40, <1>41, <1>42, <1>43, <1>44 DEF NearestPeers, peers, within, of, tickers

\* What is offered from its fetch on, until the plan is made, is the selection.
Offered == /\ case \in Cases
           /\ step = "plan" /\ case.backend = "live" => offered = Select(case.industry)

\* Nothing is offered before the first step.
LEMMA OfferedInit == Init => Offered
  BY DEF Init, Offered

\* Only the fetch of the peers enters the plan step.
LEMMA OfferedStep == Offered /\ [Next]_vars => Offered'
  <1> SUFFICES ASSUME Offered, [Next]_vars PROVE Offered'
    OBVIOUS
  <1>1. FirstStep(turn') # "plan"
    BY DEF FirstStep
  <1>2. CASE UNCHANGED <<case, step, offered>>
    BY <1>2 DEF Offered
  <1>3. CASE UNCHANGED case /\ step' # "plan"
    BY <1>3 DEF Offered
  <1>4. CASE Ingest
    <2>1. UNCHANGED case /\ turn' = 1 /\ step' = FirstStep(1)
      BY <1>4 DEF Ingest
    <2> QED BY <1>1, <1>3, <2>1
  <1>5. CASE FetchPeers
    BY <1>5 DEF Offered, FetchPeers
  <1>6. CASE Calculate
    BY <1>3, <1>6 DEF Calculate
  <1>7. CASE Rejected
    BY <1>2, <1>7 DEF Rejected
  <1>8. ASSUME NEW p \in Plans, MakePlan(p) PROVE Offered'
    <2>1. \/ UNCHANGED case /\ step' = "calculate"
          \/ Rejected
      BY <1>8, Zenon DEF MakePlan
    <2> QED BY <1>3, <1>7, <2>1
  <1>9. ASSUME NEW out \in Outputs, Answer(out) PROVE Offered'
    <2>1. \/ UNCHANGED case /\ turn' = turn + 1 /\ step' = FirstStep(turn + 1)
          \/ Rejected
      BY <1>9, Zenon DEF Answer
    <2>2. FirstStep(turn + 1) # "plan"
      BY DEF FirstStep
    <2> QED BY <1>3, <1>7, <2>1, <2>2
  <1>10. CASE LlmFails \/ Over \/ UNCHANGED vars
    BY <1>2, <1>10 DEF LlmFails, Over, vars
  <1> QED BY <1>4, <1>5, <1>6, <1>8, <1>9, <1>10 DEF Next

\* The peers offered are the nearest there are, whatever the industry, the ticker map and the
\* provider say; a wider cutoff and the provider's picks serve only for lack of closer
\* companies, and are named (data/normalize/peers.py select).
THEOREM PeersAreJustified == Spec => []PeersJustified
  <1>1. Offered => PeersJustified
    <2> SUFFICES ASSUME Offered, step = "plan", case.backend = "live", Classified(case.industry)
                 PROVE  NearestPeers(case.industry, offered)
      BY DEF PeersJustified
    <2>1. case \in Cases /\ offered = Select(case.industry)
      BY DEF Offered
    <2>2. IsIndustry(case.industry)
      BY <2>1, EvidenceAssumption DEF EvidenceAssumption
    <2> QED BY <2>1, <2>2, SelectIsNearest
  <1> QED BY <1>1, OfferedInit, OfferedStep, PTL DEF Spec
=============================================================================
