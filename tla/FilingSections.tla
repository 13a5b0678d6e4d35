--------------------------- MODULE FilingSections ---------------------------
(* How a 10-K is cut into sections (data/sections).  A document is a        *)
(* sequence of pieces.  A piece begins where an Item or a terminator is     *)
(* named (the start of the document apart) and runs to the next such place: *)
(*   at   the Item or terminator named, "" at the start of the document;    *)
(*   lead whether the name begins its line;                                 *)
(*   text the sentences up to the next piece.                               *)
(* An offset is the number of a piece, a length is counted in sentences.    *)
EXTENDS Naturals, Sequences, SequencesExt

CONSTANT MinSection   \* sentences that make a real section: MIN_SECTION_CHARS
ASSUME MinSectionAssumption == MinSection \in Nat \ {0}

\* The Items a 10-K heading can name, in the order a 10-K presents them
ItemOrder == <<"business", "risk_factors", "mdna", "financial_statements", "controls">>
Items == Range(ItemOrder)
Rank(item) == CHOOSE i \in DOMAIN ItemOrder : ItemOrder[i] = item

\* Headings that only follow Item 1A: Items 1B, 1C, 2 and 3
Terminators == {"1b", "1c", "2", "3"}

\* What the business agent needs, and the default of extract()
WantedItems == <<"business", "risk_factors">>

TextOf(doc, from, to) == FlattenSeq([i \in 1 .. to - from |-> doc[from + i - 1].text])

\* An Item named within a sentence is a cross-reference, not a heading
StartsALine(doc, i) == doc[i].lead
Candidates(doc) == {i \in DOMAIN doc : doc[i].at \in Items /\ StartsALine(doc, i)}
TerminatorOffsets(doc) == {i \in DOMAIN doc : doc[i].at \in Terminators}

FirstAfter(places, i, end) ==
    LET later == {j \in places : j > i}
    IN  IF later = {} THEN end ELSE CHOOSE j \in later : \A k \in later : j <= k

\* How far a heading is from the next structural marker of any kind
SpanOf(doc, i) == Len(TextOf(doc, i, FirstAfter(Candidates(doc) \cup TerminatorOffsets(doc), i, Len(doc) + 1)))

\* The longest run of headings in the order of a 10-K; the earliest of equals
InCanonicalOrder(doc, headings) ==
    LET longest(ends, run) == {i \in ends : \A j \in ends : Len(run[j]) <= Len(run[i])}
        best[i \in DOMAIN headings] ==
            LET before == {j \in 1 .. i - 1 : Rank(doc[headings[j]].at) < Rank(doc[headings[i]].at)}
            IN  IF before = {} THEN <<headings[i]>>
                ELSE Append(best[FirstAfter(longest(before, [j \in before |-> best[j]]), 0, 0)], headings[i])
    IN  IF headings = <<>> THEN <<>> ELSE best[FirstAfter(longest(DOMAIN headings, best), 0, 0)]

\* Mutant: the last candidate of each Item wins
Winners_Bug(doc, wanted) ==
    LET long(item) == {i \in Candidates(doc) : doc[i].at = item /\ SpanOf(doc, i) >= MinSection}
    IN  {CHOOSE i \in long(item) : \A j \in long(item) : j <= i : item \in {w \in Range(wanted) : long(w) # {}}}

\* Of each Item, the first candidate that has a section's length after it: a
\* contents line is followed at once by the next one.
Winners(doc, wanted) ==
    LET long(item) == {i \in Candidates(doc) : doc[i].at = item /\ SpanOf(doc, i) >= MinSection}
    IN  {FirstAfter(long(item), 0, 0) : item \in {w \in Range(wanted) : long(w) # {}}}

RealHeadings(doc, wanted) == InCanonicalOrder(doc, SetToSortSeq(Winners(doc, wanted), <))

\* Whose text an offset belongs to: the key of the repository, and the key
\* that evidence cites.
BuildSectionId(item) == <<"sec", item>>
BuildSourceId(item) == <<"src:edgar_text", item>>

\* Each section runs to the next heading kept, or to the first terminator
\* after it.  A section too short is dropped, an Item without one is named.
Split(doc, wanted) ==
    LET headings == RealHeadings(doc, wanted)
        stop(k) == FirstAfter({headings[k + 1] : j \in {1} \cap (1 .. Len(headings) - k)} \cup TerminatorOffsets(doc),
                              headings[k], Len(doc) + 1)
        section(k) == [item |-> doc[headings[k]].at, start |-> headings[k], stop |-> stop(k),
                       text |-> TextOf(doc, headings[k], stop(k)),
                       section_id |-> BuildSectionId(doc[headings[k]].at),
                       source_id |-> BuildSourceId(doc[headings[k]].at)]
        long(k) == Len(section(k).text) >= MinSection
        kept == SelectSeq([k \in DOMAIN headings |-> k], long)
    IN  IF headings = <<>> THEN [sections |-> <<>>, gaps |-> {"no heading"}]
        ELSE [sections |-> [k \in DOMAIN kept |-> section(kept[k])],
              gaps |-> {doc[headings[k]].at : k \in {j \in DOMAIN headings : ~long(j)}}
                           \cup (Range(wanted) \ {doc[headings[k]].at : k \in DOMAIN headings})]

\* The latest 10-K on or before as_of, fetched and split.  Whatever fails on
\* the way is a gap: the list of filings, an early date, a filing without a
\* primary document, the document itself.
Fetches == {"fetched", "not listed", "not filed", "no document", "not fetched"}
Extract(fetch, doc, wanted) ==
    IF fetch = "fetched" THEN Split(doc, wanted) ELSE [sections |-> <<>>, gaps |-> {fetch}]
=============================================================================
