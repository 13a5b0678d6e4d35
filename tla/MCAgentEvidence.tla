-------------------------- MODULE MCAgentEvidence --------------------------
(***************************************************************************)
(* Instance of AgentEvidence: 10-Ks whose true sections are known, among   *)
(* them the layouts parser.py names (a contents list, an exhibit index     *)
(* that names an Item early, cross-references late and within sentences),  *)
(* industries of four companies at every distance, and a fixture filing    *)
(* with a sentence that looks like an instruction.                         *)
(***************************************************************************)
EXTENDS AgentEvidence

Piece(at, lead, text) == [at |-> at, lead |-> lead, text |-> text]

\* Long enough for a section, with a cross-reference within a sentence
Body(item, other, text) == <<Piece(item, TRUE, SubSeq(text, 1, 2)), Piece(other, FALSE, SubSeq(text, 3, 3))>>
Line(at) == Piece(at, TRUE, <<"line">>)

BusinessText == <<"b1", "order", "b2">>
Long(item) == CASE item = "business" -> Body(item, "risk_factors", BusinessText)
                [] item = "risk_factors" -> Body(item, "business", <<"r1", "r2", "r3">>)
                [] item = "mdna" -> Body(item, "financial_statements", <<"m1", "m2", "m3">>)
                [] item = "financial_statements" -> Body(item, "mdna", <<"f1", "f2", "f3">>)
                [] item = "controls" -> Body(item, "risk_factors", <<"c1", "c2", "c3">>)

\* A layout: what the contents list names, how much text follows it, whether
\* an exhibit index names controls first, how long the risk factors and the
\* controls are, whether the risk factors are named again at a line's start.
Layouts == [contents : {<<>>, <<"business", "risk_factors", "1b", "2", "mdna", "financial_statements", "controls">>},
            intro : {0, 3}, index : BOOLEAN, risks : {"long", "short", "none"}, controls : {"long", "short"},
            again : BOOLEAN]
Sound(l) == l.again => l.risks = "long"
Present(l, item) == IF item = "risk_factors" THEN l.risks
                    ELSE IF item = "controls" THEN l.controls ELSE "long"
Pieces(l, item) == CASE Present(l, item) = "long" -> Long(item)
                     [] Present(l, item) = "short" -> <<Line(item)>>
                     [] OTHER -> <<>>
FrontMatter(l) == <<Piece("", TRUE, <<"cover">>)>>
            \o (IF l.index THEN <<Piece("controls", TRUE, <<"i1", "i2", "i3">>)>> ELSE <<>>)
            \o [i \in DOMAIN l.contents |->
                   Piece(l.contents[i], TRUE,
                         [k \in 1 .. 1 + (IF i = Len(l.contents) THEN l.intro ELSE 0) |-> "line"])]
Main(l) == Pieces(l, "business") \o Pieces(l, "risk_factors") \o <<Line("1b"), Line("3")>>
           \o Pieces(l, "mdna") \o Pieces(l, "financial_statements") \o Pieces(l, "controls")
Document(l) == FrontMatter(l) \o Main(l)
               \o (IF l.again THEN <<Piece("risk_factors", TRUE, <<"x1", "x2", "x3">>)>> ELSE <<>>)

\* Where a long section really begins in the document of a layout
TrueHeading(l, item) ==
    CHOOSE i \in Len(FrontMatter(l)) + 1 .. Len(FrontMatter(l) \o Main(l)) : Document(l)[i].at = item /\ Document(l)[i].lead

Plain == CHOOSE l \in Layouts : /\ l.contents # <<>> /\ l.intro = 0 /\ ~l.index /\ l.risks = "long"
                                /\ l.controls = "long" /\ ~l.again

\* Industries: the company is cik 50 with ticker 5 and another share class,
\* ticker 15; company 20 lists a preferred stock first.
Listings == <<<<1, 10, 3>>, <<12, 20, 5>>, <<2, 20, 4>>, <<3, 30, 3>>, <<4, 40, 3>>, <<5, 50, 3>>, <<15, 50, 4>>>>
Absent == -2
Sizes == {Absent, 90, 77, 74, 111}
Frame(sizes) == [cik \in {c \in DOMAIN sizes : sizes[c] # Absent} |-> sizes[cik]]
None == [cik \in {} |-> 0]
Industry(contract, revenues, net) ==
    [sic |-> "plain", members |-> <<40, 20, 50, 10, 30>>, listings |-> Listings, inScope |-> {1, 2, 3, 4, 5, 7, 15},
     frames |-> [Contract |-> Frame(contract), Revenues |-> Frame(revenues), NetOfInterest |-> Frame(net)],
     provider |-> <<12, 7, 3>>, ticker |-> 5, cik |-> 50, size |-> 90]
Empty == [cik \in {10} |-> Absent]
OneFrame == {Industry([c \in {10, 20, 30, 40} |-> IF c = 10 THEN w ELSE IF c = 20 THEN x ELSE IF c = 30 THEN y ELSE z],
                      Empty, Empty) : w, x, y, z \in Sizes}
Typical == Industry([c \in {10, 20, 30, 40} |-> 90], Empty, Empty)
Industries ==
    OneFrame
    \cup {[i EXCEPT !.inScope = {1, 5, 7}] : i \in {j \in OneFrame : j.frames.Contract # None}}
    \cup {[Typical EXCEPT !.size = Nothing], [Typical EXCEPT !.sic = ""],
          Industry([c \in {10, 20} |-> Nothing], [c \in {10, 20, 30} |-> 85], Empty),
          [Industry([c \in {10, 20, 30} |-> 60], [c \in {20, 40} |-> 90], [c \in {10, 30} |-> 92]) EXCEPT !.sic = "bank"]}

Case(backend, fetch, l, wanted, ind) ==
    [backend |-> backend, fetch |-> fetch, layout |-> l, doc |-> Document(l), wanted |-> wanted, industry |-> ind]
MockCases == {Case("fixture", "fetched", Plain, WantedItems, Typical)}
LiveCases == {Case("live", "fetched", l, w, Typical) : l \in {k \in Layouts : Sound(k)}, w \in {WantedItems, ItemOrder}}
             \cup {Case("live", f, Plain, WantedItems, Typical) : f \in Fetches}
             \cup {Case("live", "not listed", Plain, WantedItems, i) : i \in Industries}
AllCases == MockCases \cup LiveCases

\* The fixture filing, and what the models may answer to prompts
FixtureSource(item) == <<"src:edgar", item>>
FixtureFiling == <<[item |-> "business", section_id |-> <<"sec", "business">>, source_id |-> FixtureSource("business"),
                    text |-> <<"b1", "order", "b2", "b3">>],
                   [item |-> "risk_factors", section_id |-> <<"sec", "risk_factors">>,
                    source_id |-> FixtureSource("risk_factors"), text |-> <<"r1">>]>>
Agents == <<"business", "valuation", "synthesizer">>
TwoPeers == <<1, 2>>
Orders == {"order"}
Facts == {"revenue"}

Finding == [claim : {"c"}, source_id : {FixtureSource("business"), FixtureSource("risk_factors"), BuildSourceId("business")},
            quote : {<<"b1">>, <<"b1", "order">>, <<"b1", "REMOVED">>, <<"b2">>, <<"b1", "b2">>, <<"b3">>, <<"r1">>},
            numeral : {"none", "typed"}, fact_ids : {{}, {"revenue"}, {"unknown"}},
            calc_refs : {{}, {"reverse_dcf"}, {"peer_median"}}]
Likely(f) == /\ (f.quote = <<"r1">>) = (f.source_id = FixtureSource("risk_factors"))
             /\ f.source_id = BuildSourceId("business") => f.quote = <<"b1">>
             /\ f.calc_refs # {} => f.fact_ids # {"revenue"}
Answers == {[parses |-> TRUE, extras |-> TRUE, findings |-> <<f>>] : f \in {g \in Finding : Likely(g)}}
           \cup {[parses |-> TRUE, extras |-> x, findings |-> <<>>] : x \in BOOLEAN}
           \cup {[parses |-> FALSE, extras |-> FALSE, findings |-> <<>>]}
           \cup {[parses |-> TRUE, extras |-> FALSE, findings |-> <<[f EXCEPT !.claim = c]>>] :
                    f \in {g \in Finding : g.quote = <<"r1">> /\ Likely(g)}, c \in {"", "c"}}
PlanAnswers == [parses : {TRUE}, reasons : BOOLEAN, methods : {{}, {"peer_median"}, {"reverse_dcf"}},
                peers : {{}, {1}, {1, 9}, {9}}]

\* Whatever the layout, a section begins at the Item's own heading, holds its
\* whole body and nothing of another Item returned, and an Item asked for is
\* returned or named in the gaps: neither a contents line, nor an index, nor a
\* cross-reference is taken for a section (data/sections/parser.py).
SectionsAreTheirItems ==
    (case.backend = "live" /\ case.fetch = "fetched") =>
        LET l == case.layout
            sections == extracted.sections
            body(item) == TrueHeading(l, item) .. TrueHeading(l, item) + 1
            span(s) == s.start .. s.stop - 1
        IN  /\ \A i \in DOMAIN sections :
                   /\ Present(l, sections[i].item) = "long"
                   /\ sections[i].start = TrueHeading(l, sections[i].item)
                   /\ body(sections[i].item) \subseteq span(sections[i])
                   /\ \A j \in DOMAIN sections : i # j => span(sections[i]) \cap body(sections[j].item) = {}
            /\ \A item \in Range(case.wanted) :
                   \/ \E i \in DOMAIN sections : sections[i].item = item
                   \/ extracted.gaps \cap {item, "no heading"} # {}
=============================================================================
