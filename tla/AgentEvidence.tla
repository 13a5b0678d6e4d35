--------------------------- MODULE AgentEvidence ---------------------------
(* From a filing to the claims that quote it.  Either the fixtures serve    *)
(* the sections of a filing (MODE=mock) or the live store cuts them out of  *)
(* the document; the coordinator fetches the sections its agents read; each *)
(* agent in turn is shown its own, with sentences that look like            *)
(* instructions removed, and answers with findings, of which it keeps those *)
(* it can verify.  The valuation agent first plans methods and peers.  The  *)
(* synthesizer is shown only the quotes of earlier claims.                  *)
(*                                                                          *)
(* A sentence is a model value, a quote a sequence of sentences.           *)
(* The agents run one after the other here: they share nothing but claims,  *)
(* which the coordinator merges in this order (module Pipeline).            *)
EXTENDS FilingSections, PeerGroup

CONSTANTS
    Roster,        \* the agents of a run, in canonical order
    Cases,         \* where a run starts: records of backend, fetch, doc, industry
    Fixture,       \* sections of the fixture filing
    FixturePeers,  \* tickers of the fixture peers
    Instructions,  \* sentences that look like an instruction to the analyst
    Outputs,       \* what a model may answer to a prompt for findings
    Plans,         \* what it may answer to the valuation agent's first prompt
    GivenFacts,    \* fact ids in the context
    MaxSection     \* sentences of a section an agent is shown: MAX_SECTION_CHARS

Removed == "REMOVED"

\* Sections are kept by id and shown by source id, one of each in a filing.
ASSUME EvidenceAssumption ==
    /\ Removed \notin Instructions
    /\ MaxSection \in Nat
    /\ Fixture \in Seq(Range(Fixture))
    /\ \A s \in Range(Fixture) :
          /\ DOMAIN s = {"item", "section_id", "source_id", "text"}
          /\ s.text \in Seq(Range(s.text))
    /\ \A s, t \in Range(Fixture) :
          s.section_id = t.section_id \/ s.source_id = t.source_id => s = t
    /\ \A out \in Outputs :
          /\ out.findings \in Seq(Range(out.findings))
          /\ \A f \in Range(out.findings) : f.quote \in Seq(Range(f.quote))
    /\ \A c \in Cases : c.backend = "live" => IsIndustry(c.industry)

MaxAttempts == 2   \* one retry: MAX_OUTPUT_RETRIES

VARIABLES
    case,      \* the backend, the filing and the industry of this run
    extracted, \* the sections the backend holds
    fetched,   \* the sections the coordinator has fetched
    turn,      \* 0: ingest, n: the n-th agent of the roster
    step,      \* "peers", "plan", "calculate" or "findings"
    attempt,   \* attempts of the model call made
    offered,   \* the peer candidates, and what select() says of them (the live tool
               \* hands on the peers only)
    plan,      \* methods and peers of the valuation agent
    calc,      \* [calc path -> fact ids its figure is derived from]
    claims,    \* claims merged into the state
    fate       \* "open", "refused" (no output accepted), "llm error" or "done"

vars == <<case, extracted, fetched, turn, step, attempt, offered, plan, calc, claims, fate>>

\* What the agents are: the Items each reads, whether it calls calc, and
\* whether it must write no numeral that its quotes lack.
ItemsOf == [financial |-> {"mdna"}, business |-> {"business", "risk_factors", "mdna"},
            valuation |-> {"mdna", "business"}, scenario |-> {"mdna", "business", "risk_factors"},
            red_team |-> {"risk_factors", "mdna", "business"}, synthesizer |-> {}]
ItemsNeeded == UNION {ItemsOf[Roster[i]] : i \in DOMAIN Roster}
UsesCalc(a) == a = "valuation"
StrictNumerals(a) == a = "synthesizer"
Nested(a) == a \in {"scenario", "red_team", "synthesizer"}
FirstStep(n) == IF n \in DOMAIN Roster /\ UsesCalc(Roster[n]) THEN "peers" ELSE "findings"

NoPlan == [methods |-> {}, peers |-> {}]
NoPeers == [peers |-> <<>>, gaps |-> {}]
NoCalc == [p \in {} |-> {}]

Init == /\ case \in Cases
        /\ extracted = (IF case.backend = "live" THEN Extract(case.fetch, case.doc, case.wanted)
                        ELSE [sections |-> Fixture, gaps |-> {}])
        /\ fetched = <<>> /\ turn = 0 /\ step = "ingest" /\ attempt = 0
        /\ offered = NoPeers /\ plan = NoPlan /\ calc = NoCalc
        /\ claims = <<>> /\ fate = "open"

(***************************************************************************)
(* Ingest.                                                                 *)
(***************************************************************************)
\* The filings the tool search_filings answers with: it asks the repository
\* for limit 0 and slices the answer itself.  The fixtures take 0 for all,
\* the live store slices to it, and its rows carry no section ids.
SearchFilings ==
    LET filing == [section_ids |-> [i \in DOMAIN extracted.sections |-> extracted.sections[i].section_id]]
        rows == IF case.backend = "live" THEN <<[filing EXCEPT !.section_ids = <<>>]>> ELSE <<filing>>
    IN  IF case.backend = "live" THEN FirstOf(rows, 0) ELSE rows

\* get_filing_section: a verbatim prefix of the section
GetSection(id) ==
    LET s == CHOOSE i \in DOMAIN extracted.sections : extracted.sections[i].section_id = id
    IN  [extracted.sections[s] EXCEPT !.text = FirstOf(@, MaxSection)]

SectionIds == FlattenSeq([f \in DOMAIN SearchFilings |-> SearchFilings[f].section_ids])

Ingest ==
    /\ step = "ingest"
    /\ fetched' = LET wanted == InOrder({i \in DOMAIN SectionIds : SectionIds[i][2] \in ItemsNeeded})
                  IN  [k \in DOMAIN wanted |-> GetSection(SectionIds[wanted[k]])]
    /\ turn' = 1 /\ step' = FirstStep(1)
    /\ UNCHANGED <<case, extracted, attempt, offered, plan, calc, claims, fate>>

(***************************************************************************)
(* What an agent is shown, and what of its answer is kept.                 *)
(***************************************************************************)
Agent == Roster[turn]
\* Mutant: quotes are checked against the text as it was fetched
Neutralize_Bug(text) == text
Neutralize(text) == [i \in DOMAIN text |-> IF text[i] \in Instructions THEN Removed ELSE text[i]]

\* Every quote the claims carry, once for each source: the synthesizer's only
\* evidence
EvidencePool == ToSet(claims)
Quoted(source) ==
    LET own == {i \in DOMAIN claims : claims[i].source_id = source}
        once == InOrder({i \in own : \A j \in own : j < i => claims[j].quote # claims[i].quote})
    IN  FlattenSeq([k \in DOMAIN once |-> claims[once[k]].quote])

\* [source id -> the text shown]: quotes are checked against exactly this
Docs == IF Agent = "synthesizer"
        THEN [source \in {c.source_id : c \in EvidencePool} |-> Quoted(source)]
        ELSE LET mine == {s \in Range(fetched) : s.item \in ItemsOf[Agent]}
             IN  [source \in {s.source_id : s \in mine} |->
                     Neutralize((CHOOSE s \in mine : s.source_id = source).text)]
FactsGiven == IF Agent = "synthesizer" THEN {} ELSE GivenFacts
CalcGiven == IF UsesCalc(Agent) THEN calc ELSE NoCalc

Verbatim(quote, text) ==
    \E i \in 0 .. Len(text) - Len(quote) : SubSeq(text, i + 1, i + Len(quote)) = quote
VerifiedEvidence(f) == f.source_id \in DOMAIN Docs /\ f.quote # <<>> /\ Verbatim(f.quote, Docs[f.source_id])

\* Fact ids the finding cites, itself and through the calc paths it cites,
\* and whether it carries numbers.  Unknown ids and paths are left out.
ResolveFacts(f) ==
    LET paths == f.calc_refs \cap DOMAIN CalcGiven
    IN  (f.fact_ids \cup UNION {CalcGiven[p] : p \in paths}) \cap FactsGiven
Numbers(f) == ResolveFacts(f) # {} \/ f.calc_refs \cap DOMAIN CalcGiven # {}

\* A numeral the claim types that none of its quotes holds
TypedNumeral(f) == f.numeral = "typed"
KeepFinding(f) == /\ f.claim # ""
                  /\ VerifiedEvidence(f)
                  /\ UsesCalc(Agent) \/ StrictNumerals(Agent) => ~TypedNumeral(f)

\* The answer is an object, holds something verified or nothing could be, and
\* the extras of a nested agent pass their checks.
Acceptable(out) ==
    /\ out.parses
    /\ (\E i \in DOMAIN out.findings : KeepFinding(out.findings[i])) \/ DOMAIN Docs = {}
    /\ Nested(Agent) => out.extras

\* A number without a fact never becomes a claim; nor does a numeral that no
\* fact and no quote stands behind (the Claim contract).
UnsourcedNumbers(f) == ResolveFacts(f) = {} /\ TypedNumeral(f)
\* Mutant: a number without a fact gets through when no numeral is typed
KeepClaim_Bug(f) == ~UnsourcedNumbers(f)
KeepClaim(f) == ~(Numbers(f) /\ ResolveFacts(f) = {}) /\ ~UnsourcedNumbers(f)
SectionIdFor(source) == IF source[1] = "src:edgar" THEN {<<"sec", source[2]>>} ELSE {}
ClaimOf(f) ==
    [by |-> Agent, source_id |-> f.source_id, quote |-> f.quote, numeral |-> f.numeral, value |-> Numbers(f),
     fact_ids |-> ResolveFacts(f), section_ids |-> SectionIdFor(f.source_id)]
ToClaims(findings) ==
    LET kept == InOrder({i \in DOMAIN findings : KeepFinding(findings[i]) /\ KeepClaim(findings[i])})
    IN  [k \in DOMAIN kept |-> ClaimOf(findings[kept[k]])]

(***************************************************************************)
(* Model calls.  One answer that does not pass is retried with what was    *)
(* wrong with it; a second ends the run.                                   *)
(***************************************************************************)
Rejected == /\ IF attempt + 1 < MaxAttempts
               THEN attempt' = attempt + 1 /\ UNCHANGED fate
               ELSE fate' = "refused" /\ UNCHANGED attempt
            /\ UNCHANGED <<case, extracted, fetched, turn, step, offered, plan, calc, claims>>

LlmFails == /\ fate = "open" /\ step \in {"plan", "findings"}
            /\ fate' = "llm error"
            /\ UNCHANGED <<case, extracted, fetched, turn, step, attempt, offered, plan, calc, claims>>

\* Plan: peers that are no candidates are dropped, and a plan that names none
\* keeps them all; the reverse DCF is always computed.
FetchPeers ==
    /\ fate = "open" /\ step = "peers"
    /\ offered' = IF case.backend = "live" THEN Select(case.industry)
                  ELSE [peers |-> [i \in DOMAIN FixturePeers |-> [ticker |-> FixturePeers[i], by |-> "fixture"]],
                        gaps |-> {}]
    /\ step' = "plan"
    /\ UNCHANGED <<case, extracted, fetched, turn, attempt, plan, calc, claims, fate>>

CandidatesOf(o) == {o.peers[i].ticker : i \in DOMAIN o.peers}
PlanPasses(p) == p.parses /\ p.methods # {} /\ p.reasons

MakePlan(p) ==
    /\ fate = "open" /\ step = "plan"
    /\ IF PlanPasses(p)
       THEN LET usable == p.peers \cap CandidatesOf(offered)
                peers == IF usable = {} THEN CandidatesOf(offered) ELSE usable
                methods == p.methods \cup {"reverse_dcf"}
            IN  /\ plan' = [methods |-> IF peers = {} THEN methods \ {"peer_median"} ELSE methods, peers |-> peers]
                /\ step' = "calculate" /\ attempt' = 0
                /\ UNCHANGED <<case, extracted, fetched, turn, offered, calc, claims, fate>>
       ELSE Rejected

\* calculate_valuation: the figures the plan asked for, each with the facts it
\* is derived from as far as the agent can tell.  A peer median is derived
\* from the peers' figures, which are no facts of this company.
Calculate ==
    /\ fate = "open" /\ step = "calculate"
    /\ calc' = [p \in plan.methods |-> IF p = "peer_median" THEN {} ELSE GivenFacts]
    /\ step' = "findings"
    /\ UNCHANGED <<case, extracted, fetched, turn, attempt, offered, plan, claims, fate>>

Answer(out) ==
    /\ fate = "open" /\ step = "findings"
    /\ IF Acceptable(out)
       THEN /\ claims' = claims \o ToClaims(out.findings)
            /\ turn' = turn + 1 /\ step' = FirstStep(turn + 1) /\ attempt' = 0
            /\ fate' = IF turn = Len(Roster) THEN "done" ELSE "open"
            /\ UNCHANGED <<case, extracted, fetched, offered, plan, calc>>
       ELSE Rejected

Over == fate # "open" /\ UNCHANGED vars

Next == \/ Ingest \/ FetchPeers \/ Calculate \/ LlmFails \/ Over
        \/ \E p \in Plans : MakePlan(p)
        \/ \E out \in Outputs : Answer(out)

Spec == Init /\ [][Next]_vars

-----------------------------------------------------------------------------

\* A claim quotes the section it cites: a run of what was shown of it to an
\* agent that reads the Item, or sentences the synthesizer was handed from
\* such quotes.  No sentence taken for an instruction gets back into a claim,
\* though the model may know it, quote around it, or be handed quotes by
\* earlier agents (agents/base.py _verified_evidence, sanitize.py).
QuotesAreTheSections ==
    \A i \in DOMAIN claims :
        LET c == claims[i]
            source == {s \in Range(fetched) : s.source_id = c.source_id}
        IN  /\ Range(c.quote) \cap Instructions = {}
            /\ \E s \in source : Range(c.quote) \subseteq Range(s.text) \cup {Removed}
            /\ c.by # "synthesizer" => \E s \in source : s.item \in ItemsOf[c.by]
            /\ c.by = "synthesizer" =>
                  \A q \in Range(c.quote) : \E j \in 1 .. i - 1 : /\ claims[j].source_id = c.source_id
                                                                  /\ q \in Range(claims[j].quote)

\* No bare numbers: a claim that carries a value, or types a numeral its
\* quotes lack, rests on a fact its agent was given, and an agent whose
\* numbers come from calc, or that may write none, types none at all.  Both a
\* number read off a calc path that leads to no fact and a cited fact that
\* was not given would break it (agents/base.py to_claims, claims.py).
NoBareNumbers ==
    \A i \in DOMAIN claims :
        LET c == claims[i]
        IN  /\ c.value \/ c.numeral = "typed" => c.fact_ids # {}
            /\ UsesCalc(c.by) \/ StrictNumerals(c.by) => c.numeral # "typed"
            /\ c.by = "synthesizer" => ~c.value

\* The companies of an industry that could be chosen, and how far each is
Comparable(ind) ==
    LET tickers == PrimaryTickers(ind.listings)
    IN  {cik \in Range(ind.members) : /\ cik # ind.cik /\ cik \in DOMAIN IndustryRevenues(ind) \cap DOMAIN tickers
                                      /\ tickers[cik] \in ind.inScope /\ tickers[cik] # ind.ticker}
Far(ind, cik) == IF ind.size = Nothing THEN 0 ELSE SizeDistance(IndustryRevenues(ind)[cik], ind.size)

NearestPeers(ind, o) ==
    LET peers == o.peers
        tickers == PrimaryTickers(ind.listings)
        within(cutoff) == {cik \in Comparable(ind) : Far(ind, cik) <= cutoff}
        chosen(by) == {i \in DOMAIN peers : peers[i].by \in by}
    IN  /\ Len(peers) <= Limit
        /\ \A i, j \in DOMAIN peers : i # j => peers[i].ticker # peers[j].ticker
        /\ \A i \in DOMAIN peers : peers[i].ticker \in ind.inScope /\ peers[i].ticker # ind.ticker
        /\ \A i \in chosen({"size", "relaxed"}) : \A cik \in Comparable(ind) :
               Far(ind, cik) < peers[i].distance => \E j \in DOMAIN peers : peers[j].ticker = tickers[cik]
        /\ Cardinality(chosen({"size"})) = Min({Limit, Cardinality(within(MaxLogDistance))})
        /\ chosen({"relaxed", "provider"}) # {} => /\ Cardinality(within(MaxLogDistance)) < MinPeers
                                                   /\ "cutoff relaxed" \in o.gaps
        /\ chosen({"provider"}) # {} => Cardinality(within(WidenedLogDistance)) < MinPeers
        /\ Len(peers) < MinPeers => "few peers" \in o.gaps
        /\ \A i \in DOMAIN peers : peers[i].figures # Nothing => tickers[peers[i].figures] = peers[i].ticker

\* The peers offered are the nearest there are: in scope, each once, never the
\* company's own ticker, and no company of the industry that is in scope and
\* nearer than a chosen one is passed over.  A stretched cutoff, a provider's
\* pick and a short list happen only for lack of closer companies, and are
\* named; the figures of a peer are those of its own company
\* (data/normalize/peers.py select).
PeersJustified ==
    step = "plan" /\ case.backend = "live" /\ Classified(case.industry) => NearestPeers(case.industry, offered)
=============================================================================
