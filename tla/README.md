# A verification project for BankManager

BankManager turns a ticker into an investment-committee verdict: it ingests SEC
filings and facts, runs six LLM agents, lets code compute every number, audits
the claims, retries what failed, and renders a report that a web page follows
live. This directory models the system in TLA+, checks the models with TLC on
small instances and proves the main properties with TLAPS for every instance.

## Inventory

| Component (under `src/`) | State it keeps | Operations | What is hard | What makes it correct |
|---|---|---|---|---|
| Run server, event feeds (`orchestrator/server.py`, `events.py`), client (`web/lib/api.ts`) | feed registry, events and closed flag of each feed, results by run | start a run, emit, close, evict, subscribe, poll, fetch the result | one thread per run, subscribers polling, eviction at 200 runs | no event lost or repeated, a stream ends only after the last event, the outcome a client reads is final, everyone is told |
| Coordinator (`orchestrator/coordinator.py`) | the research state, lanes | ingest, stages of agents, decision, verify, validate | two agents in threads, failure of either, one correction of the synthesizer | as if sequential, in canonical order; no verdict without every check |
| Verification gate (`orchestrator/retry.py`, `coordinator._audit`, `_rerun`, `verify`; `audit/`) | claims and their status, retry counts, the last audit | audit, retry of one section, marking, final validation | rounds of audit and rewrite, an injected auditor, failing re-runs | what ships was audited, no error is hidden, nothing is emptied |
| MCP client and server (`orchestrator/mcp_client.py`, `mcp_server/`), composition (`orchestrator/composition.py`, `api.py`) | a session with a private event loop per run and per factsheet, one calc port for all runs of a server | open, call a tool, time out, close; compute metrics, supply factsheets | hanging tools, dying loops, sessions that never start, the shared port | failures are named, nothing goes on after an abandoned call, every session is closed, a run is audited against its own numbers |
| EDGAR client, cache, rate limiter (`data/ingest`) | cache files, request times | look, fetch, retry, store | threads, temporary files, killed processes | nobody but a rival of the same process damages an entry, every call ends |
| Normalisation of facts (`data/normalize`) | fact rows | choose concepts, supersede, adjust splits, derive trailing figures, decide scope, snapshot, factsheet | dates, ties, restatements, changed concepts | no fact from the future, one row per period, an adjusted share count is adjusted once, history does not change under a dated run |
| Filing sections (`data/sections`) | cut sections | find headings, split, extract | cross-references, contents lists, terminators | a section is the Item it is called |
| Peer group (`data/normalize/peers.py`) | none | select by industry and size | cutoffs, missing revenue, several share classes | the nearest there are |
| Repositories (`data/repositories`, `data/live.py`) | none (Postgres: rows) | search filings, read sections, facts, peers | two implementations of one interface | what is extracted is read |
| Calc: metrics and valuation (`calc/`) | a ledger of derived facts | compute metrics, calculate valuation | missing values, splits, mixed windows, second ledger over the first | lineage, no changed fact, comparable windows |
| Calc: scenarios (`calc/scenarios`) | none | bound weights, expected return, prior, scores, consistency | clamping, caps, missing returns | weights in band and summing to one, capped priors, honest sensitivity |
| Agents (`agents/`) | usage, dropped findings | call the model, check output, one output retry | invalid output, quotes, numbers in text | every claim carries evidence the agent was given |
| Report generator (`orchestrator/report`) | none | render | - | markers shown, no invented card |
| Predictions log, backtest (`predictions/`, `backtest/`) | - | every operation raises NotImplementedError | - | - |
| Web page (`web/components`) | page state, one subscription | start, follow, show | callbacks of an old run | shows the run it names |

How they meet: a POST makes the server start a thread that builds a Coordinator;
the coordinator emits events into the run's feed, which the server streams to
pages; the coordinator calls MCP tools, agents, the calc port and the auditor in
its own thread (two agents at once in one stage); the tools read a repository,
which on live data normalises what the cached EDGAR client fetched; the gate
calls back into the coordinator to audit and to re-run an agent; the final state
goes through its contract validators and then into the report, the run's result.

PROJECT.json lists every component with its status, and the hazards of the code
at the lines where they bite with the properties that would catch them.

## Modules

| Module | What it models |
|---|---|
| `RunServer` | registry, feeds, result store, worker threads, readers of the stream, browsers |
| `RunPromise` | abstract: what a run promises its clients; `RunServer` refines it (`KeepsPromise`) |
| `Pipeline` | a whole run of the coordinator, the gate seen from outside |
| `CommitteeOrder` | abstract: agents that work one after the other; `Pipeline` refines it (`RunsInOrder`) |
| `VerificationGate` | audit, rounds of retries, marking, final validation |
| `RunServices` | the MCP sessions of a run and the calc port it shares |
| `CachedFetch` | threads of several processes on one cache directory, with limiter, retries and crashes |
| `CompanyFacts`, `CompanyPicture`, `CompanyHistory` | facts of one companyfacts payload; what is assembled from them; a company that files while runs of every date read |
| `FilingSections`, `PeerGroup`, `AgentEvidence` | how a 10-K is cut; the default peers; from a filing to the claims that quote it |
| `Discounting`, `Metrics`, `Valuation` | discounted cash flow both ways; `compute_metrics` and its ledger; one call of `calculate_valuation` |
| `ScenarioDecision` | from the agents' proposals to an accepted verdict |
| `MC...` | instances of the module named, for TLC |
| `...Proofs` | theorems about the module named; `RunServerProofs` also about `RunPromise`, `EvidenceProofs` about `CompanyHistory` and `AgentEvidence` |

A definition named `Other_Suffix` is a plausible bug in `Other`: with it in place
of `Other` some property fails, which shows that the property depends on it.

### RunServer

One action per handler or critical section. `NewRun` is `server.start_run` with
`events.new_run`, including the eviction of one closed feed when the registry is
full; the worker's actions are the steps of `work()` (emit running, the lanes of
the runner, record the result, emit the outcome, close); a reader takes batches
under the feed's lock, delivers event by event and stops when it saw the feed
closed with nothing left; a browser subscribes, may lose its connection, and
then fetches the result as `web/lib/api.ts` does. Locks are modelled by their
critical sections. `close` takes no lock and is its own action.

### Pipeline

The coordinator's thread is a program counter; each agent call is a worker with
the states idle, asked, running, done, failed. The pair of stage 1 runs at once.
Ports (`calc`, `auditor`, `factsheet`) are chosen in the initial state, so every
composition of a server is covered. Prompts are abstracted to the set of agents
whose claims they contain; the gate to rounds that re-run some owners.

### VerificationGate

Claims are identified by what `to_claims` puts in an id: agent, attempt, finding
tail; the section is not part of it. A section is the function from its claims'
ids to their status. An audit chooses for each claim nothing, a warning or an
error; marking follows errors only, as `failing_claim_ids` does (what the
audit says it verified is compared with the marks in a run of its own, `gate_minimal`).
An agent's re-run may file any subset of findings in any section it may write. The auditor
is injected, so it is a parameter: as it stands in `audit/api.py` (finds
unresolved facts, vouches for nothing, asks for no retry), as `retry_loop`
expects it, or any directives with one attempt number per call, as
`audit/routing.py` `build_directives` is declared to return them. That function
is not written yet, so nothing more is assumed of it.

### RunServices

A run makes the tool calls of a coordinator in their order: scope check,
sections, valuation, factsheet, and a factsheet per audit. A session is a
blocking client over a private event loop in a thread of its own; the run's
thread waits in it for readiness, for an answer, or for the loop's thread to
end. Loops may fail to start, hang, and die. A server's runs share one calc port
and open a session for each factsheet; `run_analysis` has one of each. Faults
are told apart as the code tells them apart: an error the tool reports, and any
other exception, a timeout included.

### CachedFetch

A thread looks for an entry, waits for the limiter, fetches with retries, opens
a temporary file named by key and process, writes it, renames it and unlinks
what is left under that name. An entry remembers who still has the file open,
because a rename does not close it, and nothing keeps two threads of a process from
storing one key at once. A killed process leaves its files. Kinds of
keys differ in how long they are fresh and in what their callers do with a failure.

### CompanyFacts, CompanyPicture, CompanyHistory

A payload is a set of filings with rows of concept, period and value. The
operators follow the pipeline of `data/normalize`: candidate concepts by
priority, fiscal-year anchors, versions and supersession, total debt, split
factors and adjusted rows, trailing figures, scope, share count, snapshot, and
the periods and sources of a factsheet. The readers of rows (`AnnualEntries`,
`QuarterEntries`, `SplitRows`, `LatestEntry`) leave out what was filed later, each by
itself, as in the code; all else works on what they return (`Readable`, a payload
indexed by concept, and `Stated`, the counts of shares), with one exception, as in the
code: whether a company is a foreign issuer (`ForeignIssuer`) is read of all its filings,
dated or not. `CompanyHistory` lets the company file,
one filing after the other, while runs of several dates read, with or without a
date, and resolves facts by id as the MCP tool does.

### FilingSections, PeerGroup, AgentEvidence

A document is a sequence of pieces, each beginning where an Item or terminator
is named. `FilingSections` finds real headings, puts them in canonical order,
and cuts. `PeerGroup` is the selection of the default peers. `AgentEvidence` is
what an agent is shown and what of its answer becomes a claim: quotes are looked
for in its sections after the guard removed sentences that look like
instructions, numbers are looked for in facts, the valuation agent plans first,
and the synthesizer may quote only earlier claims.

### Discounting, Metrics, Valuation

`Discounting` is the DCF with fading growth and its inverse. `Metrics` is
`compute_metrics`: every number it emits is recorded on a ledger with its inputs,
and flags say what does not apply. `Valuation` uses or skips the requested
methods in the caller's order on a ledger that knows the facts of the first.
Numbers are exact fractions, rates whole percents.

### ScenarioDecision

The pure part is operators: `Bounded` is `bound_weights` with the rounds of
`_redistribute`, `Expected` the average over the cases that have a return, `Flip`
the sensitivity, `Applied` and `Chance` the capped prior, `Scores` the rubric,
`Consistent` the check of the card. Two actions use them: `Evaluate` is the call of
`evaluate_scenarios` with both agents' shifts, `Synthesize` one attempt of the
synthesizer, whose word and $10,000 answer are any. A case's annualized return is an
input, or absent where its target, its price or an input of its earnings is.

## Runs

| Run | Properties | Shows |
|---|---|---|
| `server_run` | `StreamFaithful`, `OutcomeSettledWhenAnnounced`, `NoEventDropped`, `RegistryBounded`, `KeepsPromise`, `ClientsServed` | whatever the interleaving of emits, batch copies, the unlocked close, evictions and lost connections, nothing a run emits is lost, the history arrives in order and complete, the outcome is settled when it is announced, the registry outgrows its limit only by runs in progress, every browser is told an end, and `RunPromise` is implemented |
| `pipeline_run` | `VerdictEarned`, `ReadsEarlierStages`, `RunsInOrder`, `RunEnds` | under every set of ports, results and schedules a run looks sequential, ships a verdict only after every check, reads what earlier stages wrote, and ends |
| `gate_run` | `AuditedAsShipped`, `ErrorsShow`, `NothingHidden`, `OnlyDirectedRewritten`, `Ends` | under any audit and any directives of the contract what ships was audited after its last rewrite, every error of the last audit shows in a marker, no section is emptied or rewritten undirected |
| `services_run` | `NothingSilentlyMissing`, `AbandonedMeansOver`, `RunsConclude`, `SessionsEnd` | with refusing, failing and hanging tools, sessions that do not start and loops that die: what failed is named, an abandoned call ends the run, every run ends and every session it was given is closed |
| `cache_run` | `OnlyRivalsTear`, `CallsEnd` | while entries age, servers refuse, other processes store the same key and a process is killed, a whole entry is only ever damaged while two threads of one process are storing it at once, and every call ends, whoever holds the limiter's lock |
| `facts_run` | `Citable`, `Traceable`, `LabelsAreFiscalYears`, `SplitOnce`, `TrailingIsAYear`, `HistoryStable` | what runs of four dates and an undated read get is stable, citable, traceable, rightly labelled and adds up; only a filing that changes whether the company is a foreign issuer may change the scope of an earlier date |
| `evidence_run` | `SectionsAreTheirItems`, `QuotesAreTheSections`, `NoBareNumbers`, `PeersJustified` | sections are the Items they are called, claims quote only what their agents were shown, numbers rest on facts the agent was given, peers are the nearest there are |
| `calc_run` | `LineageSound`, `FactsAreFinal`, `WindowsNotMixed`, `SplitsAreNotGrowth`, `ImpliedGrowthInverts` | every derived fact is traceable and dated last, no fact changes under a later method, windows are not mixed, a split is not taken for growth, the implied growth inverts the discounted value at the headline, in the grid and for the smoothed base |
| `scenario_decision` | `WeightsBounded`, `ExpectedWithinCases`, `PriorHeld`, `SensitivityHonest` | weights in their bands and summing to one, an average between its cases, one cap on the prior, a sensitivity that agrees with the average where all three cases have a return |

Three runs end in a violation, and compare the code with what it says of itself:

| Run | The code does | The comment or test says |
|---|---|---|
| `services_shared` | two runs of a server share its calc port, and the first is audited with the metrics of the second: every derived fact it cites is unresolved | `orchestrator/composition.py:30-33`: the port remembers the metrics so that the audit can resolve them |
| `gate_minimal` | with the auditor the server is composed with, which verifies no claim, every claim without an error ships as verified (`coordinator.py:562`); with one that may warn, so does a claim with a warning | `audit/api.py:5-7`: nothing carries a verification stamp it did not earn; `schema/contracts/verification.py:143-147`, `status_for`: a claim with any issue has failed |
| `cache_shared` | two threads of a process that store one key write through one temporary file (`cache.py:83`): the first to rename publishes what the second has just truncated | `cache.py:15-17`: either the old entry or the new one, never a truncated file |

### Bounds

`RunServer`: two runs for one place, so that a run starts while the other is in
progress (nothing may be evicted), announced, or closed (it must be). A feed grows
to `running`, a lane event and the outcome (`MaxEvents` stops the runner from
publishing more): polls fall between any two events and batches of every length
occur. A browser or a plain reader opens a stream of either run, one of the two in a
behaviour (`MaxStreams`), because clients do not interact: each only reads. The safety
properties are proved for any number of both.

`Pipeline`: the roster and its stages are the code's; `MaxRounds` is the cap of two.

`VerificationGate`: two sections and two findings of one agent, the fewest for
which a re-run can file its findings in another section, and the code's cap of
two attempts. Agents share no section and an id carries its agent, so one agent
shows what several would.

`RunServices`: one run of either kind with three audits (the first and one after
each of two retries) and so four sessions. Sessions of different runs share
nothing; the one thing runs share, the calc port, has two runs in
`services_shared`.

`CachedFetch`: two threads of one process and a third in another, a key of each
kind, a key that all of them may want at once, two attempts, two versions of a
document (so that an entry can be stale and be mixed), a call per thread and one
crash (`MaxCalls`, `MaxCrashes`).

`CompanyHistory`: three fiscal years of four quarters whose quarters all earn a
different amount, so that a wrong window has a wrong sum; filings exist with and
without a split, a restatement, an amendment, a changed and an untagged concept,
and are made in any combination. Runs are dated after the first annual report,
after the quarter that announces the split, and twice after the second annual
report, before and after the next quarter. The company may have reported under
IFRS before its first 10-K, or file a 20-F in its third year.

`AgentEvidence`: documents of every layout `parser.py` names (a contents list, an
exhibit index, cross-references in and at the start of sentences, short and long
Items, the last Item repeated), industries of four companies at every distance of
revenue (absent, near, at either cutoff, beyond), and for each agent answers with
quotes that are exact, stitched, foreign, removed by the guard, or missing. A
section is long from three sentences (`MinSection`) and cut after three
(`MaxSection`); at least two (`MinPeers`) and at most three peers (`Limit`) are
wanted of four.

`Valuation`: companies whose true history is known, so that a claim about growth
or share counts can be wrong: splits tagged and not, buybacks, negative cash
flow, amended years, banks, a part of a trailing year, with every market and peer
datum present or not, every method in several orders, growth given or not.

`ScenarioDecision`: all 231 requests that are multiples of 5%, the grid on which
defaults and band lie, so every pattern of clamped, untouched and exactly-at-the-limit
weights occurs; and four requests (inside, at and outside the band) with every set of
cases that have a return, returns on either side of the index, of the score
thresholds and of the severe downside, and shifts below, at and above the cap in
either direction. Arithmetic is exact where the code uses doubles with tolerances.

### Fairness

The server's worker threads run on and runners return, because model calls time
out: weak fairness on each worker. A reader polls every 50 ms outside the feed's
lock, so the worker cannot be kept from the lock for ever: strong fairness where
an action needs the lock. Readers are tasks of one event loop, which is busy while
any of them holds a lock and serves its ready tasks in turn: strong fairness.
The gate is one thread of control; its step is weakly fair and no round has to
succeed. The coordinator's thread and each agent call are weakly fair: calls
return or time out, and nothing is assumed of what they answer.

In `RunServices` each run's thread is weakly fair, its waits having time limits,
and so is a loop that was asked to stop; of tools nothing is assumed, so one may
hang for ever. In `CachedFetch` each thread's step is weakly fair (servers answer
or time out, pauses end, tokens come back), and the limiter's lock, free again
and again, is given to each who waits for it: strong fairness on taking it.

## Proofs

TLAPS checks these for every value of the constants.

`RunServerProofs`, from `RunServer`'s assumption on its constants: `TypeCorrect`,
`EventsKept`, `StreamsInOrder` (in order, and whole at the end), `OutcomesSettled`. The
inductive invariant `IInv` adds to the types where each worker is in relation to
its feed and result (a feed is closed only by a worker that has finished; the
last event is the outcome; the result agrees with it), and for each reader that
what it received and the batch it holds are consecutive pieces of the feed's
events. Without the worker part "closed" would not imply "complete"; without the
batch part a prefix could not be shown to grow by the next event.

`RegistryStaysBounded`, for any number of runs and any limit, has an invariant of
its own (`RegistryInv`): the registry holds only runs in progress and closed ones,
and the peak is at least the number in progress. A new run that finds the registry
full therefore evicts a closed feed, the one stamped first (`LeastNumber` says there
is one), or finds only runs in progress there.

`PromiseKept`, in the same module: the server implements `RunPromise`. To `IInv` it
adds that a run's result follows from where its worker is (`StatusInv`) and that a
run nobody asked for has told nobody anything (`UnseenInv`). Each step is then a
step of the promise or a stutter: the registry, the locks, batches and polls are
not visible in it, and `StreamMoves` says which steps of a reader are.

`PipelineProofs`: `PipelineTypeCorrect`, `VerdictsAreEarned`,
`EarlierStagesAreRead`, and `RunsLookSequential`: the coordinator implements
`CommitteeOrder` (its safety; the abstract committee assumes no fairness). The
invariant says how many agents are merged at each point of the coordinator
(`Placed`), that they are a prefix of the canonical order (`InOrder`), that an
agent works only while its stage is waited for and was shown all it builds on
(`Working`), and that only a run that is over has an outcome or a failed step
(`Ending`). `MergeFacts` carries the refinement: taken in canonical order, the
outcomes of a pair that ran at once are merged as if they had come in turn.

`VerificationGateProofs`, from `GateAssumption`: `GateTypeCorrect`,
`AttemptsCapped`, `ShippedWasAudited`, `NoErrorIsHidden`, `NothingIsHidden`,
`OnlyDirectedChange`. `AttemptsBounded` is not inductive: nothing in it says why
a section could not be retried twice in a round. `CountedByRound` does: retry
counts are at most the round's number, those of sections still queued below it,
and a section is queued once. `ErrorsShow` needs `MarksFollowVerdict` (right
after an audit the marks repeat the verdict and no section is marked unverified)
and, between audits, `SectionsFollowClaims` (a section reads verified only while its
claims do).
The two action properties follow from type correctness and one lemma on what a
directive does (`ApplyFacts`).

`RunServicesProofs`, from the assumptions of `RunServices`: `FailedCallsAreNamed`
and `AbandonedRunsAreOver` for any number of runs and audits, and
`LoneRunAuditsItsOwn`: the property `services_shared` refutes holds when no two
runs of a server are in progress at once. A thread waits in one session at a
time, the one its call uses (`WaitsInOne`); a session is asked only after its
constructor returned it (`HeldFirst`); a run whose fate is settled only closes
sessions (`SettledOnce`); every error so far is named or has ended the run
(`ErrorsNamed`). For the port, a run past its computation is the one remembered.

`CachedFetchProofs`, from `FetchAssumption` alone, for any processes, threads, keys,
retries and crashes, and whatever the threads want: `TornByRivalsOnly`, the one way
an entry is ever damaged, and `UncontestedIsWhole`, that the entry of a key no two
threads of one process store at once is always whole. The argument is about the
temporary files (`NameSound`): a file under such a name is whole, or somebody of
that process still writes it, or it is torn and two of its threads are storing
there. What a thread without a rival renames is therefore whole and closed, and
later writes and crashes do not reach an entry that is absent or closed. With a
rival the promise fails, as `cache_shared` shows.

`ScenarioDecisionProofs`, from `ProposalAssumption` (what the agents' own checks let
through):

- `WeightsAreBounded`, for every request on the 5% grid by an argument that does not
  enumerate it. Spreading an excess or a shortfall over the cases that can still move
  either settles it or brings one more case to a limit (`RoundUp`, `RoundDown`), and
  there are three, so the rounds the code allows are enough (`FourRounds`).
  `RoomEnough` says that the cases chosen to move have the room.
- `ExpectedIsWithinCases`, an average with weights is not outside what it averages
  (`MeanBetween`), and a case without a return has no part in it.
- `SensitivityIsHonest`, for all returns of three cases: if two weights the bear case
  may have put the average on opposite sides of the index, the reported flip lies in
  its band. The side is a linear inequality in that weight (`SideOfIndex`) and the
  flip is where it turns (`NothingLeftOut`). A case left out makes it false
  (`evaluate.py:364`), so the statement asks for three returns.
- `PriorIsHeld`, for every pair of shifts, because clipping keeps bounds and order
  (`ClipBounds`, `ClipMonotone`) and no base rate is within a cap of 0 or 1; and
  `CorrectedOnce`, at most two attempts of the synthesizer.

`ValuationProofs`, from `FactsheetAssumption`: `LineageHolds`, `WindowsStayApart` and
`RecordedForGood`, for every factsheet, rates and list of methods. The assumption
is what the factsheet builder makes: a sequence of at least one period, finitely many
labels, none of them `market` or `ttm` (the names the code gives the day's figures
and trailing ones), and dates that are numbers. The argument follows one emission. What
it is made of is a figure reported for a period, a figure of the day, or a fact the
ledger holds already (`GoodRef`), and its name says which of the two windows it may
rest on (`Apart`). `Emit` keeps a ledger in order if every emission is so made
(`EmitKeeps`); the rest of the module goes through the formulas of `compute_metrics`.
The inductive invariant `LInv` says that the ledger is in order and, once the
metrics are computed, shows the ids the methods read without looking (`Shows`):
without it a method could cite what nobody recorded. `LineageSound` alone is not
inductive either: it says nothing of what the ledger shows, which is what formulas
read.

`EvidenceProofs`, on what a run rests on:

- `ThePastIsStable` (`HistoryStable`), from `CatalogAssumption`, for every catalog of
  filings: two sets of filings with the same rows up to a day look alike to every
  reader (`RowsAlike`), so to everything made of what readers return (`SeenAlike`),
  and a filing adds only rows of its own day (`FiledLater`). One filter in each of
  four readers is enough for the facts. Scope and sheets have one more source, the
  undated forms and taxonomies of `ForeignIssuer`, so the theorem keeps the scope
  only while that answer stays the same, and the sheets only while the run is refused
  both before and after the filing or neither.
- `FactsAreTraceable` (`Traceable`), for the same catalogs, through every stage of the
  normalisation. `Read` says that what may be read carries dates of filings made by
  then. Numbers of a finite catalog have a bound (`CatalogBound`), so every choice the
  code makes by date, accession, end or length is a choice of something that is there
  (`NewestIs`, `FiledIs`, `LongestIs`, `ChainConcepts`). Facts as they are made rest on
  one another (`Made`); linking keeps that and points each superseded version at the
  newest of its quantity, which stays current (`LinkLinks`); what a split or a trailing
  figure adds rests on the linked facts (`RestsOn`). A trailing figure may be dated
  before its year, as noted below, and is excepted by name.

- `FactsAreCitable` (`Citable`), for catalogs that are `RegularCatalog`: one annual report
  says one thing of a concept and period, a day has one split, and counted back from a
  later one no two year ends are equally many years away. The code checks none of these,
  so they are hypotheses of the theorem; `MCCompanyHistory` evaluates them on the instance
  that `facts_run` explores. What a run may then read is `Orderly`
  (`ReadableIsOrderly`, from the invariant `AccnsDiffer`: a filing is made once). An id is
  shown to tell kind, metric, period and version apart stage by stage: the versions of a
  metric by their accession, the lines of the debt by their concept, the years by their
  label (`LabelsDiffer`), adjusted values by the one current fact they adjust
  (`CurrentAlone`), ratios by their day (`EventsDiffer`), the two years to date by their
  fiscal year (`TrailingAlone`), and the stages from one another by kind (`FactsAlone`).

  All three rest on `CatalogAssumption` (finitely many filings of finitely many rows, days,
  fiscal years and accessions are numbers, no accession is 0) and `ChainAssumption` (a
  metric's concepts are a list, and total debt, which `concept_map.py` puts together
  itself, has none).
- `QuotesAreReal` and `NumbersAreSourced`, for any documents and any answers of the
  models, from `EvidenceAssumption`: the guard's marker is not itself taken for an
  instruction (it matches none of the patterns of `sanitize.py`), findings and quotes
  are lists, and a section of the fixture is found under one id and has one source.
  `IInv` adds to the two invariants that fetched sections are texts and a source has one of them
  (`FetchedOK`), that claims quote sequences of sentences (`ClaimsOK`), and that
  every quote can be followed to a section now fetched (`QuotesHold`). Without these a
  quote the synthesizer takes from an earlier claim could not be traced: its sentences
  are of the section that claim cites, and there is one.
  `InOrder`, the order in which ingestion and claims are listed, is shown to exist by
  taking least elements (`LeastOf`), which needs no induction principle.
- `PeersAreJustified` (`PeersJustified`), for any industry, ticker map, provider's list,
  `MinPeers` and `Limit`, from `PeersAssumption` and the part of `EvidenceAssumption` that
  says what an industry is (`IsIndustry`: members, listings and the provider's list are
  lists, amounts are numbers, and the ticker map has each ticker once, as the SEC's
  does). That no two companies share a primary ticker follows (`TickersDiffer`). A
  ranking exists because counting the rows nearer than each gives it its place
  (`SortedExists`), and leaves out nothing (`NothingMissed`). One pass takes the nearest
  of what it may pick, and all of it when there is room (`NearestFirst`): in a ranking,
  the code's break at the cutoff and a filter by distance keep the same rows. A
  selection is two passes and a provider's list (`RowsOfBoth`, `VendorIs`), and a list
  shorter than `MinPeers` has, by counting, every company within the wide cutoff.
  `Offered` carries the selection from the fetch to the plan.

Only model-checked:

- liveness (`ClientsServed`, `Ends`, `RunEnds`, `RunsConclude`, `SessionsEnd`,
  `CallsEnd`), which is out of the prover's reach;
- of `facts_run`, `LabelsAreFiscalYears`, `SplitOnce` and `TrailingIsAYear`, which compare
  figures with the true history of the instance;
- of `calc_run`, `SplitsAreNotGrowth`, which compares with a true history too, and
  `ImpliedGrowthInverts`, a statement about a recursive bisection over powers;
- of `evidence_run`, `SectionsAreTheirItems`: sections are cut by folds over sequences,
  and the property compares them with the true Items of the instance.

What a fold or a recursive function computes for every input needs induction over
data, which the installed provers cannot do; on bounded inputs the runs compare the
results with references (a true history, the true Items).

## Differences between code and documents

In the models, or met while writing them, without a run of their own.

Server and page: a late subscriber of an evicted feed is refused (`server.py:267`;
`docs/p3/API.md:11` promises the history). A run in progress is answered with 200
and a body that is no verdict (`web/lib/api.ts:108`, "200 is a Verdict"). The page
starts a run of a saved ticker without ending the subscription of the old one
(`Analyzer.tsx:160`).

Coordinator and gate: two sections redone by one agent in one attempt can get equal
claim ids, and the final validation refuses the report (`retry.py:68`). A retry
replaces every claim of its section, also code-generated ones and ones that failed
for good (`retry.py:84`, `122`; `scenario_claims.py:3`). The lane of a stage that
fails with anything but a tool error stays `running`, and one set to `retrying` is
not set again (`coordinator.py:264`, `532`, `613`). The synthesizer's evidence and
the upstream text of re-runs are taken before the audit (`coordinator.py:436`,
`619`). A missing market snapshot is a gap at ingest and fatal at the card
(`coordinator.py:303`, `518`; `docs/pipeline.md:43`).

Scenarios: with a downward prior shift and an excess above 2 %/yr no card is
consistent, so the correction is futile (`consistency.py:123`, `prior.py:13`;
`docs/pipeline.md:131`). With the base or bull case left out, the expected return
is rescaled and the sensitivity is solved as if it were not: at the reported bear
weight the average is not the index's (`evaluate.py:364`; `evaluate.py:343`,
"crosses the index"). A bear case that loses everything has no return and drops out
of the average (`evaluate.py:231`). Verdict words are never compared with the
scores (`rubric.py:21`), and without an expected return any word passes
(`consistency.py:69`).

Services: the error field of a session is never read by `request`; a session whose
start timed out and which becomes ready later is never closed; a tool exception
other than ValueError and KeyError is fatal even for a section; the factsheet of
the decision is given stale metrics of the port too. `calculate_valuation` reads
scope and factsheet without `as_of`, and a live quote is today's even for a
backtest.

Cache and clients: the FileNotFoundError of a thread whose temporary file another
one renamed escapes the market provider's client. A slow writer can publish an
older payload with a fresh time. The limiter is one per process. The memo of
`load_facts` remembers an outage.

Facts: the scope of a dated run is decided by all forms and taxonomies known today
(`scope.py:152`; `data/api.py:97`, "only filings FILED on or before that date"), so
that a 20-F can bring a run of an earlier date into scope. A row of an amended year
read at a run's date is not resolved by its id in the undated view (`live.py:97`).
Trailing figures are dated by the 10-Q even if the annual input was amended later,
and may use an older year. `_latest_fact` prefers plain rows to split-adjusted
ones. The enterprise-value bridge takes cash and debt of an older year. The latest
filing does not win when it uses a concept of lower priority. The factsheet's
sources leave out trailing figures and peers. `_repair_labels` leaves duplicates.
Splits are taken from a ratio of 3, the docstring says 2:1.

Sections and peers: `real_headings` is documented to take the heading with most
text and takes the first long one. A terminator named at the start of a line ends a
section. A short Item 1A is left inside Business. The last Item runs to the end of
the document. `primary_tickers` lets a later, shorter ticker win. The fallback list
of the provider may offer another share class or the same company twice, and
ignores size. Without the company's own revenue the peers are alphabetical, without
a gap. Gaps found by `live.peer_companies` are dropped (`docs/mcp-tools.md:115`).

Evidence: the live search for filings slices by a limit of 0, which means all
elsewhere, and answers with none, so that no section cut out of a live filing
reaches an agent (`data/live.py:139`; `search_filings.py:22`, "fetched unsliced").
Live filings carry no `section_ids`, and their source ids (`parser.py:287`) are not
those `section_id_for` derives (`base.py:70-73`, `filings.py:55`), so live claims
name no section and the audit's `get_text` (`coordinator.py:540-551`) would raise.
The synthesizer's pool joins quotes, so a quote stitched from two passes; so does
the marker the guard leaves. The audit reads text the guard has not touched. A
derived number whose inputs do not resolve passes if any fact is cited. An accepted
analysis may yield no claim.

Calc: the DCF is computed for a filer of partial scope although free cash flow is
marked not applicable. A CAGR spans its labels, also where a year is missing. A
tagged split lets an untagged comparison through. Quarterly per-share comparisons
are not guarded. Implied growth saturates at -50 % and +100 %. A negative multiple
enters the peers' median. The two DCFs differ in the shape of growth. `vs_peers`
and `compare` share an id (`calc/valuation/peers.py:150`), so that the number shown
is not the fact cited. When the discount rate is not above terminal growth the
reason given is another's.

## Not modelled

The page's handling of several runs and its layout; prompt wording, mock answers,
report layout; the fixture and Postgres repositories and the recorder, which only
read or write files and rows; the stdio transport of MCP; keyword search; the
baseline's constants; `detect_discontinuities` and the functions nothing calls
(`as_known_on`, `find_restatements`, `apply_supersessions`); `eps_growth_attribution`
and the derivation of a scenario's return from earnings (`evaluate.py:147-298`),
which is an input of `ScenarioDecision`; schema types and command-line scripts. The
predictions log and the backtest have no behaviour yet: every operation raises
NotImplementedError. PROJECT.json gives the reason for each component.
