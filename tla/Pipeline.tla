------------------------------ MODULE Pipeline ------------------------------
(***************************************************************************)
(* One run of the Coordinator (orchestrator/coordinator.py run, run_state, *)
(* run_agents, run_decision, verify): ingest, the financial and business   *)
(* agents in two threads, valuation, scenario, red team, calc, the         *)
(* synthesizer with one correction, the verification gate seen from the    *)
(* outside (VerificationGate models it), validation and report, with the   *)
(* status each lane of the live view shows last.                           *)
(***************************************************************************)
EXTENDS Naturals, Sequences, SequencesExt

CONSTANTS
    MaxRounds       \* MAX_RETRIES, rounds of the gate

ASSUME PipelineAssumption == MaxRounds \in Nat

Order == <<"financial", "business", "valuation", "scenario", "red_team", "synthesizer">>
Agents == ToSet(Order)
Stages == 1..5
Members == <<{"financial", "business"}, {"valuation"}, {"scenario"}, {"red_team"},
             {"synthesizer"}>>
StageOf == [a \in Agents |-> CHOOSE i \in Stages : a \in Members[i]]
Lanes == Agents \cup {"ingest", "guard", "calc", "verify"}

VARIABLES
    ports,      \* what is injected: calc, auditor, factsheet
    pc,         \* where the coordinator's thread is
    stage,      \* number of the stage it is in
    worker,     \* what each agent's call is doing
    called,     \* agents whose model was called
    shown,      \* agents whose claims were in the prompt of each call
    merged,     \* agents whose claims are in the state, in order of merging
    market,     \* was a market snapshot found
    corrections, \* times the synthesizer was sent back
    agreed,     \* did the last consistency check pass
    round,      \* retry rounds of the gate
    lanes,      \* last status shown per lane
    raised,     \* the step that failed the run, or "none"
    outcome     \* what the run returned

vars == <<ports, pc, stage, worker, called, shown, merged, market, corrections, agreed,
          round, lanes, raised, outcome>>

LaneStatuses == {"none", "running", "retrying", "done", "failed", "flagged"}
RaisingSteps == Agents \cup {"ingest", "metrics", "evaluate", "card", "check",
                             "consistency", "verify", "validate", "report"}

TypeOK ==
    /\ ports \subseteq {"calc", "auditor", "factsheet"}
    /\ pc \in {"start", "ingest", "submit", "wait", "merge", "metrics", "evaluate",
               "check", "verify", "gate", "validate", "report", "over"}
    /\ stage \in Stages
    /\ worker \in [Agents -> {"idle", "asked", "running", "done", "failed"}]
    /\ called \subseteq Agents
    /\ shown \in [Agents -> SUBSET Agents]
    /\ merged \in Seq(Agents)
    /\ market \in BOOLEAN
    /\ corrections \in 0..1
    /\ agreed \in BOOLEAN
    /\ round \in 0..MaxRounds
    /\ lanes \in [Lanes -> LaneStatuses]
    /\ raised \in RaisingSteps \cup {"none"}
    /\ outcome \in {"none", "verdict", "preliminary", "failed"}

Init ==
    /\ ports \in SUBSET {"calc", "auditor", "factsheet"}
    /\ pc = "start"
    /\ stage = 1
    /\ worker = [a \in Agents |-> "idle"]
    /\ called = {}
    /\ shown = [a \in Agents |-> {}]
    /\ merged = << >>
    /\ market = FALSE
    /\ corrections = 0
    /\ agreed = FALSE
    /\ round = 0
    /\ lanes = [l \in Lanes |-> "none"]
    /\ raised = "none"
    /\ outcome = "none"

Goto(p) == pc' = p

\* An exception leaves run() and the server records the run as failed.
RaiseAt(step) ==
    /\ raised' = step
    /\ outcome' = "failed"
    /\ Goto("over")

Quiet == UNCHANGED <<raised, outcome>>

-----------------------------------------------------------------------------
(* Ingest.                                                                  *)

StartIngest ==
    /\ pc = "start"
    /\ lanes' = [lanes EXCEPT !["ingest"] = "running"]
    /\ Goto("ingest")
    /\ Quiet
    /\ UNCHANGED <<ports, stage, worker, called, shown, merged, market, corrections,
                   agreed, round>>

\* A data tool refuses the company or fails: the reason ends the run before any model call.
IngestRefused ==
    /\ pc = "ingest"
    /\ lanes' = [lanes EXCEPT !["ingest"] = "failed"]
    /\ RaiseAt("ingest")
    /\ UNCHANGED <<ports, stage, worker, called, shown, merged, market, corrections,
                   agreed, round>>

\* No profile: the ValueError is not one of the tool errors ingest reports on its lane.
IngestNoProfile ==
    /\ pc = "ingest"
    /\ RaiseAt("ingest")
    /\ UNCHANGED <<ports, stage, worker, called, shown, merged, market, corrections,
                   agreed, round, lanes>>

\* A market snapshot may be missing: a gap, and the run goes on.
IngestDone ==
    /\ pc = "ingest"
    /\ market' \in BOOLEAN
    /\ lanes' = [lanes EXCEPT !["ingest"] = "done"]
    /\ Goto("submit")
    /\ Quiet
    /\ UNCHANGED <<ports, stage, worker, called, shown, merged, corrections, agreed,
                   round>>

-----------------------------------------------------------------------------
(* Running the agents of a stage.                                           *)

\* Whose claims _upstream_text puts in the prompts of a stage.
Analysts == {"financial", "business", "valuation"}
\* Bug: the decision stages keep the default names.
Upstream_Default == [i \in Stages |-> {"financial", "business"}]
Upstream == <<{"financial", "business"}, {"financial", "business"}, Analysts,
              Analysts \cup {"scenario"}, Analysts \cup {"scenario", "red_team"}>>

Submit ==
    /\ pc = "submit"
    /\ worker' = [a \in Agents |-> IF a \in Members[stage] THEN "asked" ELSE worker[a]]
    /\ shown' = [a \in Agents |->
           IF a \in Members[stage] THEN Upstream[stage] \cap ToSet(merged) ELSE shown[a]]
    /\ Goto("wait")
    /\ Quiet
    /\ UNCHANGED <<ports, stage, called, merged, market, corrections, agreed, round, lanes>>

\* _execute, in a thread of the pool for the pair and in the coordinator's otherwise.
StartAgent(a) ==
    /\ worker[a] = "asked"
    /\ worker' = [worker EXCEPT ![a] = "running"]
    /\ called' = called \cup {a}
    /\ lanes' = [lanes EXCEPT ![a] = "running"]
    /\ Quiet
    /\ UNCHANGED <<ports, pc, stage, shown, merged, market, corrections, agreed, round>>

EndAgent(a) ==
    /\ worker[a] = "running"
    /\ \E result \in {"done", "failed"} :
           /\ worker' = [worker EXCEPT ![a] = result]
           /\ lanes' = [lanes EXCEPT ![a] = result]
    /\ Quiet
    /\ UNCHANGED <<ports, pc, stage, called, shown, merged, market, corrections, agreed,
                   round>>

Ended(a) == worker[a] \in {"done", "failed"}
StageOver == \A a \in Members[stage] : Ended(a)

Join ==
    /\ pc = "wait"
    /\ StageOver
    /\ Goto("merge")
    /\ Quiet
    /\ UNCHANGED <<ports, stage, worker, called, shown, merged, market, corrections,
                   agreed, round, lanes>>

Unmerged == Members[stage] \ ToSet(merged)

\* Outcomes are taken in canonical order. Bug: failures are taken first.
Turn_FailuresFirst(a) ==
    /\ a \in Unmerged
    /\ worker[a] = "failed" \/ \A b \in Unmerged : worker[b] # "failed"
Turn(a) == a \in Unmerged /\ a = Order[Len(merged) + 1]

RaiseFailure(a) ==
    /\ pc = "merge"
    /\ Turn(a)
    /\ worker[a] = "failed"
    /\ RaiseAt(a)
    /\ UNCHANGED <<ports, stage, worker, called, shown, merged, market, corrections,
                   agreed, round, lanes>>

AfterStage(i) ==
    CASE i = 1 -> "submit"
      [] i = 2 -> IF "calc" \in ports THEN "metrics" ELSE "verify"
      [] i = 3 -> "submit"
      [] i = 4 -> "evaluate"
      [] i = 5 -> "verify"

\* The coordinator goes on once every agent of the stage is merged.
GoOn(a) ==
    \/ Unmerged # {a} /\ Goto("merge") /\ stage' = stage
    \/ /\ Unmerged = {a}
       /\ Goto(AfterStage(stage))
       /\ stage' = IF AfterStage(stage) = "submit" THEN stage + 1 ELSE stage

Flag(flagged) == lanes' = IF flagged THEN [lanes EXCEPT !["guard"] = "flagged"] ELSE lanes

\* _merge; text removed by the guard is reported on a lane of its own.
MergeAgent(a) ==
    /\ pc = "merge"
    /\ stage < 5
    /\ Turn(a)
    /\ worker[a] = "done"
    /\ merged' = Append(merged, a)
    /\ \E flagged \in BOOLEAN : Flag(flagged)
    /\ GoOn(a)
    /\ Quiet
    /\ UNCHANGED <<ports, worker, called, shown, market, corrections, agreed, round>>

-----------------------------------------------------------------------------
(* The decision: calc's numbers, the synthesizer and its one correction.    *)

Metrics ==
    /\ pc = "metrics"
    /\ \/ "factsheet" \in ports /\ Goto("submit") /\ stage' = 3 /\ Quiet
       \/ RaiseAt("metrics") /\ stage' = stage
    /\ UNCHANGED <<ports, worker, called, shown, merged, market, corrections, agreed,
                   round, lanes>>

Evaluate ==
    /\ pc = "evaluate"
    /\ \/ Goto("submit") /\ stage' = 5 /\ Quiet
          /\ lanes' = [lanes EXCEPT !["calc"] = "done"]
       \/ RaiseAt("evaluate") /\ stage' = stage
          /\ lanes' = [lanes EXCEPT !["calc"] = "failed"]
    /\ UNCHANGED <<ports, worker, called, shown, merged, market, corrections, agreed,
                   round>>

JudgeSynthesis ==
    /\ pc = "merge"
    /\ stage = 5
    /\ worker["synthesizer"] = "done"
    /\ Goto("check")
    /\ Quiet
    /\ UNCHANGED <<ports, stage, worker, called, shown, merged, market, corrections,
                   agreed, round, lanes>>

\* render_card needs the market snapshot; it and the check itself may raise.
CardFails ==
    /\ pc = "check"
    /\ RaiseAt(IF market THEN "check" ELSE "card")
    /\ UNCHANGED <<ports, stage, worker, called, shown, merged, market, corrections,
                   agreed, round, lanes>>

Consistent ==
    /\ pc = "check"
    /\ market
    /\ agreed' = TRUE
    /\ merged' = Append(merged, "synthesizer")
    /\ \E flagged \in BOOLEAN : Flag(flagged)
    /\ Goto("verify")
    /\ Quiet
    /\ UNCHANGED <<ports, stage, worker, called, shown, market, corrections, round>>

\* A contradiction is sent back once; the second ends the run. Bugs: corrections are
\* not counted; the second contradiction ships.
Contradiction_Uncounted ==
    /\ pc = "check" /\ market
    /\ Goto("submit")
    /\ lanes' = [lanes EXCEPT !["synthesizer"] = "retrying"]
    /\ UNCHANGED <<corrections, merged, raised, outcome>>
    /\ UNCHANGED <<ports, stage, worker, called, shown, market, agreed, round>>

Contradiction_Ships ==
    /\ pc = "check" /\ market
    /\ lanes' = [lanes EXCEPT !["synthesizer"] = "retrying"]
    /\ \/ corrections = 0 /\ corrections' = 1 /\ Goto("submit") /\ merged' = merged
       \/ /\ corrections = 1 /\ corrections' = 1 /\ Goto("verify")
          /\ merged' = Append(merged, "synthesizer")
    /\ Quiet
    /\ UNCHANGED <<ports, stage, worker, called, shown, market, agreed, round>>

Contradiction ==
    /\ pc = "check" /\ market
    /\ lanes' = [lanes EXCEPT !["synthesizer"] = "retrying"]
    /\ \/ corrections = 0 /\ corrections' = 1 /\ Goto("submit") /\ Quiet
       \/ corrections = 1 /\ corrections' = 1 /\ RaiseAt("consistency")
    /\ UNCHANGED <<ports, stage, worker, called, shown, merged, market, agreed, round>>

-----------------------------------------------------------------------------
(* The gate, validation and the report.                                     *)

Verify ==
    /\ pc = "verify"
    /\ \/ /\ {"auditor", "factsheet"} \subseteq ports
          /\ lanes' = [lanes EXCEPT !["verify"] = "running"]
          /\ Goto("gate")
       \/ /\ ~({"auditor", "factsheet"} \subseteq ports)
          /\ lanes' = lanes
          /\ Goto("validate")
    /\ Quiet
    /\ UNCHANGED <<ports, stage, worker, called, shown, merged, market, corrections,
                   agreed, round>>

\* A round of retries: some owners run again.
GateRetry ==
    /\ pc = "gate"
    /\ round < MaxRounds
    /\ \E R \in SUBSET ToSet(merged) :
           /\ R # {}
           /\ lanes' = [l \in Lanes |-> IF l \in R THEN "retrying" ELSE lanes[l]]
    /\ round' = round + 1
    /\ Quiet
    /\ UNCHANGED <<ports, pc, stage, worker, called, shown, merged, market, corrections,
                   agreed>>

\* The claims that still fail are marked, and the run continues.
GateDone ==
    /\ pc = "gate"
    /\ lanes' = [lanes EXCEPT !["verify"] = "done"]
    /\ Goto("validate")
    /\ Quiet
    /\ UNCHANGED <<ports, stage, worker, called, shown, merged, market, corrections,
                   agreed, round>>

GateRaises ==
    /\ pc = "gate"
    /\ lanes' = [lanes EXCEPT !["verify"] = "failed"]
    /\ RaiseAt("verify")
    /\ UNCHANGED <<ports, stage, worker, called, shown, merged, market, corrections,
                   agreed, round>>

\* The contract validators run again over the whole state.
Validate ==
    /\ pc = "validate"
    /\ \/ "calc" \in ports /\ Goto("report") /\ Quiet
       \/ "calc" \notin ports /\ Goto("over") /\ outcome' = "preliminary" /\ raised' = raised
       \/ RaiseAt("validate")
    /\ UNCHANGED <<ports, stage, worker, called, shown, merged, market, corrections,
                   agreed, round, lanes>>

\* render refuses a state no auditor has seen; the Verdict contract may refuse it too.
Report ==
    /\ pc = "report"
    /\ \/ /\ lanes["verify"] = "done"
          /\ Goto("over") /\ outcome' = "verdict" /\ raised' = raised
       \/ RaiseAt("report")
    /\ UNCHANGED <<ports, stage, worker, called, shown, merged, market, corrections,
                   agreed, round, lanes>>

Coordinate ==
    \/ StartIngest \/ IngestRefused \/ IngestNoProfile \/ IngestDone
    \/ Submit \/ Join \/ (\E a \in Agents : RaiseFailure(a) \/ MergeAgent(a))
    \/ Metrics \/ Evaluate \/ JudgeSynthesis \/ CardFails \/ Consistent \/ Contradiction
    \/ Verify \/ GateRetry \/ GateDone \/ GateRaises \/ Validate \/ Report

Agent(a) == StartAgent(a) \/ EndAgent(a)

Over == pc = "over" /\ (\A a \in Agents : worker[a] \notin {"asked", "running"})
        /\ UNCHANGED vars

Next == Coordinate \/ (\E a \in Agents : Agent(a)) \/ Over

Spec == Init /\ [][Next]_vars

\* The coordinator's thread runs on, and a model call returns or times out.
FairSpec == Spec /\ WF_vars(Coordinate) /\ \A a \in Agents : WF_vars(Agent(a))

-----------------------------------------------------------------------------
(* Properties.                                                              *)

\* Threads leave no trace: merges, calls and the failure reported are those of agents
\* that work one after the other in canonical order, however the pair is scheduled.
Sequential == INSTANCE CommitteeOrder
RunsInOrder == Sequential!Spec

\* A verdict ships only after a consistency check passed on it, with every agent's
\* claims in once, a market price for the card and a completed audit.
VerdictEarned ==
    outcome = "verdict" =>
        agreed /\ merged = Order /\ market /\ lanes["verify"] = "done"

\* Later stages read everything earlier ones found and the pair never see each other.
ReadsEarlierStages ==
    \A a \in called : shown[a] = {b \in Agents : StageOf[b] < StageOf[a]}

\* Every run ends.
RunEnds == <>(outcome # "none")
=============================================================================
