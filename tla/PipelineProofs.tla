---------------------------- MODULE PipelineProofs ----------------------------
(***************************************************************************)
(* What Pipeline promises for any bound on the gate's rounds and for every *)
(* set of injected ports.  The argument: where the coordinator's thread    *)
(* stands tells how many agents are merged, those merged are a prefix of   *)
(* the canonical order, and an agent works only while its stage is waited  *)
(* for.  From this a run of the two-threaded coordinator maps, step by     *)
(* step, to the sequential committee of CommitteeOrder.                    *)
(***************************************************************************)
EXTENDS Pipeline, TLAPS

\* The canonical order of the six agents, spelled out.
LEMMA Roster ==
    /\ Len(Order) = 6 /\ Order \in Seq(Agents)
    /\ Order[1] = "financial" /\ Order[2] = "business" /\ Order[3] = "valuation"
    /\ Order[4] = "scenario" /\ Order[5] = "red_team" /\ Order[6] = "synthesizer"
    /\ Agents = {"financial", "business", "valuation", "scenario", "red_team", "synthesizer"}
<1>1. /\ Len(Order) = 6
      /\ Order[1] = "financial" /\ Order[2] = "business" /\ Order[3] = "valuation"
      /\ Order[4] = "scenario" /\ Order[5] = "red_team" /\ Order[6] = "synthesizer"
  BY DEF Order
<1>2. Agents = {"financial", "business", "valuation", "scenario", "red_team", "synthesizer"}
  BY DEF Agents, ToSet, Order
<1>3. Order \in Seq(Agents)
  BY <1>2 DEF Order
<1> QED BY <1>1, <1>2, <1>3

\* The agents of each stage, spelled out.
LEMMA Teams ==
    /\ Members[1] = {"financial", "business"} /\ Members[2] = {"valuation"}
    /\ Members[3] = {"scenario"} /\ Members[4] = {"red_team"} /\ Members[5] = {"synthesizer"}
    /\ \A i \in Stages : Members[i] \subseteq Agents
<1>1. /\ Members[1] = {"financial", "business"} /\ Members[2] = {"valuation"}
      /\ Members[3] = {"scenario"} /\ Members[4] = {"red_team"} /\ Members[5] = {"synthesizer"}
  BY DEF Members
<1>2. \A i \in Stages : i = 1 \/ i = 2 \/ i = 3 \/ i = 4 \/ i = 5
  BY DEF Stages
<1> QED BY <1>1, <1>2, Roster

\* Each agent belongs to one stage.
LEMMA StageFacts ==
    /\ StageOf["financial"] = 1 /\ StageOf["business"] = 1 /\ StageOf["valuation"] = 2
    /\ StageOf["scenario"] = 3 /\ StageOf["red_team"] = 4 /\ StageOf["synthesizer"] = 5
<1>1. ASSUME NEW a \in Agents, NEW i \in Stages, a \in Members[i],
             \A j \in Stages : a \in Members[j] => j = i
      PROVE  StageOf[a] = i
  BY <1>1 DEF StageOf
<1>2. \A i \in Stages : i = 1 \/ i = 2 \/ i = 3 \/ i = 4 \/ i = 5
  BY DEF Stages
<1>3. 1 \in Stages /\ 2 \in Stages /\ 3 \in Stages /\ 4 \in Stages /\ 5 \in Stages
  BY DEF Stages
<1>4. StageOf["financial"] = 1 /\ StageOf["business"] = 1
  BY <1>1, <1>2, <1>3, Teams, Roster
<1>5. StageOf["valuation"] = 2
  BY <1>1, <1>2, <1>3, Teams, Roster
<1>6. StageOf["scenario"] = 3
  BY <1>1, <1>2, <1>3, Teams, Roster
<1>7. StageOf["red_team"] = 4
  BY <1>1, <1>2, <1>3, Teams, Roster
<1>8. StageOf["synthesizer"] = 5
  BY <1>1, <1>2, <1>3, Teams, Roster
<1> QED BY <1>4, <1>5, <1>6, <1>7, <1>8

\* Agents merged before each stage.
Done == <<0, 2, 3, 4, 5>>
\* Who an agent builds on.
Prior(a) == {b \in Agents : StageOf[b] < StageOf[a]}

\* The agents merged are a prefix of the canonical order.
InOrder == \A i \in 1..Len(merged) : merged[i] = Order[i]

\* Everything a verdict needs is there.
Complete == "calc" \in ports /\ Len(merged) = 6 /\ agreed /\ market

\* Where the coordinator stands tells how many agents are merged.
Placed ==
    /\ pc \in {"start", "ingest"} => stage = 1 /\ Len(merged) = 0
    /\ pc \in {"submit", "wait"} => Len(merged) = Done[stage]
    /\ pc = "merge" => Len(merged) = Done[stage] \/ (stage = 1 /\ Len(merged) = 1)
    /\ pc = "metrics" => stage = 2 /\ Len(merged) = 3
    /\ pc = "evaluate" => stage = 4 /\ Len(merged) = 5
    /\ pc = "check" => stage = 5 /\ Len(merged) = 5
    /\ pc \in {"verify", "gate", "validate"} =>
           Complete \/ ("calc" \notin ports /\ Len(merged) = 3)
    /\ pc = "report" => Complete
    /\ pc = "metrics" \/ stage > 2 => "calc" \in ports

\* An agent works only while its stage is waited for, and was shown all it builds on.
Working ==
    \A a \in Agents :
        /\ worker[a] \in {"asked", "running"} => pc = "wait" /\ a \in Members[stage]
        /\ pc \in {"merge", "check"} /\ a \in Members[stage] => Ended(a)
        /\ worker[a] \in {"running", "done", "failed"} => a \in called
        /\ a \in called => worker[a] # "idle"
        /\ worker[a] # "idle" => shown[a] = Prior(a)

\* A run is over when, and only when, it has an outcome; only then has a step failed.
Ending ==
    /\ pc # "over" => outcome = "none" /\ raised = "none"
    /\ outcome = "none" => pc # "over"

\* The inductive invariant.
IInv == TypeOK /\ Placed /\ InOrder /\ Working /\ Ending /\ VerdictEarned

\* How many agents are merged before each stage, spelled out.
LEMMA DoneFacts == Done[1] = 0 /\ Done[2] = 2 /\ Done[3] = 3 /\ Done[4] = 4 /\ Done[5] = 5
BY DEF Done

\* A prefix of the canonical order, as a set.
LEMMA MergedSets ==
    ASSUME merged \in Seq(Agents), InOrder, Len(merged) <= 6
    PROVE  /\ Len(merged) = 0 => ToSet(merged) = {}
           /\ Len(merged) = 1 => ToSet(merged) = {"financial"}
           /\ Len(merged) = 2 => ToSet(merged) = {"financial", "business"}
           /\ Len(merged) = 3 => ToSet(merged) = {"financial", "business", "valuation"}
           /\ Len(merged) = 4 => ToSet(merged) = {"financial", "business", "valuation", "scenario"}
           /\ Len(merged) = 5 => ToSet(merged) = Agents \ {"synthesizer"}
           /\ Len(merged) = 6 => ToSet(merged) = Agents
<1>1. ToSet(merged) = {Order[i] : i \in 1..Len(merged)}
  BY DEF ToSet, InOrder
<1> HIDE DEF InOrder
<1>2. CASE Len(merged) = 0
  BY <1>1, <1>2
<1>3. CASE Len(merged) = 1
  BY <1>1, <1>3, Roster
<1>4. CASE Len(merged) = 2
  <2>1. 1..2 = {1, 2}
    OBVIOUS
  <2> QED BY <1>1, <1>4, <2>1, Roster
<1>5. CASE Len(merged) = 3
  <2>1. 1..3 = {1, 2, 3}
    OBVIOUS
  <2> QED BY <1>1, <1>5, <2>1, Roster
<1>6. CASE Len(merged) = 4
  <2>1. 1..4 = {1, 2, 3, 4}
    OBVIOUS
  <2> QED BY <1>1, <1>6, <2>1, Roster
<1>7. CASE Len(merged) = 5
  <2>1. 1..5 = {1, 2, 3, 4, 5}
    OBVIOUS
  <2> QED BY <1>1, <1>7, <2>1, Roster
<1>8. CASE Len(merged) = 6
  <2>1. 1..6 = {1, 2, 3, 4, 5, 6}
    OBVIOUS
  <2> QED BY <1>1, <1>8, <2>1, Roster
<1>9. Len(merged) \in Nat
  OBVIOUS
<1> QED BY <1>2, <1>3, <1>4, <1>5, <1>6, <1>7, <1>8, <1>9

\* What appending an agent does.
LEMMA AppendFacts ==
    ASSUME NEW m \in Seq(Agents), NEW a \in Agents
    PROVE  /\ Append(m, a) \in Seq(Agents) /\ Len(Append(m, a)) = Len(m) + 1
           /\ Append(m, a)[Len(m) + 1] = a
           /\ \A i \in 1..Len(m) : Append(m, a)[i] = m[i]
<1>1. Append(m, a) \in Seq(Agents) /\ Len(Append(m, a)) = Len(m) + 1
  OBVIOUS
<1>2. Append(m, a)[Len(m) + 1] = a
  OBVIOUS
<1>3. \A i \in 1..Len(m) : Append(m, a)[i] = m[i]
  OBVIOUS
<1> QED BY <1>1, <1>2, <1>3

\* A stage is shown exactly the agents of the stages before it: the names _upstream_text
\* lists are all of them, and all are merged when the stage is submitted.
LEMMA UpstreamIsPrior ==
    ASSUME TypeOK, InOrder, Len(merged) = Done[stage], NEW a \in Members[stage]
    PROVE  Upstream[stage] \cap ToSet(merged) = Prior(a)
<1> USE DEF TypeOK
<1>1. /\ Upstream[1] = {"financial", "business"} /\ Upstream[2] = {"financial", "business"}
      /\ Upstream[3] = {"financial", "business", "valuation"}
      /\ Upstream[4] = {"financial", "business", "valuation", "scenario"}
      /\ Upstream[5] = {"financial", "business", "valuation", "scenario", "red_team"}
  BY DEF Upstream, Analysts
<1>2. stage = 1 \/ stage = 2 \/ stage = 3 \/ stage = 4 \/ stage = 5
  BY DEF Stages
<1>3. Len(merged) \in Nat /\ Len(merged) <= 6 /\ merged \in Seq(Agents)
  BY <1>2, DoneFacts
<1>4. CASE stage = 1
  <2>1. Prior(a) = {} /\ ToSet(merged) = {}
    BY <1>3, <1>4, Teams, Roster, StageFacts, MergedSets, DoneFacts DEF Prior
  <2> QED BY <2>1
<1>5. CASE stage = 2
  <2>1. Prior(a) = {"financial", "business"} /\ ToSet(merged) = {"financial", "business"}
    BY <1>3, <1>5, Teams, Roster, StageFacts, MergedSets, DoneFacts DEF Prior
  <2> QED BY <1>1, <1>5, <2>1
<1>6. CASE stage = 3
  <2>1. /\ Prior(a) = {"financial", "business", "valuation"}
        /\ ToSet(merged) = {"financial", "business", "valuation"}
    BY <1>3, <1>6, Teams, Roster, StageFacts, MergedSets, DoneFacts DEF Prior
  <2> QED BY <1>1, <1>6, <2>1
<1>7. CASE stage = 4
  <2>1. /\ Prior(a) = {"financial", "business", "valuation", "scenario"}
        /\ ToSet(merged) = {"financial", "business", "valuation", "scenario"}
    BY <1>3, <1>7, Teams, Roster, StageFacts, MergedSets, DoneFacts DEF Prior
  <2> QED BY <1>1, <1>7, <2>1
<1>8. CASE stage = 5
  <2>1. /\ Prior(a) = Agents \ {"synthesizer"}
        /\ ToSet(merged) = Agents \ {"synthesizer"}
    BY <1>3, <1>8, Teams, Roster, StageFacts, MergedSets, DoneFacts DEF Prior
  <2> QED BY <1>1, <1>8, <2>1, Roster
<1> QED BY <1>2, <1>4, <1>5, <1>6, <1>7, <1>8

\* A run that has not begun satisfies the invariant.
LEMMA InitHolds == Init => IInv
<1> SUFFICES ASSUME Init
             PROVE  IInv
  OBVIOUS
<1>1. TypeOK
  <2>1. /\ ports \subseteq {"calc", "auditor", "factsheet"} /\ merged \in Seq(Agents)
        /\ lanes \in [Lanes -> LaneStatuses] /\ round \in 0..MaxRounds
        /\ worker \in [Agents -> {"idle", "asked", "running", "done", "failed"}]
        /\ shown \in [Agents -> SUBSET Agents] /\ called \subseteq Agents
    BY PipelineAssumption DEF Init, LaneStatuses
  <2>2. pc = "start" /\ stage \in Stages /\ corrections \in 0..1
    BY DEF Init, Stages
  <2>3. market \in BOOLEAN /\ agreed \in BOOLEAN /\ raised = "none" /\ outcome = "none"
    BY Zenon DEF Init
  <2> QED BY <2>1, <2>2, <2>3, Zenon DEF TypeOK
<1>2. Placed /\ InOrder /\ Ending /\ VerdictEarned
  BY DEF Init, Placed, InOrder, Ending, VerdictEarned
<1>3. Working
  BY DEF Init, Working
<1> QED BY <1>1, <1>2, <1>3 DEF IInv

\* Starting ingest keeps the invariant.
LEMMA StartIngestKeeps ==
    ASSUME IInv, StartIngest
    PROVE  IInv'
<1> USE DEF IInv, StartIngest, Goto, Quiet, RaiseAt, Flag
<1>1. TypeOK'
  BY Roster, PipelineAssumption DEF TypeOK, Stages, RaisingSteps, LaneStatuses, Lanes, GoOn
<1>2. Placed'
  BY DoneFacts DEF Placed, TypeOK, Stages, Complete
<1>3. InOrder'
  BY DEF InOrder, TypeOK
<1>4. Working'
  BY DEF Working, TypeOK, Ended
<1>5. Ending'
  BY DEF Ending
<1>6. VerdictEarned'
  BY DEF VerdictEarned, Ending
<1> QED BY <1>1, <1>2, <1>3, <1>4, <1>5, <1>6

\* A refused company keeps the invariant.
LEMMA IngestRefusedKeeps ==
    ASSUME IInv, IngestRefused
    PROVE  IInv'
<1> USE DEF IInv, IngestRefused, Goto, Quiet, RaiseAt, Flag
<1>1. TypeOK'
  BY Roster, PipelineAssumption DEF TypeOK, Stages, RaisingSteps, LaneStatuses, Lanes, GoOn
<1>2. Placed'
  BY DoneFacts DEF Placed, TypeOK, Stages, Complete
<1>3. InOrder'
  BY DEF InOrder, TypeOK
<1>4. Working'
  BY DEF Working, TypeOK, Ended
<1>5. Ending'
  BY DEF Ending
<1>6. VerdictEarned'
  BY DEF VerdictEarned, Ending
<1> QED BY <1>1, <1>2, <1>3, <1>4, <1>5, <1>6

\* A company without a profile keeps the invariant.
LEMMA IngestNoProfileKeeps ==
    ASSUME IInv, IngestNoProfile
    PROVE  IInv'
<1> USE DEF IInv, IngestNoProfile, Goto, Quiet, RaiseAt, Flag
<1>1. TypeOK'
  BY Roster, PipelineAssumption DEF TypeOK, Stages, RaisingSteps, LaneStatuses, Lanes, GoOn
<1>2. Placed'
  BY DoneFacts DEF Placed, TypeOK, Stages, Complete
<1>3. InOrder'
  BY DEF InOrder, TypeOK
<1>4. Working'
  BY DEF Working, TypeOK, Ended
<1>5. Ending'
  BY DEF Ending
<1>6. VerdictEarned'
  BY DEF VerdictEarned, Ending
<1> QED BY <1>1, <1>2, <1>3, <1>4, <1>5, <1>6

\* The end of ingest keeps the invariant.
LEMMA IngestDoneKeeps ==
    ASSUME IInv, IngestDone
    PROVE  IInv'
<1> USE DEF IInv, IngestDone, Goto, Quiet, RaiseAt, Flag
<1>1. TypeOK'
  BY Roster, PipelineAssumption DEF TypeOK, Stages, RaisingSteps, LaneStatuses, Lanes, GoOn
<1>2. Placed'
  BY DoneFacts DEF Placed, TypeOK, Stages, Complete
<1>3. InOrder'
  BY DEF InOrder, TypeOK
<1>4. Working'
  BY DEF Working, TypeOK, Ended
<1>5. Ending'
  BY DEF Ending
<1>6. VerdictEarned'
  BY DEF VerdictEarned, Ending
<1> QED BY <1>1, <1>2, <1>3, <1>4, <1>5, <1>6

\* Submitting a stage keeps the invariant.
LEMMA SubmitKeeps ==
    ASSUME IInv, Submit
    PROVE  IInv'
<1> USE DEF IInv, Submit, Goto, Quiet, RaiseAt, Flag
<1>1. TypeOK'
  <2>1. worker' \in [Agents -> {"idle", "asked", "running", "done", "failed"}]
    BY DEF TypeOK
  <2>2. shown' \in [Agents -> SUBSET Agents]
    <3>1. Upstream[stage] \cap ToSet(merged) \subseteq Agents
      BY DEF TypeOK, ToSet
    <3> QED BY <3>1 DEF TypeOK
  <2> QED BY <2>1, <2>2 DEF TypeOK
<1>2. Placed'
  BY DoneFacts DEF Placed, TypeOK, Stages, Complete
<1>3. InOrder'
  BY DEF InOrder, TypeOK
<1>4. Working'
  <2>1. \A a \in Members[stage] : Upstream[stage] \cap ToSet(merged) = Prior(a)
    BY UpstreamIsPrior DEF Placed, TypeOK
  <2>2. \A a \in Agents : worker[a] \notin {"asked", "running"}
    BY DEF Working
  <2> SUFFICES ASSUME NEW a \in Agents
               PROVE  /\ worker'[a] \in {"asked", "running"} => a \in Members[stage]
                      /\ worker'[a] \in {"running", "done", "failed"} => a \in called
                      /\ a \in called => worker'[a] # "idle"
                      /\ worker'[a] # "idle" => shown'[a] = Prior(a)
    BY DEF Working, Prior
  <2>3. CASE a \in Members[stage]
    BY <2>1, <2>3
  <2>4. CASE a \notin Members[stage]
    BY <2>2, <2>4 DEF Working
  <2> QED BY <2>3, <2>4
<1>5. Ending'
  BY DEF Ending
<1>6. VerdictEarned'
  BY DEF VerdictEarned, Ending
<1> QED BY <1>1, <1>2, <1>3, <1>4, <1>5, <1>6

\* Joining a stage keeps the invariant.
LEMMA JoinKeeps ==
    ASSUME IInv, Join
    PROVE  IInv'
<1> USE DEF IInv, Join, Goto, Quiet, RaiseAt, Flag
<1>1. TypeOK'
  BY Roster, PipelineAssumption DEF TypeOK, Stages, RaisingSteps, LaneStatuses, Lanes, GoOn
<1>2. Placed'
  <2>1. pc' = "merge" /\ stage' = stage /\ merged' = merged /\ ports' = ports
        /\ Len(merged) = Done[stage]
    BY DEF Placed
  <2> QED BY <2>1 DEF Placed
<1>3. InOrder'
  BY DEF InOrder, TypeOK
<1>4. Working'
  BY DEF Working, TypeOK, StageOver, Ended
<1>5. Ending'
  BY DEF Ending
<1>6. VerdictEarned'
  BY DEF VerdictEarned, Ending
<1> QED BY <1>1, <1>2, <1>3, <1>4, <1>5, <1>6

\* Computing metrics keeps the invariant.
LEMMA MetricsKeeps ==
    ASSUME IInv, Metrics
    PROVE  IInv'
<1> USE DEF IInv, Metrics, Goto, Quiet, RaiseAt, Flag
<1>1. TypeOK'
  BY Roster, PipelineAssumption DEF TypeOK, Stages, RaisingSteps, LaneStatuses, Lanes, GoOn
<1>2. Placed'
  BY DoneFacts DEF Placed, TypeOK, Stages, Complete
<1>3. InOrder'
  BY DEF InOrder, TypeOK
<1>4. Working'
  BY DEF Working, TypeOK, Ended
<1>5. Ending'
  BY DEF Ending
<1>6. VerdictEarned'
  BY DEF VerdictEarned, Ending
<1> QED BY <1>1, <1>2, <1>3, <1>4, <1>5, <1>6

\* Evaluating the scenario keeps the invariant.
LEMMA EvaluateKeeps ==
    ASSUME IInv, Evaluate
    PROVE  IInv'
<1> USE DEF IInv, Evaluate, Goto, Quiet, RaiseAt, Flag
<1>1. TypeOK'
  BY Roster, PipelineAssumption DEF TypeOK, Stages, RaisingSteps, LaneStatuses, Lanes, GoOn
<1>2. Placed'
  BY DoneFacts DEF Placed, TypeOK, Stages, Complete
<1>3. InOrder'
  BY DEF InOrder, TypeOK
<1>4. Working'
  BY DEF Working, TypeOK, Ended
<1>5. Ending'
  BY DEF Ending
<1>6. VerdictEarned'
  BY DEF VerdictEarned, Ending
<1> QED BY <1>1, <1>2, <1>3, <1>4, <1>5, <1>6

\* Taking the synthesis to its check keeps the invariant.
LEMMA JudgeSynthesisKeeps ==
    ASSUME IInv, JudgeSynthesis
    PROVE  IInv'
<1> USE DEF IInv, JudgeSynthesis, Goto, Quiet, RaiseAt, Flag
<1>1. TypeOK'
  BY Roster, PipelineAssumption DEF TypeOK, Stages, RaisingSteps, LaneStatuses, Lanes, GoOn
<1>2. Placed'
  BY DoneFacts DEF Placed, TypeOK, Stages, Complete
<1>3. InOrder'
  BY DEF InOrder, TypeOK
<1>4. Working'
  BY DEF Working, TypeOK, Ended
<1>5. Ending'
  BY DEF Ending
<1>6. VerdictEarned'
  BY DEF VerdictEarned, Ending
<1> QED BY <1>1, <1>2, <1>3, <1>4, <1>5, <1>6

\* A card or check that raises keeps the invariant.
LEMMA CardFailsKeeps ==
    ASSUME IInv, CardFails
    PROVE  IInv'
<1> USE DEF IInv, CardFails, Goto, Quiet, RaiseAt, Flag
<1>1. TypeOK'
  BY Roster, PipelineAssumption DEF TypeOK, Stages, RaisingSteps, LaneStatuses, Lanes, GoOn
<1>2. Placed'
  BY DoneFacts DEF Placed, TypeOK, Stages, Complete
<1>3. InOrder'
  BY DEF InOrder, TypeOK
<1>4. Working'
  BY DEF Working, TypeOK, Ended
<1>5. Ending'
  BY DEF Ending
<1>6. VerdictEarned'
  BY DEF VerdictEarned, Ending
<1> QED BY <1>1, <1>2, <1>3, <1>4, <1>5, <1>6

\* An accepted synthesis keeps the invariant.
LEMMA ConsistentKeeps ==
    ASSUME IInv, Consistent
    PROVE  IInv'
<1> USE DEF IInv, Consistent, Goto, Quiet, RaiseAt, Flag
<1>1. /\ merged' = Append(merged, "synthesizer") /\ Len(merged) = 5
      /\ merged \in Seq(Agents) /\ "calc" \in ports /\ pc' = "verify" /\ stage' = stage
      /\ ports' = ports
  BY Roster DEF Placed, TypeOK
<1>2. /\ Len(merged') = 6 /\ merged'[6] = "synthesizer"
      /\ \A i \in 1..5 : merged'[i] = merged[i]
  <2>1. "synthesizer" \in Agents
    BY Roster
  <2>2. /\ Len(merged') = Len(merged) + 1 /\ merged'[Len(merged) + 1] = "synthesizer"
        /\ \A i \in 1..Len(merged) : merged'[i] = merged[i]
    <3>1. \A s \in Seq(Agents) :
            LET t == Append(s, "synthesizer") IN
            /\ Len(t) = Len(s) + 1 /\ t[Len(s) + 1] = "synthesizer"
            /\ \A i \in 1..Len(s) : t[i] = s[i]
      BY <2>1, AppendFacts
    <3> QED BY <1>1, <3>1, Zenon
  <2> QED BY <1>1, <2>2
<1>3. TypeOK'
  BY Roster, PipelineAssumption DEF TypeOK, Stages, RaisingSteps, LaneStatuses, Lanes, GoOn
<1>4. Placed'
  <2>1. Complete'
    BY <1>1, <1>2, Zenon DEF Complete
  <2> QED BY <1>1, <2>1 DEF Placed
<1>5. InOrder'
  BY <1>1, <1>2, Roster DEF InOrder
<1>6. Working'
  BY DEF Working, TypeOK, Ended
<1>7. Ending'
  BY DEF Ending
<1>8. VerdictEarned'
  BY DEF VerdictEarned, Ending
<1> QED BY <1>3, <1>4, <1>5, <1>6, <1>7, <1>8

\* A contradiction keeps the invariant.
LEMMA ContradictionKeeps ==
    ASSUME IInv, Contradiction
    PROVE  IInv'
<1> USE DEF IInv, Contradiction, Goto, Quiet, RaiseAt, Flag
<1>1. TypeOK'
  BY Roster, PipelineAssumption DEF TypeOK, Stages, RaisingSteps, LaneStatuses, Lanes, GoOn
<1>2. Placed'
  BY DoneFacts DEF Placed, TypeOK, Stages, Complete
<1>3. InOrder'
  BY DEF InOrder, TypeOK
<1>4. Working'
  BY DEF Working, TypeOK, Ended
<1>5. Ending'
  BY DEF Ending
<1>6. VerdictEarned'
  BY DEF VerdictEarned, Ending
<1> QED BY <1>1, <1>2, <1>3, <1>4, <1>5, <1>6

\* Reaching the gate keeps the invariant.
LEMMA VerifyKeeps ==
    ASSUME IInv, Verify
    PROVE  IInv'
<1> USE DEF IInv, Verify, Goto, Quiet, RaiseAt, Flag
<1>1. TypeOK'
  BY Roster, PipelineAssumption DEF TypeOK, Stages, RaisingSteps, LaneStatuses, Lanes, GoOn
<1>2. Placed'
  BY DoneFacts DEF Placed, TypeOK, Stages, Complete
<1>3. InOrder'
  BY DEF InOrder, TypeOK
<1>4. Working'
  BY DEF Working, TypeOK, Ended
<1>5. Ending'
  BY DEF Ending
<1>6. VerdictEarned'
  BY DEF VerdictEarned, Ending
<1> QED BY <1>1, <1>2, <1>3, <1>4, <1>5, <1>6

\* A round of retries keeps the invariant.
LEMMA GateRetryKeeps ==
    ASSUME IInv, GateRetry
    PROVE  IInv'
<1> USE DEF IInv, GateRetry, Goto, Quiet, RaiseAt, Flag
<1>1. TypeOK'
  BY Roster, PipelineAssumption DEF TypeOK, Stages, RaisingSteps, LaneStatuses, Lanes, GoOn
<1>2. Placed'
  BY DoneFacts DEF Placed, TypeOK, Stages, Complete
<1>3. InOrder'
  BY DEF InOrder, TypeOK
<1>4. Working'
  BY DEF Working, TypeOK, Ended
<1>5. Ending'
  BY DEF Ending
<1>6. VerdictEarned'
  BY DEF VerdictEarned, Ending
<1> QED BY <1>1, <1>2, <1>3, <1>4, <1>5, <1>6

\* Passing the gate keeps the invariant.
LEMMA GateDoneKeeps ==
    ASSUME IInv, GateDone
    PROVE  IInv'
<1> USE DEF IInv, GateDone, Goto, Quiet, RaiseAt, Flag
<1>1. TypeOK'
  BY Roster, PipelineAssumption DEF TypeOK, Stages, RaisingSteps, LaneStatuses, Lanes, GoOn
<1>2. Placed'
  BY DoneFacts DEF Placed, TypeOK, Stages, Complete
<1>3. InOrder'
  BY DEF InOrder, TypeOK
<1>4. Working'
  BY DEF Working, TypeOK, Ended
<1>5. Ending'
  BY DEF Ending
<1>6. VerdictEarned'
  BY DEF VerdictEarned, Ending
<1> QED BY <1>1, <1>2, <1>3, <1>4, <1>5, <1>6

\* A failing gate keeps the invariant.
LEMMA GateRaisesKeeps ==
    ASSUME IInv, GateRaises
    PROVE  IInv'
<1> USE DEF IInv, GateRaises, Goto, Quiet, RaiseAt, Flag
<1>1. TypeOK'
  BY Roster, PipelineAssumption DEF TypeOK, Stages, RaisingSteps, LaneStatuses, Lanes, GoOn
<1>2. Placed'
  BY DoneFacts DEF Placed, TypeOK, Stages, Complete
<1>3. InOrder'
  BY DEF InOrder, TypeOK
<1>4. Working'
  BY DEF Working, TypeOK, Ended
<1>5. Ending'
  BY DEF Ending
<1>6. VerdictEarned'
  BY DEF VerdictEarned, Ending
<1> QED BY <1>1, <1>2, <1>3, <1>4, <1>5, <1>6

\* Validation keeps the invariant.
LEMMA ValidateKeeps ==
    ASSUME IInv, Validate
    PROVE  IInv'
<1> USE DEF IInv, Validate, Goto, Quiet, RaiseAt, Flag
<1>1. TypeOK'
  BY Roster, PipelineAssumption DEF TypeOK, Stages, RaisingSteps, LaneStatuses, Lanes, GoOn
<1>2. Placed'
  BY DoneFacts DEF Placed, TypeOK, Stages, Complete
<1>3. InOrder'
  BY DEF InOrder, TypeOK
<1>4. Working'
  BY DEF Working, TypeOK, Ended
<1>5. Ending'
  BY DEF Ending
<1>6. VerdictEarned'
  BY DEF VerdictEarned, Ending
<1> QED BY <1>1, <1>2, <1>3, <1>4, <1>5, <1>6

\* The report keeps the invariant.
LEMMA ReportKeeps ==
    ASSUME IInv, Report
    PROVE  IInv'
<1> USE DEF IInv, Report, Goto, Quiet, RaiseAt, Flag
<1>1. TypeOK'
  BY Roster, PipelineAssumption DEF TypeOK, Stages, RaisingSteps, LaneStatuses, Lanes, GoOn
<1>2. Placed'
  BY DoneFacts DEF Placed, TypeOK, Stages, Complete
<1>3. InOrder'
  BY DEF InOrder, TypeOK
<1>4. Working'
  BY DEF Working, TypeOK, Ended
<1>5. Ending'
  BY DEF Ending
<1>6. VerdictEarned'
  <2>1. merged \in Seq(Agents) /\ Len(merged) = 6 /\ agreed /\ market
    BY DEF Placed, Complete, TypeOK
  <2>2. merged = Order
    <3>1. \A i \in 1..6 : merged[i] = Order[i]
      BY <2>1 DEF InOrder
    <3> QED BY <2>1, <3>1, Roster
  <2> QED BY <2>1, <2>2 DEF VerdictEarned
<1> QED BY <1>1, <1>2, <1>3, <1>4, <1>5, <1>6

\* An agent's start keeps the invariant.
LEMMA StartAgentKeeps ==
    ASSUME IInv, NEW a \in Agents, StartAgent(a)
    PROVE  IInv'
<1> USE DEF IInv, StartAgent, Goto, Quiet, RaiseAt, Flag
<1>1. TypeOK'
  BY Roster, PipelineAssumption DEF TypeOK, Stages, RaisingSteps, LaneStatuses, Lanes, GoOn
<1>2. Placed'
  BY DoneFacts DEF Placed, TypeOK, Stages, Complete
<1>3. InOrder'
  BY DEF InOrder, TypeOK
<1>4. Working'
  BY DEF Working, TypeOK, Ended
<1>5. Ending'
  BY DEF Ending
<1>6. VerdictEarned'
  <2>1. outcome = "none" /\ outcome' = outcome
    BY DEF Working, Ending
  <2> QED BY <2>1 DEF VerdictEarned
<1> QED BY <1>1, <1>2, <1>3, <1>4, <1>5, <1>6

\* An agent's end keeps the invariant.
LEMMA EndAgentKeeps ==
    ASSUME IInv, NEW a \in Agents, EndAgent(a)
    PROVE  IInv'
<1> USE DEF IInv, EndAgent, Goto, Quiet, RaiseAt, Flag
<1>1. TypeOK'
  BY Roster, PipelineAssumption DEF TypeOK, Stages, RaisingSteps, LaneStatuses, Lanes, GoOn
<1>2. Placed'
  BY DoneFacts DEF Placed, TypeOK, Stages, Complete
<1>3. InOrder'
  BY DEF InOrder, TypeOK
<1>4. Working'
  BY DEF Working, TypeOK, Ended
<1>5. Ending'
  BY DEF Ending
<1>6. VerdictEarned'
  <2>1. outcome = "none" /\ outcome' = outcome
    BY DEF Working, Ending
  <2> QED BY <2>1 DEF VerdictEarned
<1> QED BY <1>1, <1>2, <1>3, <1>4, <1>5, <1>6

\* Reporting a failed agent keeps the invariant.
LEMMA RaiseFailureKeeps ==
    ASSUME IInv, NEW a \in Agents, RaiseFailure(a)
    PROVE  IInv'
<1> USE DEF IInv, RaiseFailure, Goto, Quiet, RaiseAt, Flag
<1>1. TypeOK'
  BY Roster, PipelineAssumption DEF TypeOK, Stages, RaisingSteps, LaneStatuses, Lanes, GoOn
<1>2. Placed'
  BY DoneFacts DEF Placed, TypeOK, Stages, Complete
<1>3. InOrder'
  BY DEF InOrder, TypeOK
<1>4. Working'
  BY DEF Working, TypeOK, Ended
<1>5. Ending'
  BY DEF Ending
<1>6. VerdictEarned'
  BY DEF VerdictEarned, Ending
<1> QED BY <1>1, <1>2, <1>3, <1>4, <1>5, <1>6

\* What the merging of an agent's findings does, stage by stage.
\* Taking the outcomes in canonical order, a merge adds the next agent of the order, and
\* the coordinator goes on when the stage has no other.
LEMMA MergeFacts ==
    ASSUME IInv, NEW a \in Agents, MergeAgent(a)
    PROVE  /\ Len(merged) \in 0..4 /\ a = Order[Len(merged) + 1]
           /\ merged' = Append(merged, a) /\ Len(merged') = Len(merged) + 1
           /\ Len(merged) = 0 => stage = 1 /\ stage' = 1 /\ pc' = "merge"
           /\ Len(merged) = 1 => stage = 1 /\ stage' = 2 /\ pc' = "submit"
           /\ Len(merged) = 2 => /\ stage = 2 /\ stage' = 2
                                 /\ pc' = IF "calc" \in ports THEN "metrics" ELSE "verify"
           /\ Len(merged) = 3 => stage = 3 /\ stage' = 4 /\ pc' = "submit"
           /\ Len(merged) = 4 => stage = 4 /\ stage' = 4 /\ pc' = "evaluate"
<1> USE DEF IInv
<1>1. /\ pc = "merge" /\ stage \in {1, 2, 3, 4} /\ Turn(a) /\ GoOn(a)
      /\ merged' = Append(merged, a) /\ merged \in Seq(Agents)
  BY DEF MergeAgent, TypeOK, Stages
<1>2. a = Order[Len(merged) + 1] /\ a \in Unmerged /\ Len(merged') = Len(merged) + 1
  BY <1>1 DEF Turn
<1>3. \/ stage = 1 /\ (Len(merged) = 0 \/ Len(merged) = 1)
      \/ stage = 2 /\ Len(merged) = 2
      \/ stage = 3 /\ Len(merged) = 3
      \/ stage = 4 /\ Len(merged) = 4
  BY <1>1, DoneFacts DEF Placed
<1>4. /\ AfterStage(1) = "submit" /\ AfterStage(3) = "submit" /\ AfterStage(4) = "evaluate"
      /\ AfterStage(2) = IF "calc" \in ports THEN "metrics" ELSE "verify"
  BY DEF AfterStage
<1>5. CASE stage = 1 /\ Len(merged) = 0
  <2>1. ToSet(merged) = {}
    BY <1>1, <1>5, MergedSets
  <2>2. Unmerged = {"financial", "business"}
    BY <1>5, <2>1, Teams DEF Unmerged
  <2>3. Unmerged # {a}
    BY <2>2
  <2> QED BY <1>1, <1>2, <1>5, <2>3 DEF GoOn, Goto
<1>6. CASE stage = 1 /\ Len(merged) = 1
  <2>1. Unmerged = {a}
    BY <1>2, <1>6, Teams, MergedSets, Roster, <1>1 DEF Unmerged
  <2> QED BY <1>1, <1>2, <1>4, <1>6, <2>1 DEF GoOn, Goto
<1>7. CASE stage = 2 /\ Len(merged) = 2
  <2>1. Unmerged = {a}
    BY <1>2, <1>7, Teams, MergedSets, Roster, <1>1 DEF Unmerged
  <2> QED BY <1>1, <1>2, <1>4, <1>7, <2>1 DEF GoOn, Goto
<1>8. CASE stage = 3 /\ Len(merged) = 3
  <2>1. Unmerged = {a}
    BY <1>2, <1>8, Teams, MergedSets, Roster, <1>1 DEF Unmerged
  <2> QED BY <1>1, <1>2, <1>4, <1>8, <2>1 DEF GoOn, Goto
<1>9. CASE stage = 4 /\ Len(merged) = 4
  <2>1. Unmerged = {a}
    BY <1>2, <1>9, Teams, MergedSets, Roster, <1>1 DEF Unmerged
  <2> QED BY <1>1, <1>2, <1>4, <1>9, <2>1 DEF GoOn, Goto
<1> QED BY <1>3, <1>5, <1>6, <1>7, <1>8, <1>9

\* Merging an agent keeps the invariant.
LEMMA MergeAgentKeeps ==
    ASSUME IInv, NEW a \in Agents, MergeAgent(a)
    PROVE  IInv'
<1> USE DEF IInv
<1>1. /\ worker' = worker /\ called' = called /\ shown' = shown /\ ports' = ports
      /\ market' = market /\ agreed' = agreed /\ outcome' = outcome /\ raised' = raised
      /\ corrections' = corrections /\ round' = round
      /\ pc = "merge" /\ outcome = "none" /\ raised = "none" /\ worker[a] = "done"
  BY DEF MergeAgent, Quiet, Ending
<1>2. /\ Len(merged) \in 0..4 /\ Len(merged') = Len(merged) + 1 /\ merged' = Append(merged, a)
      /\ stage' \in 1..4 /\ pc' \in {"merge", "submit", "metrics", "verify", "evaluate"}
  BY MergeFacts, SMT
<1>3. TypeOK'
  <2>1. merged' \in Seq(Agents)
    BY <1>2 DEF TypeOK
  <2>2. lanes' \in [Lanes -> LaneStatuses]
    BY DEF MergeAgent, Flag, TypeOK, LaneStatuses
  <2> QED BY <1>1, <1>2, <2>1, <2>2 DEF TypeOK, Stages
<1>4. Placed'
  <2>1. CASE Len(merged) = 0
    BY <1>1, <1>2, <2>1, MergeFacts, DoneFacts DEF Placed
  <2>4. CASE Len(merged) = 1
    BY <1>1, <1>2, <2>4, MergeFacts, DoneFacts DEF Placed
  <2>2. CASE Len(merged) = 2
    BY <1>1, <1>2, <2>2, MergeFacts, DoneFacts DEF Placed
  <2>3. CASE Len(merged) = 3 \/ Len(merged) = 4
    <3>1. stage > 2
      BY <2>3, MergeFacts
    <3> QED BY <1>1, <1>2, <2>3, <3>1, MergeFacts, DoneFacts DEF Placed
  <2> QED BY <1>2, <2>1, <2>2, <2>3, <2>4
<1>5. InOrder'
  <2> SUFFICES ASSUME NEW i \in 1..Len(merged')
               PROVE  merged'[i] = Order[i]
    BY DEF InOrder
  <2>1. CASE i = Len(merged) + 1
    BY <1>2, <2>1, MergeFacts DEF TypeOK
  <2>2. CASE i # Len(merged) + 1
    <3>1. i \in 1..Len(merged) /\ merged'[i] = merged[i]
      BY <1>2, <2>2 DEF TypeOK
    <3> QED BY <3>1 DEF InOrder
  <2> QED BY <2>1, <2>2
<1>6. Working'
  <2>1. \A b \in Agents : worker[b] \notin {"asked", "running"}
    BY <1>1 DEF Working
  <2>2. pc' = "merge" => stage' = stage
    BY MergeFacts, SMT
  <2>3. pc' # "check"
    BY <1>2
  <2> QED BY <1>1, <2>1, <2>2, <2>3 DEF Working, Ended, Prior
<1>7. Ending' /\ VerdictEarned'
  BY <1>1, <1>2 DEF Ending, VerdictEarned
<1> QED BY <1>3, <1>4, <1>5, <1>6, <1>7

\* Every step of a run keeps the invariant.
LEMMA StepKeeps == IInv /\ [Next]_vars => IInv'
<1> SUFFICES ASSUME IInv, [Next]_vars
             PROVE  IInv'
  OBVIOUS
<1>1. CASE UNCHANGED vars
  BY <1>1 DEF vars, IInv, TypeOK, Placed, Complete, InOrder, Working, Ended, Prior, Ending,
              VerdictEarned
<1>2. CASE Coordinate
  BY <1>2, StartIngestKeeps, IngestRefusedKeeps, IngestNoProfileKeeps, IngestDoneKeeps,
     SubmitKeeps, JoinKeeps, RaiseFailureKeeps, MergeAgentKeeps, MetricsKeeps, EvaluateKeeps,
     JudgeSynthesisKeeps, CardFailsKeeps, ConsistentKeeps, ContradictionKeeps, VerifyKeeps,
     GateRetryKeeps, GateDoneKeeps, GateRaisesKeeps, ValidateKeeps, ReportKeeps DEF Coordinate
<1>3. ASSUME NEW a \in Agents, Agent(a)
      PROVE  IInv'
  BY <1>3, StartAgentKeeps, EndAgentKeeps DEF Agent
<1> QED BY <1>1, <1>2, <1>3 DEF Next, Over

\* The invariant holds throughout a run.
LEMMA AlwaysInvariant == Spec => []IInv
BY InitHolds, StepKeeps, PTL DEF Spec

\* Every variable of the coordinator keeps its type.
THEOREM PipelineTypeCorrect == Spec => []TypeOK
<1>1. IInv => TypeOK
  BY DEF IInv
<1> QED BY <1>1, AlwaysInvariant, PTL

\* A run of run() that returns a verdict has merged the whole committee in canonical order,
\* saw a market snapshot, passed the consistency check and was audited: no path through failures,
\* missing ports or the second contradiction ends in one.
THEOREM VerdictsAreEarned == Spec => []VerdictEarned
<1>1. IInv => VerdictEarned
  BY DEF IInv
<1> QED BY <1>1, AlwaysInvariant, PTL

\* A prompt shows an agent all the claims of the stages before its own and nothing of its
\* own stage, however the threads of the pair are scheduled.
THEOREM EarlierStagesAreRead == Spec => []ReadsEarlierStages
<1>1. IInv => ReadsEarlierStages
  BY DEF IInv, TypeOK, Working, Prior, ReadsEarlierStages
<1> QED BY <1>1, AlwaysInvariant, PTL

-----------------------------------------------------------------------------

\* The roster of the sequential committee is the coordinator's.
LEMMA RosterOfOrder == Sequential!Roster = Agents
BY DEF Sequential!Roster, Sequential!ToSet, Agents, ToSet

\* A run begins as the sequential committee does.
LEMMA InitMaps == Init => Sequential!Init
BY DEF Init, Sequential!Init

\* Every step of the coordinator or of an agent is a step of the sequential committee, or
\* none of its business.
LEMMA StepMaps == IInv /\ [Next]_vars => [Sequential!Next]_(Sequential!cvars)
<1> SUFFICES ASSUME IInv, [Next]_vars
             PROVE  Sequential!Next \/ UNCHANGED <<merged, called, raised>>
  BY DEF Sequential!cvars
<1> USE DEF IInv, Goto, Quiet, RaiseAt
<1>1. CASE UNCHANGED vars
  BY <1>1 DEF vars
<1>2. ASSUME NEW a \in Agents, StartAgent(a)
      PROVE  Sequential!Next
  <2>1. raised = "none" /\ Prior(a) \subseteq ToSet(merged)
    BY <1>2, UpstreamIsPrior DEF StartAgent, Working, Ending, Placed
  <2>2. Sequential!Earlier(a) = Prior(a)
    BY RosterOfOrder DEF Sequential!Earlier, Prior
  <2>3. Sequential!Call(a)
    BY <1>2, <2>1, <2>2 DEF Sequential!Call, Sequential!ToSet, ToSet, StartAgent
  <2> QED BY <2>3, RosterOfOrder DEF Sequential!Next
<1>3. ASSUME NEW a \in Agents, EndAgent(a)
      PROVE  UNCHANGED <<merged, called, raised>>
  BY <1>3 DEF EndAgent
<1>4. CASE StartIngest \/ IngestDone \/ Submit \/ Join \/ JudgeSynthesis \/ Verify
           \/ GateRetry \/ GateDone
  BY <1>4 DEF StartIngest, IngestDone, Submit, Join, JudgeSynthesis, Verify, GateRetry, GateDone
<1>5. ASSUME NEW a \in Agents, MergeAgent(a)
      PROVE  Sequential!Next
  <2>1. Len(merged) < 6 /\ a = Order[Len(merged) + 1] /\ merged' = Append(merged, a)
    <3>1. /\ Len(merged) \in 0..4 /\ a = Order[Len(merged) + 1]
          /\ merged' = Append(merged, a)
      BY <1>5, MergeFacts, Zenon
    <3>2. \A n \in 0..4 : n < 6
      OBVIOUS
    <3> QED BY <3>1, <3>2, Zenon
  <2>2. raised = "none" /\ raised' = raised /\ called' = called /\ a \in called
    BY <1>5 DEF MergeAgent, Ending, Working
  <2>3. Sequential!Merge
    BY <2>1, <2>2, Roster DEF Sequential!Merge
  <2> QED BY <2>3 DEF Sequential!Next
<1>6. CASE Consistent
  <2>1. /\ Len(merged) = 5 /\ stage = 5 /\ raised = "none" /\ raised' = raised /\ called' = called
        /\ merged' = Append(merged, "synthesizer")
    BY <1>6 DEF Consistent, Placed, Ending
  <2>2. "synthesizer" \in called
    BY <1>6, <2>1, Teams, Roster DEF Consistent, Working, Ended
  <2>3. Sequential!Merge
    BY <2>1, <2>2, Roster DEF Sequential!Merge
  <2> QED BY <2>3 DEF Sequential!Next
<1>7. ASSUME NEW a \in Agents, RaiseFailure(a)
      PROVE  Sequential!Next
  <2>1. /\ a = Order[Len(merged) + 1] /\ raised' = a /\ merged' = merged /\ called' = called
        /\ raised = "none" /\ a \in called /\ pc = "merge"
    BY <1>7 DEF RaiseFailure, Turn, Ending, Working
  <2>2. Len(merged) < 6
    <3>1. stage \in 1..5 /\ (Len(merged) = Done[stage] \/ Len(merged) = 1)
      BY <2>1 DEF Placed, TypeOK, Stages
    <3>2. Len(merged) \in 0..5
      <4>1. \A i \in 1..5 : Done[i] \in 0..5
        <5>1. \A i \in 1..5 : i = 1 \/ i = 2 \/ i = 3 \/ i = 4 \/ i = 5
          OBVIOUS
        <5> QED BY <5>1, DoneFacts
      <4>2. 1 \in 0..5
        OBVIOUS
      <4> QED BY <3>1, <4>1, <4>2, Zenon
    <3>3. \A n \in 0..5 : n < 6
      OBVIOUS
    <3> QED BY <3>2, <3>3, Zenon
  <2>3. Sequential!FailAgent
    BY <2>1, <2>2, Roster DEF Sequential!FailAgent
  <2> QED BY <2>3 DEF Sequential!Next
<1>8. /\ "ingest" \in Sequential!CodeSteps(0)
      /\ {"metrics", "validate"} \subseteq Sequential!CodeSteps(3)
      /\ {"evaluate", "card", "check", "consistency"} \subseteq Sequential!CodeSteps(5)
      /\ {"validate", "report"} \subseteq Sequential!CodeSteps(6)
      /\ "verify" \in Sequential!GateSteps(3) /\ "verify" \in Sequential!GateSteps(6)
  BY DEF Sequential!CodeSteps, Sequential!GateSteps
<1>9. ASSUME merged' = merged, called' = called, raised = "none",
             raised' \in Sequential!CodeSteps(Len(merged)) \cup Sequential!GateSteps(Len(merged))
      PROVE  Sequential!Next
  BY <1>9 DEF Sequential!Next, Sequential!FailCode
<1>10. CASE IngestRefused \/ IngestNoProfile
  BY <1>8, <1>9, <1>10 DEF IngestRefused, IngestNoProfile, Placed, Ending
<1>11. CASE Metrics
  BY <1>8, <1>9, <1>11 DEF Metrics, Placed, Ending
<1>12. CASE Evaluate
  BY <1>8, <1>9, <1>12 DEF Evaluate, Placed, Ending
<1>13. CASE CardFails
  BY <1>8, <1>9, <1>13 DEF CardFails, Placed, Ending
<1>14. CASE Contradiction
  BY <1>8, <1>9, <1>14 DEF Contradiction, Placed, Ending
<1>15. CASE GateRaises
  BY <1>8, <1>9, <1>15 DEF GateRaises, Placed, Ending, Complete
<1>16. CASE Validate
  BY <1>8, <1>9, <1>16 DEF Validate, Placed, Ending, Complete
<1>17. CASE Report
  BY <1>8, <1>9, <1>17 DEF Report, Placed, Ending, Complete
<1> QED BY <1>1, <1>2, <1>3, <1>4, <1>5, <1>6, <1>7, <1>10, <1>11, <1>12, <1>13, <1>14, <1>15,
           <1>16, <1>17 DEF Next, Coordinate, Agent, Over

\* The coordinator implements CommitteeOrder: with two agents in threads, and failures in
\* either, findings enter in canonical order, each agent is called after all it builds on
\* is in, and the first failure in that order is the one reported.
THEOREM RunsLookSequential == Spec => RunsInOrder
BY InitMaps, StepMaps, AlwaysInvariant, PTL DEF Spec, RunsInOrder, Sequential!Spec
=============================================================================
