--------------------------- MODULE CommitteeOrder ---------------------------
(***************************************************************************)
(* What a run promises whatever the scheduling of its agents: it looks as  *)
(* if the agents had worked one after the other in canonical order. Their  *)
(* findings enter the state in that order, each once; an agent is called   *)
(* only when everything it builds on is in; and the first failure in that  *)
(* order is the one reported, after which nothing is called or merged.     *)
(***************************************************************************)
EXTENDS Naturals, Sequences, SequencesExt

CONSTANTS
    Order,      \* the roster, in canonical order
    StageOf     \* the stage an agent belongs to

VARIABLES
    merged,     \* agents whose findings are in the state, in order of merging
    called,     \* agents whose model was called
    raised      \* the step that failed the run, or "none"

cvars == <<merged, called, raised>>

Roster == ToSet(Order)
Earlier(a) == {b \in Roster : StageOf[b] < StageOf[a]}

\* Steps of code that fail a run, by the number of agents merged before them.
CodeSteps(n) ==
    CASE n = 0 -> {"ingest"}
      [] n = 3 -> {"metrics", "validate"}
      [] n = 5 -> {"evaluate", "card", "check", "consistency"}
      [] n = 6 -> {"validate", "report"}
      [] OTHER -> {}

\* The gate follows the last merge: the sixth, or the third when no calc is injected.
GateSteps(n) == IF n \in {3, 6} THEN {"verify"} ELSE {}

Init == merged = << >> /\ called = {} /\ raised = "none"

Call(a) ==
    /\ raised = "none"
    /\ Earlier(a) \subseteq ToSet(merged)
    /\ called' = called \cup {a}
    /\ UNCHANGED <<merged, raised>>

Merge ==
    /\ raised = "none"
    /\ Len(merged) < Len(Order)
    /\ Order[Len(merged) + 1] \in called
    /\ merged' = Append(merged, Order[Len(merged) + 1])
    /\ UNCHANGED <<called, raised>>

FailAgent ==
    /\ raised = "none"
    /\ Len(merged) < Len(Order)
    /\ Order[Len(merged) + 1] \in called
    /\ raised' = Order[Len(merged) + 1]
    /\ UNCHANGED <<merged, called>>

FailCode ==
    /\ raised = "none"
    /\ raised' \in CodeSteps(Len(merged)) \cup GateSteps(Len(merged))
    /\ UNCHANGED <<merged, called>>

Next == (\E a \in Roster : Call(a)) \/ Merge \/ FailAgent \/ FailCode

Spec == Init /\ [][Next]_cvars
=============================================================================
