------------------------- MODULE MCScenarioDecision -------------------------
(***************************************************************************)
(* Proposals for TLC: every request on the grid of twentieths with three   *)
(* plain returns and no shift, and some requests inside, at and outside of *)
(* the band with every combination of returns and shifts.                  *)
(***************************************************************************)
EXTENDS ScenarioDecision

Proposal(b, m, u, returns, tilt, red) ==
    [request |-> [bear |-> b, base |-> m, bull |-> u],
     returns |-> returns, tilt |-> tilt, red |-> red]

PlainReturns == [bear |-> -14, base |-> 9, bull |-> 24]

Weighings == {Proposal(r["bear"], r["base"], r["bull"], PlainReturns, 0, 0) : r \in Requests}

Returns == {-30, 6, 11, 30}
Outcomes == UNION {[S -> Returns] : S \in SUBSET Cases}
Tilts == {<<0, 0>>, <<0, -5>>, <<10, -5>>, <<10, 0>>, <<-20, -20>>, <<40, 0>>}
Decisions == {Proposal(r[1], r[2], Unit - r[1] - r[2], o, t[1], t[2]) :
                  r \in {<<6, 10>>, <<3, 11>>, <<12, 7>>, <<1, 19>>}, o \in Outcomes, t \in Tilts}

AllProposals == Weighings \cup Decisions
=============================================================================
