------------------------- MODULE MCVerificationGate -------------------------
(***************************************************************************)
(* An instance of VerificationGate for TLC: the Financial Agent with two   *)
(* of the sections it writes.                                              *)
(***************************************************************************)
EXTENDS VerificationGate

FinSections == {"financials", "cash_flow"}
FinOwner    == [s \in FinSections |-> "financial"]
FinWrites   == [a \in {"financial"} |-> FinSections]
=============================================================================
