SPECIFICATION Spec
CONSTANT Proposals <- AllProposals
INVARIANTS
  WeightsBounded
  ExpectedWithinCases
  PriorHeld
  SensitivityHonest
