SPECIFICATION FairSpec
CONSTANTS
  Sections <- FinSections
  Agents = {"financial"}
  Owner <- FinOwner
  Writes <- FinWrites
  CodeSections = {}
  Words = {"1-a", "2-b"}
  MaxRetries = 2
  Auditor = "contract"
INVARIANTS
  AuditedAsShipped
  ErrorsShow
PROPERTIES
  NothingHidden
  OnlyDirectedRewritten
  Ends
