SPECIFICATION Spec
CONSTANTS
    Factsheets <- MCFactsheets
    Rates <- MCRates
    Overrides <- MCOverrides
    Requests <- MCRequests
INVARIANTS LineageSound WindowsNotMixed ImpliedGrowthInverts SplitsAreNotGrowth
PROPERTIES FactsAreFinal
CHECK_DEADLOCK FALSE
