SPECIFICATION HistorySpec
CONSTANTS
    Chain <- MCChain
    Anchors = {"revenue", "net_income"}
    FlowMetrics = {"revenue"}
    Multiplied = {"shares_diluted"}
    Divided = {"eps_diluted"}
    SplitConcepts = {"StockSplitRatio"}
    Years = 2
    PeriodMetrics = {"revenue", "net_income", "shares_diluted", "cash", "total_debt"}
    CoverShares = "CoverShares"
    BalanceShares = "BalanceShares"
    FloatConcept = "Float"
    OutsideUsGaap = {"CoverShares", "Float", "IfrsRevenue"}
    Catalog <- MCCatalog
    RunDates <- MCRunDates
    Quotes <- MCQuotes
    Sic = 3571
CHECK_DEADLOCK FALSE
INVARIANTS
    Citable
    Traceable
    LabelsAreFiscalYears
    SplitOnce
    TrailingIsAYear
PROPERTY HistoryStable
