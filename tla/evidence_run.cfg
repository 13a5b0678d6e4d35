SPECIFICATION Spec
CONSTANTS
    MinSection = 3
    MinPeers = 2
    Limit = 3
    MaxSection = 3
    Roster <- Agents
    Cases <- AllCases
    Fixture <- FixtureFiling
    FixturePeers <- TwoPeers
    Instructions <- Orders
    Outputs <- Answers
    Plans <- PlanAnswers
    GivenFacts <- Facts
INVARIANTS
    SectionsAreTheirItems
    QuotesAreTheSections
    NoBareNumbers
    PeersJustified
