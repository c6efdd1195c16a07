SPECIFICATION VenueSpec
CONSTANTS
    Definitions <- MCDefinitions
    Budgets = {13}
    Leverages = {1, 3}
    AskedPrices = {4, 5}
    Shapes <- MCShapes
    Venues <- MCVenues
    Books <- MCBooks
    Equities = {0, 20}
    MaxOrders = 2
INVARIANTS
    SizedOrdersAreValid
    DownStaysWithinBudget
    ReportsAreAccepted
    LedgerIsPosition
    ClosingReduces
CHECK_DEADLOCK FALSE
