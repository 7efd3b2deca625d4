SPECIFICATION Spec
CONSTANTS
    DueDateDays = 2
    LatestStart = 1
    CotermDay = 30
    Refusals = {}
    Lines = {"up", "down"}
    OldQuantity <- MCOldQuantity
    NewQuantity <- MCNewQuantity
    FirstCurrent <- AllHeld
    FirstRenewal <- MCOldQuantity
    RenewalFollows = TRUE
    Offers = {list}
    DeduplicatesOrders = TRUE
    MaxNewOrders = 2
    Purchases <- MCPurchases
    PurchaseLine <- MCPurchaseLine
    PurchasedQuantity <- OneOneThree
    RenewalPurchases <- MCNone
    LastReturnDay <- ListedTogether
    OtherDeployment <- MCNone
    LastTwoWeeks = 20
    PatchErrors = {}
    InactiveLines = {}
    Commitment = 0
INVARIANTS NeverOverbought
CHECK_DEADLOCK FALSE
