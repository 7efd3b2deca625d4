SPECIFICATION Spec
CONSTANTS
    DueDateDays = 3
    LatestStart = 1
    CotermDay = 30
    Refusals = {"CustomerLost", "CustomerUnavailable", "DuplicateItems", "SkuUnavailable", "CommitmentRequested", "CommitmentRefused", "PreviewRejected"}
    Lines = {"up", "new", "down", "trim"}
    OldQuantity <- MCOldQuantity
    NewQuantity <- MCNewQuantity
    FirstCurrent <- MCFirstCurrent
    FirstRenewal <- MCOldQuantity
    RenewalFollows = TRUE
    Offers = {list}
    DeduplicatesOrders = TRUE
    MaxNewOrders = 2
    Purchases <- MCPurchases
    PurchaseLine <- MCPurchaseLine
    PurchasedQuantity <- OneOneThree
    RenewalPurchases <- MCNone
    LastReturnDay <- ListedTogether
    OtherDeployment <- MCNone
    LastTwoWeeks = 20
    PatchErrors = {}
    InactiveLines = {}
    Commitment = 7
INVARIANTS NeverOverbought PurchaseHeld CompletedIsDelivered CommitmentKept
PROPERTIES NothingOrderedOnceDecided KeepsPromise
CHECK_DEADLOCK FALSE
