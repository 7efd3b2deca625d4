SPECIFICATION FairReachableSpec
CONSTANTS
    DueDateDays = 1
    LatestStart = 1
    CotermDay = 2
    Refusals = {"CustomerUnavailable", "SkuUnavailable", "CommitmentRequested"}
    Lines = {"up", "new", "down", "trim"}
    OldQuantity <- MCOldQuantity
    NewQuantity <- MCNewQuantity
    FirstCurrent <- MCFirstCurrent
    FirstRenewal <- MCOldQuantity
    RenewalFollows = TRUE
    Offers = {list}
    DeduplicatesOrders = TRUE
    MaxNewOrders = 2
    Purchases <- FourPurchases
    PurchaseLine <- FourOfDown
    PurchasedQuantity <- FourQuantities
    RenewalPurchases <- TheLateRenewal
    LastReturnDay <- FourListed
    OtherDeployment <- TheOtherDeployment
    LastTwoWeeks = 1
    PatchErrors = {"INVALID_RENEWAL_STATE", "INACTIVE_SUBSCRIPTION_NOT_EDITABLE", "LINE_ITEM_OFFER_ID_EXPIRED", "OTHER"}
    InactiveLines = {"new"}
    Commitment = 0
INVARIANTS TypeOK PurchaseProcessed ReturnedWithinDownsize
PROPERTIES DecidedInTheEnd RecordedPurchaseIsFinal
CHECK_DEADLOCK FALSE
