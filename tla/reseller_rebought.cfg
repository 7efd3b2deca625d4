SPECIFICATION Spec
CONSTANTS
    DueDateDays = 1
    LatestStart = 1
    CotermDay = 2
    Refusals = {"CustomerLost", "CustomerUnavailable", "DuplicateItems", "SkuUnavailable", "CommitmentRequested", "CommitmentRefused", "PreviewRejected", "SubscriptionUnknown", "AgencyTypeMissing", "ContactMissing", "AccountRefused", "SubSegmentsMissing", "ChangeRefused"}
    Lines = {"new", "idle", "down", "gone"}
    OldQuantity <- MCOldQuantity
    NewQuantity <- MCNewQuantity
    FirstCurrent <- MCFirst
    FirstRenewal <- MCFirst
    RenewalFollows = TRUE
    Offers = {list}
    DeduplicatesOrders = TRUE
    MaxNewOrders = 2
    Purchases <- MCPurchases
    PurchaseLine <- MCPurchaseLine
    PurchasedQuantity <- TwoAndOne
    RenewalPurchases <- MCNone
    LastReturnDay <- OldestDropsOut
    OtherDeployment <- MCNone
    LastTwoWeeks = 9
    InactiveLines = {"idle"}
    MaxCustomers = 2
    Configured = {"on", "more", "off"}
    Desired <- MCDesired
    FirstEnabled <- MCFirstEnabled
    Kinds = {"reseller"}
INVARIANTS TransferredNotBought
CHECK_DEADLOCK FALSE
