SPECIFICATION FairSpec
CONSTANTS
    DueDateDays = 2
    LatestStart = 1
    CotermDay = 3
    Refusals = {"CustomerLost", "CustomerUnavailable", "DuplicateItems", "SkuUnavailable", "CommitmentRequested", "CommitmentRefused", "PreviewRejected", "SubscriptionUnknown", "AgencyTypeMissing", "ContactMissing", "AccountRefused", "SubSegmentsMissing", "ChangeRefused"}
    Lines = {"new", "idle", "down", "gone"}
    OldQuantity <- MCOldQuantity
    NewQuantity <- MCNewQuantity
    FirstCurrent <- MCFirst
    FirstRenewal <- MCFirst
    RenewalFollows = TRUE
    Offers = {list, reduced}
    DeduplicatesOrders = TRUE
    MaxNewOrders = 2
    Purchases <- MCPurchases
    PurchaseLine <- MCPurchaseLine
    PurchasedQuantity <- TwoAndOne
    RenewalPurchases <- MCNone
    LastReturnDay <- OldestDropsOut
    OtherDeployment <- MCNone
    LastTwoWeeks = 9
    InactiveLines = {"idle"}
    MaxCustomers = 3
    Configured = {"on", "more", "off"}
    Desired <- MCDesired
    FirstEnabled <- MCFirstEnabled
    Kinds = {"purchase", "reseller", "switch", "termination", "configuration"}
INVARIANTS TypeOK OneAccount PurchasedIsDelivered PublishedIsTransferred SwitchedOnce TerminatedIsReturned ConfiguredWhenCompleted
PROPERTIES DecidedInTheEnd
CHECK_DEADLOCK FALSE
