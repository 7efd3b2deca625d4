SPECIFICATION Spec
CONSTANTS
    DueDateDays = 1
    LatestStart = 0
    CotermDay = 30
    Refusals = {"CustomerLost", "SubscriptionUnknown", "PreviewRejected", "OrderRejected", "ReturnRejected"}
    Known = {"on", "up", "down", "off", "late"}
    Products = {"add", "again"}
    FirstPreference <- MCPreference
    FirstScheduled = {"again"}
    Payloads <- NowOnly
    UpdateErrors = {"Rejected"}
    ReversalErrors = {}
    MaxScheduled = 2
    OrderedProducts = {"add"}
    Sku <- SharedSku
    CommittedQuantity <- MCCommitted
    ShownLate = {"late"}
    RenewedBefore = {"on", "off"}
    MaxRenewals = 2
    Minimum = 14
INVARIANT NowDelivered
CHECK_DEADLOCK FALSE
