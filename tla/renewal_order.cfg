SPECIFICATION Spec
CONSTANTS
    DueDateDays = 1
    LatestStart = 0
    CotermDay = 30
    Refusals = {"CustomerLost", "SubscriptionUnknown", "PreviewRejected", "OrderRejected", "ReturnRejected"}
    Known = {"on", "up", "down", "off", "late"}
    Products = {"add", "again"}
    FirstPreference <- MCPreference
    FirstScheduled = {"again"}
    Payloads <- BothPlans
    UpdateErrors = {"Rejected"}
    ReversalErrors = {}
    MaxScheduled = 2
    OrderedProducts = {"add"}
    Sku <- OwnSku
    CommittedQuantity <- MCCommitted
    ShownLate = {"late"}
    RenewedBefore = {"on", "off"}
    MaxRenewals = 2
    Minimum = 14
INVARIANTS TypeOK NeverDips ScheduledOnce PlanInPlace RenewedOnce NowDelivered
PROPERTIES ReversedToSnapshot AdditiveFirst
CHECK_DEADLOCK FALSE
