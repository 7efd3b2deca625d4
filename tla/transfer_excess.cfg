SPECIFICATION Spec
CONSTANTS
    DueDateDays = 0
    LatestStart = 0
    CotermDay = 30
    Refusals = {}
    Lines = {"line"}
    OldQuantity <- MCOld
    NewQuantity <- MCNew
    FirstCurrent <- MCOld
    FirstRenewal <- MCOld
    RenewalFollows = TRUE
    Offers = {list}
    DeduplicatesOrders = TRUE
    MaxNewOrders = 1
    Memberships = {vip}
    Subscriptions = {s1}
    Committed = {}
    GlobalCustomers = {}
    MaxRetries = 2
    MaxReschedules = 2
    MaxTransfers = 1
    MigrationErrors = {}
    Membership = vip
    Lapses <- OneLapses
    SubscriptionOf <- MCSubscriptionOf
    Deployments = {}
    TransferErrors = {}
INVARIANTS ExcessIsBought
CHECK_DEADLOCK FALSE
