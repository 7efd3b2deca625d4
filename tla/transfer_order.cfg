SPECIFICATION Spec
CONSTANTS
    DueDateDays = 0
    LatestStart = 0
    CotermDay = 30
    Refusals = {"CustomerUnavailable", "PreviewRejected", "OrderRejected"}
    Lines = {"line", "gone"}
    OldQuantity <- MCOld
    NewQuantity <- MCNew
    FirstCurrent <- MCOld
    FirstRenewal <- MCOld
    RenewalFollows = TRUE
    Offers = {list}
    DeduplicatesOrders = TRUE
    MaxNewOrders = 1
    Memberships = {vip}
    Subscriptions = {s1, s2}
    Committed = {}
    GlobalCustomers = {vip}
    MaxRetries = 2
    MaxReschedules = 1
    MaxTransfers = 2
    MigrationErrors = {"PreviewRecoverable", "PreviewRefused", "TransferRefused", "TransferUnavailable", "AuthorizationUnknown", "CustomerUnavailable", "MainAgreementUnsaved", "UpdateRefused", "TransferFails"}
    Membership = vip
    Lapses <- MCLapses
    SubscriptionOf <- MCSubscriptionOf
    Deployments = {d1}
    TransferErrors = {"MembershipUnknown", "GovernmentMismatch", "ItemsDiffer", "TransferRejected", "LineInDeployment", "RenewalRefused"}
INVARIANTS TransferredNotRebought RenewedNotRebought CompletedIsDelivered SynchronizedIsDelivered
PROPERTIES RenewalOffWhenMigrated DeploymentsBeforeCompletion PublishedKeepsRenewing
CHECK_DEADLOCK FALSE
