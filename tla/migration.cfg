SPECIFICATION MigrationFairSpec
CONSTANTS
    Memberships = {vip1, vip2}
    Subscriptions = {s1}
    Committed = {vip2}
    GlobalCustomers = {vip1}
    MaxRetries = 2
    MaxReschedules = 2
    MaxTransfers = 1
    MigrationErrors = {"PreviewRecoverable", "PreviewRefused", "TransferRefused", "TransferUnavailable", "AuthorizationUnknown", "CustomerUnavailable", "MainAgreementUnsaved", "UpdateRefused", "TransferFails"}
INVARIANTS MigrationTypeOK
PROPERTIES MigrationSettles
CHECK_DEADLOCK FALSE
