SPECIFICATION FairSpec
CONSTANTS
    Main = "main"
    Deployments = {"dep"}
    Subscriptions = {"own", "gc"}
    DeploymentOf <- MCDeploymentOf
    Quantities = {1}
    Commitments = {"none", "committed"}
    NoCommitment = "none"
    MaxChanges = 2
    Columns = 1
    MaxAgreements = 3
    ForeignCurrency = {}
    HasTransfer = TRUE
INVARIANTS SyncTypeOK TerminatedIsGone
PROPERTIES CreatedIsPublished Converges
CHECK_DEADLOCK FALSE
