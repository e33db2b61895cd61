CONSTANTS
    Session = {"t1", "t2"}
    RECOVERY_COUNT = 2
    MaxSecrets = 2
    MaxSets = 2
    MaxRequests = 1
    User = {"ann", "bob"}
    Credential = {"c1", "c2"}
    Nobody = "nobody"
    OwnerOf <- OwnerOfTab
    Synced = {"c2"}
    MaxCount = 2
    Console = {"ann"}
    FirstRole <- FirstRoles
    Roles = {"super_admin", "admin", "user"}
    MaxChanges = 2
    Staff = {amy, ben}
    Txn = {1, 2}
    Withdrawals = {2}
    OVERVIEW_TAKE = 1
    MaxSends = 2
    MaxLost = 1
SYMMETRY DesksAlike
SPECIFICATION Spec
INVARIANTS
    DeskTruthful
PROPERTIES
    SecondFactorHolds
    PasskeysHold
    AdministrationHolds
