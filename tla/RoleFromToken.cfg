CONSTANTS
    a = a
    b = b
    User = {a, b}
    Console = {a}
    FirstRole <- FirstRoles
    Roles = {"super_admin", "admin", "user"}
    MaxChanges = 2
SPECIFICATION Spec
INVARIANT OnlySuperAdminCrowns
