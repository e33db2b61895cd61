CONSTANTS
    alice = alice
    bob = bob
    staff = staff
    Free = Free
    Request = {r1, r2, r3}
    Legacy = {d1}
    Wallet = {1, 2}
    Existing = {1, 2}
    User = {alice, bob, staff}
    Adjusters = {staff}
    Approvers <- StaffApproves
    Opening <- TwoEach
    Owner <- TwoOwners
    Currency <- OneCurrency
    Rates <- HalfRate
    Amounts = {1}
    MaxInt = 3
    Ops = {"transfer", "withdrawal", "approve"}
SPECIFICATION FairSpec
PROPERTIES
    EveryRequestEnds
