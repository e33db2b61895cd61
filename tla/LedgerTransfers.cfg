CONSTANTS
    alice = alice
    bob = bob
    staff = staff
    Free = Free
    Request = {r1, r2, r3}
    Legacy = {}
    Wallet = {1, 2, 3}
    Existing = {1, 2}
    User = {alice, bob, staff}
    Adjusters = {staff}
    Approvers <- StaffApproves
    Opening <- TwoEach
    Owner <- TwoOwners
    Currency <- ThirdInEuro
    Rates <- HalfRate
    Amounts = {1, 2}
    MaxInt = 3
    Ops = {"transfer"}
SPECIFICATION Spec
SYMMETRY RequestSymmetry
INVARIANTS
    TransferPaired
    MoneyConserved
    ReadIsCurrent
    NoDeadlock
