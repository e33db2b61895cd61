CONSTANTS
    alice = alice
    bob = bob
    staff = staff
    Free = Free
    Request = {r1, r2, r3}
    Legacy = {d1}
    Wallet = {1}
    Existing = {1}
    User = {alice, bob, staff}
    Adjusters = {staff}
    Approvers <- StaffApproves
    Opening <- OneWallet
    Owner <- OneOwner
    Currency <- OneCurrency
    Rates <- HalfRate
    Amounts = {1, 2}
    MaxInt = 3
    Ops = {"deposit", "withdrawal", "approve", "reject", "adjust"}
SPECIFICATION Spec
SYMMETRY RequestSymmetry
INVARIANTS
    TypeOK
    InBounds
    BalanceChain
    AuditMatches
    AnnouncedWasCommitted
PROPERTIES
    SettledOnce
    ImplementsAtomicLedger
