CONSTANTS
    hall = hall
    lobby = lobby
    None = None
    SpaceOrder <- MCSpaceOrder
    Assigned = {hall}
    MaxPhones = 2
    Typed <- MCTyped

SPECIFICATION FormSpec

INVARIANTS
    HandsetsRingANumber
    SubmittedIsComplete
    SavingAgainKeepsLines

