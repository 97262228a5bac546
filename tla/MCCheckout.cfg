SPECIFICATION MCSpec
CONSTANTS
    u1 = u1
    u2 = u2
    Users = {u1, u2}
    Plans = {"basic"}
    Methods = {"m1", "m2"}
    Price <- OnePrice
    Discounts = {0}
    AssignTotals = {}
    AssignPeriods = {"monthly"}
    Grants = {1}
    Edited = {}
    AdminSubs <- NoSubs
    Imports = {}
    MaxOrders = 2
    MaxMoney = 2
    MaxCredited = 3
    Month = 2
    Timeout = 3
    Grace = 2
    Lease = 2
    Backoff = 1
    BatchLimit = 1
    MaxNow = 5
    Fees <- FeesOrOff
    CallTimeout = 1
    LastOrder = 0
INVARIANTS TypeOK ReceiptSettled SettledBinding ShownPageHonoured CallsSound
PROPERTIES PendingEnds
CHECK_DEADLOCK FALSE
