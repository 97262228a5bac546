SPECIFICATION OrdersSpec
CONSTANTS
    Users = {u1}
    Plans = {"basic", "pro"}
    Methods = {}
    Price <- UpgradePrice
    Discounts = {0}
    AssignTotals = {1}
    AssignPeriods = {"quarterly"}
    Grants = {1}
    Edited = {u1}
    AdminSubs <- EndedSub
    Imports = {u1}
    MaxOrders = 3
    MaxMoney = 6
    MaxCredited = 1
    Month = 2
    Timeout = 1
    Grace = 1
    Lease = 1
    Backoff = 1
    BatchLimit = 1
    MaxNow = 1
INVARIANTS ValueConserved BalanceLedger OrdersOnce FormsCurrent
PROPERTIES OrderHistory
CHECK_DEADLOCK FALSE
