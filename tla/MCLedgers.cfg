SPECIFICATION Spec
CONSTANTS
    Redeemers = {"ann", "bob"}
    InviterOf <- MCInviterOf
    Templates = {t1}
    Forms <- MCForms
    Base = 2
    MaxGift = 6
    MaxCodes = 1
    MaxUses = 2
    MaxEdits = 2
    Desks = {d1}
    CodeLives <- MCCodeLives
    PlanTraffic = {1, 2}
    Coupons = {"k"}
    MaxSales = 2
    Nothing = Nothing
    Riders = {u1}
    Gates = {g1}
    Reports <- MCReports
    Rates = {1, 3}
    Scale = 2
    MaxCount = 5
    MonthDays <- MCMonthDays
    LastDay = 8
    ReceiptLife = 2
    ResetKeys = {k1}
    MaxMoves = 1
    Guests = {g1}
    Relays = {"n1", "n2"}
    Phones = {a}
    Panels = {p1, p2}
    Window = 2
    Throttle = 2
    Patience = 1
    LastTick = 4
    MaxCalls = 2
    MaxFailures = 1
    Dealers = {"d1", "d2"}
    Clerk = "clerk"
    Prices <- MCPrices
    Offers <- MCOffers
    Capacity = 2
    PlanDevices = 1
    Handsets = {"h1", "h2"}
    Callers = {"c1", "c2"}
    RenewKeys = {"k1", "k2"}
    MaxBills = 3
    MaxAmends = 2
    LastSale = 3
INVARIANTS VouchersAccounted TrafficAccounted SummariesHonest DealsSound
CHECK_DEADLOCK FALSE
