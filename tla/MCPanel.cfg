SPECIFICATION Spec
CONSTANTS
    Users <- MCUsers
    Addresses <- MCAddresses
    Mailers = {m1}
    Bots = {b1}
    Hooks = {h1, h2}
    Updates = {x1}
    Handlers = {r1, r2}
    Invitations = {i1}
    Nobody = Nobody
    MaxRows = 2
    MaxSwitches = 1
    MaxAttempts = 2
    ClaimLease = 1
    RetryDelay = 1
    Margin = 0
    CodeLife = 2
    Cooldown = 1
    MaxPasswords = 2
    MaxGuesses = 2
    FailureWindow = 2
    IPLimit = 1
    IPWindow = 2
    Targets = {1, 2}
    Admin = 2
    BulkIds = {1, 2}
    Keys = {k1, k2}
    Clerks = {w1, w2}
    Exporters = {e1, e2}
    MaxTries = 2
    MaxFaults = 1
INVARIANTS CredentialsCurrent AdmissionsEarned BulkSound
PROPERTIES PromiseKept EveryMessageEnds BulkEnds
CHECK_DEADLOCK FALSE
