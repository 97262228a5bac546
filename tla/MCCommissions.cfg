SPECIFICATION Spec
CONSTANTS
  alice = alice
  bob = bob
  carol = carol
  bank = bank
  card = card
  None = None
  Users = {alice, bob, carol}
  Buyers = {bob}
  Holders = {alice}
  Trees <- Invited
  Amounts = {3}
  Policies <- TwoPolicies
  Edited = {alice}
  Saves <- AliceSaves
  Transfers = {2}
  RequestKeys = {"none", "k1"}
  NoKey = "none"
  Targets = {bank}
  MethodOf <- TheMethods
  Receipts = {"r1"}
  MaxOrders = 2
  MaxWithdrawals = 2
  MaxMoney = 3
  MaxForms = 1
  Delay = 1
  Backoff = 1
  BatchLimit = 1
  MaxNow = 1
INVARIANTS
  MoneyAccounted
  RequestsDistinct
PROPERTIES
  NoOrderBlocks
CHECK_DEADLOCK FALSE
