SPECIFICATION FairSpec
CONSTANTS
  Profile = {p1, p2}
  Home = p1
  o1 = o1
  i1 = i1
  i2 = i2
  Op = {o1}
  Intent = {i1, i2}
  Requests <- MCRequests
  MaxSealed = 4
  MaxFaults = 1
  MaxCopies = 1
INVARIANTS
  OneReceipt
  EnvelopesAreFixed
  NoRollback
PROPERTIES
  ImplementsLedger
  PreparedIsSettled
