SPECIFICATION Spec
CONSTANTS
  Payments = {p1, p2}
  Paid <- Twos
  Invoices = {i1}
  InvoiceOf <- OneInvoice
  Dues = {3}
  Withdrawals = {w1}
  Withdrawn <- Ones
  Calls = {c1, c2}
  None = None
  MaxVersion = 1
  MaxCrashes = 0
SYMMETRY AnyName
CHECK_DEADLOCK FALSE
INVARIANTS
  ReversedIsReleased
