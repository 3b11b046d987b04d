SPECIFICATION FairSpec
CONSTANTS
  Payments = {p1}
  Paid <- Twos
  Invoices = {i1}
  InvoiceOf <- OneInvoice
  Dues = {2}
  Withdrawals = {}
  Withdrawn <- Ones
  Calls = {c1, c2}
  None = None
  MaxVersion = 1
  MaxCrashes = 1
CHECK_DEADLOCK FALSE
PROPERTIES
  AppliedIsShown
