SPECIFICATION Spec
CONSTANTS
  Payments = {p1, p2}
  Paid <- Twos
  Invoices = {i1}
  InvoiceOf <- OneInvoice
  Dues = {3, 4}
  Withdrawals = {w1, w2}
  Withdrawn <- TwosOut
  Calls = {c1, c2}
  None = None
  MaxVersion = 1
  MaxCrashes = 1
SYMMETRY AnyName
ACTION_CONSTRAINT RefundsOrCrashes
CHECK_DEADLOCK FALSE
INVARIANTS
  TypeOK
  InvoiceNotOverbooked
  AppliedOnBothSides
  RefundsAreClaimed
  ProjectionAtRest
  ClosedStaysClosed
