SPECIFICATION Spec
ACTION_CONSTRAINT NothingForgotten
CONSTANTS
  Burns = {m1, m2}
  Quotes = {m1, m2}
  QuoteOf <- OwnQuotes
  Total <- UnitTotals
  Attempts = {a1, a2}
  Nobody = Nobody
  RelayLease = 3
  SequenceLock = 2
  SubmitWindow = 1
  TxLifetime = 1
  MaxLag = 0
  OthersMint = TRUE
SYMMETRY AnyName
INVARIANTS
  RowTellsTheChain
  NoSequenceRace
