SPECIFICATION FairSpec
CONSTANTS
  Burns = {m1}
  Quotes = {m1}
  QuoteOf <- OwnQuotes
  Total <- UnitTotals
  Attempts = {a1, a2}
  Nobody = Nobody
  RelayLease = 3
  SequenceLock = 2
  SubmitWindow = 1
  TxLifetime = 1
  MaxLag = 0
  OthersMint = TRUE
PROPERTY
  EveryBurnSettles
