SPECIFICATION FairSpec
CONSTANTS
  Burns = {m1}
  Quotes = {m1}
  QuoteOf <- OwnQuotes
  Total <- UnitTotals
  Attempts = {a1, a2}
  Nobody = Nobody
  RelayLease = 4
  SequenceLock = 3
  SubmitWindow = 2
  TxLifetime = 1
  MaxLag = 1
  OthersMint = FALSE
INVARIANTS
  RowTellsTheChain
PROPERTIES
  EveryBurnSettles
  OnlyTheHolderMoves
  RetryOnlyWhenDead
