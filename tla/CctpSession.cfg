SPECIFICATION MCFairSpec
CONSTANTS
  Txs = {t1, t2}
  FirstTx = t1
  Workers = {w1, w2}
  None = None
  Window = 1
  Trail = 1
  MaxBlock = 2
  Sources = {"evm", "solana"}
  ManyBurns = TRUE
CHECK_DEADLOCK FALSE
INVARIANTS
  CompletedIsPaid
  BurnIsWatched
PROPERTIES
  CompletedStands
  ParkedUntilRequeued
  KnownBurnsSettle
