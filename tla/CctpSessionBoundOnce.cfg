SPECIFICATION Spec
CONSTANTS
  Txs = {t1, t2}
  FirstTx = t1
  Workers = {w1}
  None = None
  Window = 1
  Trail = 1
  MaxBlock = 2
  Sources = {"evm"}
  ManyBurns = TRUE
CHECK_DEADLOCK FALSE
PROPERTIES
  HashStands
