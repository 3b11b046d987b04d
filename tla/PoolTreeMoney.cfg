SPECIFICATION MoneyTreeSpec
CONSTANTS
  Accounts = {"pool", "admin", "treasury", "payer", "intake"}
  Recipients = {"payer"}
  Amounts = {49, 50}
  Templates <- MCTemplates
  Proposals <- AllProposals
  Pool = "pool"
  Owners = {"ana", "ben"}
  QuoteKeys = {"key1", "key2"}
  VerifierKeys <- MCVerifierKeys
  CodeHashes = {"code1", "code2"}
  None = None
  InitialAdmin = "admin"
  InitialFeeRecipient = "treasury"
  InitialQuoteKey = "key1"
  InitialVerifiers <- MCInitialVerifiers
  InitialCode = "code1"
  InitialBalances <- MCBalances
  Carries = {0, 1}
  Depth = 2
  Field <- MCField
  Hash <- MCHash
  FieldOf <- MCFieldOf
  RootHistorySize = 2
  Timelock = 1
  DirectMaxLifetime = 1
  AsyncMaxLifetime = 1
  IssuedAtClockSkew = 0
  ServerClockLead = 0
  U64Max = 60
  MaxTime = 3
  MaxProposals = 3
CHECK_DEADLOCK FALSE
INVARIANTS
  Solvent
  BytesPayOnceInFull
  EachLeafSettlesOnePayment
  RootWindow
  RootsAreTheTrees
  PathsLeadToTheRoot
  TimelockHonoured
PROPERTIES
  ImplementsLedger
  GovernedByProposals
