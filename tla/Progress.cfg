SPECIFICATION ProgressSpec
CONSTANTS
  Accounts = {"pool", "admin", "payer"}
  Recipients = {"payer"}
  Amounts = {49}
  Templates <- MCOneEach
  Proposals <- ExitProposals
  Pool = "pool"
  Owners = {"ana", "ben"}
  QuoteKeys = {"key1", "key2"}
  VerifierKeys <- MCVerifierKeys
  CodeHashes = {"code1", "code2"}
  None = None
  InitialAdmin = "admin"
  InitialFeeRecipient = "admin"
  InitialQuoteKey = "key1"
  InitialVerifiers <- MCInitialVerifiers
  InitialCode = "code1"
  InitialBalances <- MCBalances
  Carries = {0, 1}
  Depth = 1
  RootHistorySize = 1
  Timelock = 1
  DirectMaxLifetime = 1
  AsyncMaxLifetime = 1
  IssuedAtClockSkew = 1
  ServerClockLead = 1
  U64Max = 60
  MaxTime = 2
  MaxProposals = 1
  Reconcilers = {r1, r2}
  FirstReconciler = r1
  Nobody = Nobody
  Reviews <- MCReviews
  MaxReviews = 3
  MaxAttempts = 2
  Syncs = {s1}
  MaxLedger = 3
  Windows = {0, 1}
  LakeSettings = {TRUE}
CHECK_DEADLOCK FALSE
INVARIANTS
  DoneIsSeen
PROPERTIES
  EvidenceNeverOlder
  CredentialFollows
  ExitOpen
  IndexCatchesUp
