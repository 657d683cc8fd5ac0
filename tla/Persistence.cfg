SPECIFICATION PSpec
CONSTANTS
  g = g
  b1 = b1
  b2 = b2
  b3 = b3
  Blocks = {g, b1, b2, b3}
  Genesis = g
  NoBlock = NoBlock
  FlushEvery = 2
  MaxCrashes = 2
  MaxFailures = 1
  HeadersFirst = TRUE
  Parent <- MCParent
  BlockProof <- MCBlockProof
  BadHeader = {}
  BadBody = {}
  BadScripts = {}
  EnforceBip30 = FALSE
  Outpoints <- MCOutpoints
  Txs <- MCTxs
  GenesisCoins <- MCGenesisCoins
  Ledger <- MCLedger
  ConnectBlock <- connect_block
  DisconnectBlock <- disconnect_block
INVARIANTS Recovered DiskSound
PROPERTIES NeverBack Resumes
CHECK_DEADLOCK FALSE
