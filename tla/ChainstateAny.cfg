SPECIFICATION Spec
CONSTANTS
  g = g
  a1 = a1
  a2 = a2
  b1 = b1
  b2 = b2
  b3 = b3
  Conflict = FALSE
  Blocks = {g, a1, a2, b1, b2, b3}
  Genesis = g
  Parent <- MCParent
  BlockProof <- MCBlockProof
  BadHeader = {}
  BadBody = {}
  BadScripts = {}
  EnforceBip30 = FALSE
  Outpoints <- MCOutpoints
  Txs <- MCTxs
  GenesisCoins <- MCGenesisCoins
  Ledger <- MCLedger
  ConnectBlock <- connect_block
  DisconnectBlock <- disconnect_block
INVARIANTS ActiveChainIsBranch IndexConsistent NoHeavierValidBlock
PROPERTIES OnlyMoreWorkReplaces IndexOnlyGrows
