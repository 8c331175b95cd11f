CONSTANTS
  Tx <- MCTx
  COINBASE <- MCCoinbase
  inputs <- MCInputs
  outputs <- MCOutputs
  number <- MCNumber
  Owner = {"a", "b"}
  CoinbaseCap = 2
  BlockMax = 2
  Node = {"n1"}
  Peer = {"p"}
  Foreign <- MCForeign
  Mempool = {"cb1", "pay", "rival", "over", "cb3"}
  MaxBlocks = 3
  MaxExchanges = 1
SPECIFICATION MiningSpec
INVARIANTS TypeOK  CandidateSound NoneForgotten
PROPERTIES UtxoFollowsChain AllSettle
