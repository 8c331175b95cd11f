CONSTANTS
  Tx <- MCTx
  COINBASE <- MCCoinbase
  inputs <- MCInputs
  outputs <- MCOutputs
  number <- MCNumber
  Owner = {"a", "b"}
  CoinbaseCap = 2
  BlockMax = 2
  Node = {n1, n2}
  Peer = {p}
  Foreign <- MCRival
  Mempool = {"forged", "cb1", "pay", "rival"}
  MaxBlocks = 2
  MaxExchanges = 1
SPECIFICATION Spec
SYMMETRY MCSymmetry
INVARIANTS ChainsAreAcceptable
