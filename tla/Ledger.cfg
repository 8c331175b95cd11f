CONSTANTS
  Tx <- MCTx
  COINBASE <- MCCoinbase
  inputs <- MCInputs
  outputs <- MCOutputs
  number <- MCNumber
  Owner = {"a", "b"}
  CoinbaseCap = 3
  KnownSets <- MCKnownSets
SPECIFICATION Spec
INVARIANTS TypeOK UtxoExact NoDoubleSpend SpentWasCreated SupplyBacked CorruptNeverAccepted
