SPECIFICATION Spec
INVARIANTS TornAtWorst CrashInv
PROPERTIES NoBlockMissed
CONSTANTS
  Addr = {"zero", "alice", "bob", "dapp", "vault", "shed"}
  Slot = {"count"}
  counter = counter
  Code = {counter}
  NoCode = NoCode
  None = None
  Keep = Keep
  Failed = Failed
  EvmError = Failed
  Zero = "zero"
  BlockGas = 1
  EvmReplay <- Execute
  EvmSystemCall <- ExecuteSystemCall
  Post <- ChainPost
  Canon <- ChainCanon
  Blocks = 11
  Chain <- MixedChain
  CrashPoints = {"poll", "exec", "apply_diffs", "progress"}
  FirstBlockContiguous = TRUE
