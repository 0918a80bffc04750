SPECIFICATION Spec
INVARIANTS AllChangesFlushed
CONSTANTS
  Addr = {"zero", "alice", "bob", "dapp", "vault", "shed"}
  Slot = {"count"}
  counter = counter
  Code = {counter}
  NoCode = NoCode
  None = None
  Keep = Keep
  Failed = Failed
  EvmError = Failed
  Zero = "zero"
  BlockGas = 1
  EvmReplay <- Execute
  EvmSystemCall <- ExecuteSystemCall
  Post <- ChainPost
  Canon <- ChainCanon
  Blocks = 4
  Chain <- DestroyChain
  CrashPoints = {"poll", "exec", "progress"}
  FirstBlockContiguous = TRUE
