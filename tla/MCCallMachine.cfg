SPECIFICATION Spec
CONSTANTS
  main = main
  work = work
  leaf = leaf
  callWork = callWork
  recur = recur
  callLeaf = callLeaf
  Fn <- MCFn
  Main = main
  Site <- MCSite
  Root = Root
  Caller <- MCCaller
  Callee <- MCCallee
  Params <- Params1
  ObjSize <- Sizes1
  ObjAlign <- Aligns1
  ObjOffset <- Offsets1
  StackSize <- StackSizes1
  Value = {u, v}
  Junk = Junk
  None = None
  Lowest = 0
  Top = 44
SYMMETRY Symmetric
INVARIANTS TypeOK StackPointerIsTracked ReturnAddressesIntact
PROPERTIES ReturnsToCallSite CallsAreIsolated
