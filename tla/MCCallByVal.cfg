SPECIFICATION Spec
CONSTANTS
  main = main
  work = work
  leaf = leaf
  callWork = callWork
  recur = recur
  callLeaf = callLeaf
  Fn <- MCFn
  Main = main
  Site <- MCSite
  Root = Root
  Caller <- MCCaller
  Callee <- MCCallee
  Params <- Params2
  ObjSize <- Sizes2
  ObjAlign <- Aligns2
  ObjOffset <- Offsets2
  StackSize <- StackSizes2
  Value = {u, v}
  Junk = Junk
  None = None
  Lowest = 0
  Top = 48
SYMMETRY Symmetric
PROPERTIES ArgumentCopiesArePrivate
