SPECIFICATION Spec
CONSTANTS
    Half = 2
    self = self
    b1 = b1
    b2 = b2
    None = None
    Self = self
    Block <- MCBlock
    Shape <- MCShape
INVARIANTS ControlFlowKept AnalysisIsRight
