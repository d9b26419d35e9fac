SPECIFICATION Spec
CONSTANTS
  s1 = s1
  s2 = s2
  s3 = s3
  None = None
  Symbol = {s1, s2, s3}
  Object <- MCObject
  MaxItems = 3
  MaxInsts = 2
SYMMETRY Symmetric
INVARIANTS BufferFits BytesInOrder LabelsMarkObjects PaddingEndsSection 
