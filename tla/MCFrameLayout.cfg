SPECIFICATION Spec
CONSTANTS
  ObjectSet <- MCObjectSet
  MaxObjects = 3
  MaxParams = 2
INVARIANTS ObjectsDisjoint FrameCoversObjects OffsetsAligned CallersKeepStackAligned
