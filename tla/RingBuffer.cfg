CONSTANTS
  e1 = e1
  e2 = e2
  Elem = {e1, e2}
  Zero = Zero
  RINGBUFFER_MIN = 2
  RINGBUFFER_EXP = 4
  InitialSize = 3
  MaxSize = 7
  MaxDiscard = 4
SPECIFICATION Spec
INVARIANTS
  TypeOK
  IterationInOrder
  NoStaleSlots
PROPERTIES
  IsQueue
