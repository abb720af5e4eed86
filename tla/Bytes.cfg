CONSTANTS
  Messages <- MCMessages
  Changes = {1, 6, 250, 255}
SPECIFICATION MCSpec
INVARIANTS
  
  BytesOnce
  CopiesInOrder
PROPERTY Finishes
