CONSTANTS
  Size = 2
  Values = {0, 1}
  InitialValue = 0
  ReadDisabledValue = 1
  WrongWidthValue = WrongWidthValue
  None = None
SPECIFICATION Spec
INVARIANTS TypeOK
PROPERTIES ImplementsSyncRam
\* Every status other than "ok" ends the run (the method's error is returned
\* to RunBlock, which stops).
CHECK_DEADLOCK FALSE
