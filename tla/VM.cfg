SPECIFICATION Spec
CONSTANTS
  Procs = {p1}
  ExecPages <- MCExec
  StackPages <- MCStack
  StackTop = "s"
  MapPages <- MCMap
  Buffers <- Single
  NPages = 2
  NSlots = 2
CHECK_DEADLOCK FALSE
INVARIANT TypeOK
INVARIANT FramesAccounted
INVARIANT NeverShared
 
PROPERTY FaultServed
