SPECIFICATION Spec
CONSTANTS
  EtrSize = 4
  DefaultSize = 6
  Alignment = 2
  Frame = 2
  MaxBytes = 8
  Faults = {"open", "mmap", "mremap", "pointer", "read", "decode", "export"}
INVARIANTS DecoderSeesTrace PointersInOrder ExportedWhole
CHECK_DEADLOCK FALSE
