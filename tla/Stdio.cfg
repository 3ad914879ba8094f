CONSTANTS
  MaxInputs = 3
  InFifoSize = 2
  InPipeSize = 1
  MaxFails = 1
  MaxWrites = 4
  FifoSize = 2
  PipeSize = 2
  Faults = {"socket", "fifo", "spawn", "runc", "late"}

SPECIFICATION StdioSpec
CHECK_DEADLOCK FALSE
INVARIANT InputKept
INVARIANT OutputKept
INVARIANT EndsWithProcess
INVARIANT Delivered
PROPERTY InputEnds
PROPERTY CallsEnd
