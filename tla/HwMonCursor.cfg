\* One run at a time, a rotation with its gap, one fault.
CONSTANTS
  r1 = r1  r2 = r2  None = None
  Runs = {r1}
  MaxLines = 2  MaxRotations = 1  MaxTruncations = 0  MaxCorruptions = 1
  MaxFaults = 1  Faults = {"setup", "read", "write", "kill"}
  HasFlock = TRUE  Journal = {TRUE, FALSE}  Reach = 1  MaxNow = 2
SPECIFICATION HwSpec
INVARIANTS HwTypeOK CursorPassesOnlyReported
