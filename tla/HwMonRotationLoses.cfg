\* A line is read and printed, another is logged, the log is rotated.
CONSTANTS
  r1 = r1  r2 = r2  None = None
  Runs = {r1}
  MaxLines = 2  MaxRotations = 1  MaxTruncations = 0  MaxCorruptions = 0
  MaxFaults = 0  Faults = {}
  HasFlock = TRUE  Journal = {FALSE}  Reach = 1  MaxNow = 1
SPECIFICATION FairHwSpec
PROPERTY EventuallyReported
