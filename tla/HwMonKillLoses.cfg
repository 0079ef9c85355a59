\* A run killed after it wrote the cursor.
CONSTANTS
  r1 = r1  r2 = r2  None = None
  Runs = {r1}
  MaxLines = 1  MaxRotations = 0  MaxTruncations = 0  MaxCorruptions = 0
  MaxFaults = 1  Faults = {"kill"}
  HasFlock = TRUE  Journal = {FALSE}  Reach = 1  MaxNow = 1
SPECIFICATION HwSpec
INVARIANT KilledRunIsRetried
