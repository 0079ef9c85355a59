\* Overlapping runs under the lock, a rotation, a truncation, one fault.
CONSTANTS
  r1 = r1  r2 = r2  None = None
  Runs = {r1, r2}
  MaxLines = 2  MaxRotations = 1  MaxTruncations = 1  MaxCorruptions = 0
  MaxFaults = 1  Faults = {"read", "kill"}
  HasFlock = TRUE  Journal = {FALSE}  Reach = 1  MaxNow = 1
SPECIFICATION FairHwSpec
INVARIANT NoLineTwice
PROPERTY ReportedUnlessLost
