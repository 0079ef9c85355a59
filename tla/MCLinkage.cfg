\* Two copies of one alert in two layouts and another type of their host.
CONSTANTS
  a1 = a1  a2 = a2  a3 = a3  a4 = a4
  h1 = h1  h2 = h2  nic = nic  mem = mem  NoText = NoText
  NoAlert = NoAlert  NotRead = NotRead  Nothing = Nothing
  Alerts <- MCMerging
  PayloadOf <- MCPayloadOf
  About <- MCAbout
  Slow = {}
  DedupSeconds = 10
  TTL = 1  CleanupAt = 1  Wait = 1  MaxConcurrent = 1  MaxNow = 1
SPECIFICATION Spec
SYMMETRY Alike
INVARIANTS LinkageTypeOK NoAlertLost SlotsExact GracefulStop
PROPERTIES UsesGuard UsesBuffer ImplementsService
CHECK_DEADLOCK FALSE
