\* Two copies of one alert and a recovery whose body may never arrive: liveness
\* of the service and of its shutdown.
CONSTANTS
  a1 = a1  a2 = a2  a3 = a3  a4 = a4
  h1 = h1  h2 = h2  nic = nic  mem = mem  NoText = NoText
  NoAlert = NoAlert  NotRead = NotRead  Nothing = Nothing
  Alerts <- MCTwoKeys
  PayloadOf <- MCPayloadOf
  About <- MCAbout
  Slow = {a4}
  DedupSeconds = 10
  TTL = 1  CleanupAt = 1  Wait = 1  MaxConcurrent = 1  MaxNow = 1
SPECIFICATION FairSpec
PROPERTIES ImplementsService AcceptedIsAnalysed StopTerminates
CHECK_DEADLOCK FALSE
