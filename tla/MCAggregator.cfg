\* The merge buffer: timers, a drain and late alerts in every order.
CONSTANTS
  e1 = e1  e2 = e2  e3 = e3  e4 = e4
  k1 = k1  k2 = k2  nic = nic  mem = mem
  NoEvent = NoEvent
  Events <- MCEvents
  Keys = {k1, k2}
  Types = {nic, mem}
  KeyOf <- MCKeyOf
  TypeOf <- MCTypeOf
  Wait = 2
SPECIFICATION FairAggSpec
INVARIANTS TypeOK HandedOverOnce EntryArmed DrainComplete
PROPERTIES OwnTimerOnly ImplementsDelivery EventuallyHanded DrainTerminates
CHECK_DEADLOCK FALSE
