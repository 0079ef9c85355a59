\* A busy neighbour of a quiet host.
CONSTANTS
  s1 = s1  s2 = s2  s3 = s3  ip1 = ip1  ip2 = ip2  NoIP = NoIP
  m1 = m1  m2 = m2  m3 = m3  short = short  other = other
  t1 = t1  t2 = t2  w = w
  Sources = {s1, s2, s3}
  IPs = {ip1, ip2}
  IPOf <- MCIPOf
  Types = {t1, t2}
  Words = {w}
  TypeKeywords <- MCKeywords
  Batches = {{t1}}
  Messages = {m1, m2, m3}
  Shown = {short, other}
  Cut <- MCCut
  Docs <- MCDocs
  MaxLines = 2  MaxBuckets = 10  MaxDocs = 2
SPECIFICATION LogSpec
INVARIANT LocatedByName
CHECK_DEADLOCK FALSE
