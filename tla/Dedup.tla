-------------------------------- MODULE Dedup --------------------------------
(***************************************************************************)
(* The idempotence guard of the linkage service, dedup.MemoryDeduper       *)
(* (src/linkage/internal/dedup/dedup.go).                                  *)
(*                                                                         *)
(* Acquire reads the clock BEFORE it takes the mutex, so the time it       *)
(* compares and stores may be old when it gets the lock: reading and       *)
(* deciding are two steps here, and every webhook handler is a caller of   *)
(* its own.  Beyond CleanupAt entries a granted call also sweeps the       *)
(* entries that have expired at the time that call read.                   *)
(***************************************************************************)
EXTENDS Integers, FiniteSets

CONSTANTS
  Callers,   \* calls of Acquire
  DKeys,     \* dedup keys: (ident, type, window)
  DKeyOf,    \* the key of each call
  TTL,       \* dedup_minutes in ticks: app.New passes it as the ttl
  CleanupAt, \* 10000 in the code
  MaxNow,    \* bound of the clock
  NotRead    \* a caller that has not read the clock

ASSUME DKeyOfAssumption    == DKeyOf \in [Callers -> DKeys]
ASSUME TTLAssumption       == TTL \in Nat \ {0}
ASSUME CleanupAtAssumption == CleanupAt \in Nat
ASSUME MaxNowAssumption    == MaxNow \in Nat
ASSUME NotReadAssumption   == NotRead \notin Nat

VARIABLES
  now,      \* the wall clock, taken to be monotonic
  seen,     \* key -> second it expires, 0 when the key is not in the map
  read,     \* the clock each caller has read
  verdict,  \* what Acquire returned to each caller
  lockedAt  \* history: when each caller held the mutex

dedupVars == <<now, seen, read, verdict, lockedAt>>

Verdicts == {"none", "granted", "refused"}

DedupTypeOK ==
  /\ now \in Nat
  /\ seen \in [DKeys -> Nat]
  /\ read \in [Callers -> Nat \cup {NotRead}]
  /\ verdict \in [Callers -> Verdicts]
  /\ lockedAt \in [Callers -> Nat \cup {NotRead}]

DedupInit ==
  /\ now = 0
  /\ seen = [k \in DKeys |-> 0]
  /\ read = [c \in Callers |-> NotRead]
  /\ verdict = [c \in Callers |-> "none"]
  /\ lockedAt = [c \in Callers |-> NotRead]

-----------------------------------------------------------------------------
InMap(m) == {k \in DKeys : m[k] > 0}

\* Faults of the kind a change to Acquire could introduce.
SweepTooMuch(m, t) ==
  IF Cardinality(InMap(m)) > CleanupAt
  THEN [k \in DKeys |-> IF m[k] <= t + 1 THEN 0 ELSE m[k]]
  ELSE m

NoSweep(m, t) == m

Swept(m, t) ==
  IF Cardinality(InMap(m)) > CleanupAt
  THEN [k \in DKeys |-> IF m[k] <= t THEN 0 ELSE m[k]]
  ELSE m

ReadClock(c) ==
  /\ read[c] = NotRead
  /\ read' = [read EXCEPT ![c] = now]
  /\ UNCHANGED <<now, seen, verdict, lockedAt>>

GrantInThePast(c) ==
  /\ seen' = Swept([seen EXCEPT ![DKeyOf[c]] = read[c] - TTL], read[c])
  /\ verdict' = [verdict EXCEPT ![c] = "granted"]

Grant(c) ==
  /\ seen' = Swept([seen EXCEPT ![DKeyOf[c]] = read[c] + TTL], read[c])
  /\ verdict' = [verdict EXCEPT ![c] = "granted"]

\* Refusing at the very second the grant expires.
LockOffByOne(c) ==
  /\ read[c] # NotRead /\ verdict[c] = "none"
  /\ \/ /\ seen[DKeyOf[c]] > 0 /\ seen[DKeyOf[c]] >= read[c]
        /\ verdict' = [verdict EXCEPT ![c] = "refused"]
        /\ UNCHANGED seen
     \/ (seen[DKeyOf[c]] = 0 \/ seen[DKeyOf[c]] < read[c]) /\ Grant(c)
  /\ lockedAt' = [lockedAt EXCEPT ![c] = now]
  /\ UNCHANGED <<now, read>>

Lock(c) ==
  /\ read[c] # NotRead /\ verdict[c] = "none"
  /\ \/ /\ seen[DKeyOf[c]] > read[c]
        /\ verdict' = [verdict EXCEPT ![c] = "refused"]
        /\ UNCHANGED seen
     \/ seen[DKeyOf[c]] <= read[c] /\ Grant(c)
  /\ lockedAt' = [lockedAt EXCEPT ![c] = now]
  /\ UNCHANGED <<now, read>>

Tick ==
  /\ now < MaxNow
  /\ now' = now + 1
  /\ UNCHANGED <<seen, read, verdict, lockedAt>>

DedupNext ==
  \/ \E c \in Callers : ReadClock(c) \/ Lock(c)
  \/ Tick

DedupSpec == DedupInit /\ [][DedupNext]_dedupVars

-----------------------------------------------------------------------------
(* Properties.                                                             *)

Granted == {c \in Callers : verdict[c] = "granted"}

(* Of two granted calls of one key the later one gets the mutex only when  *)
(* TTL has passed since the clock the earlier one read.  Neither a stale   *)
(* clock nor the sweep of a third caller breaks it (dedup.go:44-58).       *)
SuppressedForTTL ==
  \A c, d \in Granted :
    (c # d /\ DKeyOf[c] = DKeyOf[d]) =>
      read[c] + TTL <= lockedAt[d] \/ read[d] + TTL <= lockedAt[c]

(* Acquire refuses only what a grant of the same key covers at the clock   *)
(* the refused call read: no alert is suppressed without another one that  *)
(* was let through less than TTL earlier (dedup.go:47-49).                 *)
RefusedOnlyIfCovered ==
  \A d \in Callers : verdict[d] = "refused" =>
    \E c \in Granted : DKeyOf[c] = DKeyOf[d] /\ read[d] < read[c] + TTL

(* The map stays bounded by the alerts that are still covered: a granted   *)
(* call that leaves more than CleanupAt entries leaves none that had       *)
(* expired at its clock (dedup.go:52-58).                                  *)
NoGarbageBeyondLimit ==
  [][\A c \in Callers :
       (verdict[c] = "none" /\ verdict'[c] = "granted") =>
         (Cardinality(InMap(seen')) > CleanupAt =>
            \A k \in InMap(seen') : seen'[k] > read[c])]_dedupVars
=============================================================================
