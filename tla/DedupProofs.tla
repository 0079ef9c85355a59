----------------------------- MODULE DedupProofs -----------------------------
(***************************************************************************)
(* Proofs about the idempotence guard, for any callers, keys, ttl and      *)
(* clean-up limit.                                                         *)
(*                                                                         *)
(* SuppressedForTTL compares two grants, and what lies between them may be *)
(* a sweep that removed the first one's entry.  DInv says what a grant     *)
(* leaves behind: an entry that lasts a ttl from the clock it read, or,    *)
(* once the entry is gone or replaced, a wall clock past that ttl.         *)
(***************************************************************************)
EXTENDS Dedup, TLAPS

\* A caller read the clock before it took the mutex.
ClockInv ==
  \A c \in Callers :
    /\ read[c] # NotRead => read[c] <= now
    /\ verdict[c] # "none" => read[c] # NotRead
    /\ verdict[c] = "granted" => lockedAt[c] \in Nat

\* A grant is in the map for a ttl, or the ttl has passed.
CoverInv ==
  \A c \in Granted : seen[DKeyOf[c]] >= read[c] + TTL \/ now >= read[c] + TTL

\* An entry of the map is some grant's.
SourceInv ==
  \A k \in DKeys : seen[k] > 0 =>
    \E c \in Granted : DKeyOf[c] = k /\ seen[k] = read[c] + TTL

DInv == DedupTypeOK /\ ClockInv /\ CoverInv /\ SourceInv /\ SuppressedForTTL
          /\ RefusedOnlyIfCovered

-----------------------------------------------------------------------------
\* What a granted call leaves in the map.
LEMMA GrantSeen ==
  ASSUME DedupTypeOK, NEW c \in Callers, read[c] \in Nat, Grant(c)
  PROVE  /\ seen' \in [DKeys -> Nat]
         /\ seen'[DKeyOf[c]] = read[c] + TTL
         /\ \A k \in DKeys : k # DKeyOf[c] =>
              seen'[k] = seen[k] \/ (seen'[k] = 0 /\ seen[k] <= read[c])
<1> DEFINE k0 == DKeyOf[c]
           m  == [seen EXCEPT ![k0] = read[c] + TTL]
<1>1. /\ k0 \in DKeys /\ TTL \in Nat /\ TTL > 0
      /\ seen \in [DKeys -> Nat]
  BY DKeyOfAssumption, TTLAssumption DEF DedupTypeOK
<1>2. /\ m \in [DKeys -> Nat]
      /\ m[k0] = read[c] + TTL
      /\ \A k \in DKeys : k # k0 => m[k] = seen[k]
  BY <1>1
<1>3. seen' = Swept(m, read[c])
  BY DEF Grant
<1> HIDE DEF m
<1>4. CASE seen' = m
  BY <1>1, <1>2, <1>4
<1>5. CASE seen' = [k \in DKeys |-> IF m[k] <= read[c] THEN 0 ELSE m[k]]
  BY <1>1, <1>2, <1>5
<1> QED
  BY <1>3, <1>4, <1>5 DEF Swept

\* Nothing is granted at the start.
LEMMA DedupInitInv ==
  DedupInit => DInv
BY NotReadAssumption DEF DedupInit, DInv, DedupTypeOK, Verdicts, ClockInv, CoverInv, SourceInv,
       SuppressedForTTL, RefusedOnlyIfCovered, Granted

\* Reading the clock changes nothing a grant relies on.
LEMMA ReadStep ==
  ASSUME DInv, NEW c \in Callers, ReadClock(c)
  PROVE  DInv'
<1>1. /\ DedupTypeOK /\ now \in Nat
      /\ read[c] = NotRead
      /\ \A d \in Callers : read'[d] = IF d = c THEN now ELSE read[d]
      /\ UNCHANGED <<now, seen, verdict, lockedAt>>
  BY DEF DInv, DedupTypeOK, ReadClock
<1>2. DedupTypeOK'
  BY DEF DInv, DedupTypeOK, ReadClock
<1>3. verdict[c] = "none"
  BY <1>1 DEF DInv, ClockInv, DedupTypeOK, Verdicts
<1>4. Granted' = Granted /\ c \notin Granted
  BY <1>1, <1>3 DEF Granted
<1>5. \A d \in Granted : d \in Callers /\ read'[d] = read[d]
  BY <1>1, <1>4 DEF Granted
<1>6. ClockInv'
  BY <1>1, <1>3, NotReadAssumption DEF DInv, ClockInv
<1>7. CoverInv'
  BY <1>1, <1>4, <1>5 DEF DInv, CoverInv
<1>8. SourceInv'
  BY <1>1, <1>4, <1>5 DEF DInv, SourceInv
<1>9. SuppressedForTTL'
  BY <1>1, <1>4, <1>5 DEF DInv, SuppressedForTTL
<1>10. RefusedOnlyIfCovered'
  BY <1>1, <1>3, <1>4, <1>5 DEF DInv, RefusedOnlyIfCovered
<1> QED
  BY <1>2, <1>6, <1>7, <1>8, <1>9, <1>10 DEF DInv

\* A refusal is covered by the grant that owns the entry it found.
LEMMA RefuseStep ==
  ASSUME DInv, NEW c \in Callers, read[c] # NotRead, verdict[c] = "none",
         seen[DKeyOf[c]] > read[c],
         verdict' = [verdict EXCEPT ![c] = "refused"],
         lockedAt' = [lockedAt EXCEPT ![c] = now],
         UNCHANGED <<now, read, seen>>
  PROVE  DInv'
<1>1. /\ DedupTypeOK /\ DKeyOf[c] \in DKeys /\ read[c] \in Nat
      /\ seen[DKeyOf[c]] \in Nat
      /\ \A d \in Callers : verdict'[d] = IF d = c THEN "refused" ELSE verdict[d]
      /\ \A d \in Callers : d # c => lockedAt'[d] = lockedAt[d]
  BY DKeyOfAssumption DEF DInv, DedupTypeOK
<1>2. DedupTypeOK'
  BY DEF DInv, DedupTypeOK, Verdicts
<1>3. Granted' = Granted /\ c \notin Granted
  BY <1>1 DEF Granted
<1>4. \A d \in Granted : d \in Callers /\ lockedAt'[d] = lockedAt[d]
  BY <1>1, <1>3 DEF Granted
<1>5. ClockInv'
  BY <1>1 DEF DInv, ClockInv
<1>6. CoverInv' /\ SourceInv'
  BY <1>3 DEF DInv, CoverInv, SourceInv
<1>7. SuppressedForTTL'
  BY <1>3, <1>4 DEF DInv, SuppressedForTTL
<1>8. RefusedOnlyIfCovered'
  <2>1. \E d \in Granted : DKeyOf[d] = DKeyOf[c] /\ read[c] < read[d] + TTL
    <3>1. seen[DKeyOf[c]] > 0
      BY <1>1
    <3>2. PICK d \in Granted : DKeyOf[d] = DKeyOf[c] /\ seen[DKeyOf[c]] = read[d] + TTL
      BY <1>1, <3>1 DEF DInv, SourceInv
    <3> QED
      BY <1>1, <3>2
  <2> QED
    BY <1>1, <1>3, <2>1 DEF DInv, RefusedOnlyIfCovered
<1> QED
  BY <1>2, <1>5, <1>6, <1>7, <1>8 DEF DInv

\* A grant comes a ttl after every earlier grant of its key.
LEMMA GrantStep ==
  ASSUME DInv, NEW c \in Callers, read[c] # NotRead, verdict[c] = "none",
         seen[DKeyOf[c]] <= read[c], Grant(c),
         lockedAt' = [lockedAt EXCEPT ![c] = now],
         UNCHANGED <<now, read>>
  PROVE  DInv'
<1> DEFINE k0 == DKeyOf[c]
<1>1. /\ DedupTypeOK /\ now \in Nat /\ read[c] \in Nat /\ read[c] <= now
      /\ DKeyOf \in [Callers -> DKeys] /\ k0 \in DKeys
      /\ TTL \in Nat /\ TTL > 0
      /\ seen \in [DKeys -> Nat]
  <2>1. DedupTypeOK /\ read[c] <= now
    BY DEF DInv, ClockInv
  <2>2. read[c] \in Nat /\ now \in Nat /\ seen \in [DKeys -> Nat]
    BY <2>1 DEF DedupTypeOK
  <2> QED
    BY <2>1, <2>2, DKeyOfAssumption, TTLAssumption
<1>2. /\ \A d \in Callers : verdict'[d] = IF d = c THEN "granted" ELSE verdict[d]
      /\ \A d \in Callers : lockedAt'[d] = IF d = c THEN now ELSE lockedAt[d]
  BY DEF DInv, DedupTypeOK, Grant
<1>3. /\ seen' \in [DKeys -> Nat]
      /\ seen'[k0] = read[c] + TTL
      /\ \A k \in DKeys : k # k0 =>
           seen'[k] = seen[k] \/ (seen'[k] = 0 /\ seen[k] <= read[c])
  BY <1>1, GrantSeen
<1>4. DedupTypeOK'
  BY <1>1, <1>3 DEF DInv, DedupTypeOK, Grant, Verdicts
<1>5. Granted' = Granted \cup {c} /\ c \notin Granted
  BY <1>2 DEF Granted
<1>6. \A d \in Granted : /\ d \in Callers /\ DKeyOf[d] \in DKeys
                         /\ read[d] \in Nat /\ lockedAt'[d] = lockedAt[d]
  BY <1>1, <1>2, <1>5 DEF Granted, DInv, ClockInv, DedupTypeOK
<1>7. ClockInv'
  BY <1>1, <1>2 DEF DInv, ClockInv
<1>8. \A d \in Granted : DKeyOf[d] = k0 => now >= read[d] + TTL
  BY <1>1, <1>6 DEF DInv, CoverInv
<1>9. CoverInv'
  <2>1. ASSUME NEW d \in Granted
        PROVE  seen'[DKeyOf[d]] >= read[d] + TTL \/ now >= read[d] + TTL
    <3>1. CASE DKeyOf[d] = k0
      BY <1>8, <3>1
    <3>2. CASE DKeyOf[d] # k0
      <4>1. seen[DKeyOf[d]] >= read[d] + TTL \/ now >= read[d] + TTL
        BY DEF DInv, CoverInv
      <4> QED
        BY <1>1, <1>3, <1>6, <3>2, <4>1
    <3> QED
      BY <3>1, <3>2
  <2>2. seen'[k0] >= read[c] + TTL
    BY <1>1, <1>3
  <2> QED
    BY <1>5, <2>1, <2>2 DEF CoverInv
<1>10. SourceInv'
  <2> SUFFICES ASSUME NEW k \in DKeys, seen'[k] > 0
               PROVE  \E d \in Granted' : DKeyOf[d] = k /\ seen'[k] = read[d] + TTL
    BY DEF SourceInv
  <2>1. CASE k = k0
    BY <1>3, <1>5, <2>1
  <2>2. CASE k # k0
    <3>1. seen'[k] = seen[k] /\ seen[k] > 0
      BY <1>3, <2>2
    <3>2. PICK d \in Granted : DKeyOf[d] = k /\ seen[k] = read[d] + TTL
      BY <3>1 DEF DInv, SourceInv
    <3> QED
      BY <1>5, <3>1, <3>2
  <2> QED
    BY <2>1, <2>2
<1>11. SuppressedForTTL'
  <2> SUFFICES ASSUME NEW d \in Granted', NEW e \in Granted', d # e, DKeyOf[d] = DKeyOf[e]
               PROVE  read[d] + TTL <= lockedAt'[e] \/ read[e] + TTL <= lockedAt'[d]
    BY DEF SuppressedForTTL
  <2>1. CASE d = c
    BY <1>1, <1>2, <1>5, <1>6, <1>8, <2>1
  <2>2. CASE e = c
    BY <1>1, <1>2, <1>5, <1>6, <1>8, <2>2
  <2>3. CASE d # c /\ e # c
    BY <1>5, <1>6, <2>3 DEF DInv, SuppressedForTTL
  <2> QED
    BY <2>1, <2>2, <2>3
<1>12. RefusedOnlyIfCovered'
  BY <1>2, <1>5 DEF DInv, RefusedOnlyIfCovered
<1> QED
  BY <1>4, <1>7, <1>9, <1>10, <1>11, <1>12 DEF DInv

\* Time only lets more ttls pass.
LEMMA TickDedup ==
  ASSUME DInv, Tick
  PROVE  DInv'
<1>1. /\ DedupTypeOK /\ now \in Nat /\ now' = now + 1 /\ TTL \in Nat
      /\ UNCHANGED <<seen, read, verdict, lockedAt>>
      /\ Granted' = Granted
  BY TTLAssumption DEF DInv, DedupTypeOK, Tick, Granted
<1>2. DedupTypeOK' /\ ClockInv'
  BY <1>1 DEF DInv, DedupTypeOK, ClockInv
<1>3. CoverInv'
  <2>1. \A c \in Granted : read[c] \in Nat
    BY <1>1 DEF Granted, DInv, ClockInv, DedupTypeOK
  <2> QED
    BY <1>1, <2>1 DEF DInv, CoverInv
<1>4. SourceInv' /\ SuppressedForTTL' /\ RefusedOnlyIfCovered'
  BY <1>1 DEF DInv, SourceInv, SuppressedForTTL, RefusedOnlyIfCovered
<1> QED
  BY <1>2, <1>3, <1>4 DEF DInv

\* Every step preserves the strengthening.
LEMMA DedupStepInv ==
  DInv /\ [DedupNext]_dedupVars => DInv'
<1> SUFFICES ASSUME DInv, [DedupNext]_dedupVars
             PROVE  DInv'
  OBVIOUS
<1>1. ASSUME NEW c \in Callers, ReadClock(c)
      PROVE  DInv'
  BY <1>1, ReadStep
<1>2. ASSUME NEW c \in Callers, Lock(c)
      PROVE  DInv'
  BY <1>2, RefuseStep, GrantStep DEF Lock
<1>3. CASE Tick
  BY <1>3, TickDedup
<1>4. CASE UNCHANGED dedupVars
  BY <1>4 DEF dedupVars, DInv, DedupTypeOK, ClockInv, CoverInv, SourceInv,
              SuppressedForTTL, RefusedOnlyIfCovered, Granted
<1> QED
  BY <1>1, <1>2, <1>3, <1>4 DEF DedupNext

-----------------------------------------------------------------------------
(* The strengthening holds in every reachable state (dedup.go).            *)
THEOREM DedupInvariance == DedupSpec => []DInv
<1>1. DedupInit => DInv
  BY DedupInitInv
<1>2. DInv /\ [DedupNext]_dedupVars => DInv'
  BY DedupStepInv
<1> QED
  BY <1>1, <1>2, PTL DEF DedupSpec

(* Every clock read, verdict and entry of the guard's map has its type     *)
(* (dedup.go:22-26, 42-60).                                                *)
THEOREM DedupTypeCorrect == DedupSpec => []DedupTypeOK
<1>1. DInv => DedupTypeOK
  BY DEF DInv
<1> QED
  BY <1>1, DedupInvariance, PTL

(* Two grants of one key lie a ttl apart, stale clocks and sweeps          *)
(* notwithstanding (dedup.go:44-58).                                       *)
THEOREM Suppressed == DedupSpec => []SuppressedForTTL
<1>1. DInv => SuppressedForTTL
  BY DEF DInv
<1> QED
  BY <1>1, DedupInvariance, PTL

(* A refused alert is covered by one let through less than a ttl before it *)
(* read the clock (dedup.go:47-49).                                        *)
THEOREM Covered == DedupSpec => []RefusedOnlyIfCovered
<1>1. DInv => RefusedOnlyIfCovered
  BY DEF DInv
<1> QED
  BY <1>1, DedupInvariance, PTL

\* One step of the map's bound.
LEMMA StepBound ==
  ASSUME DInv, [DedupNext]_dedupVars, NEW c \in Callers,
         verdict[c] = "none", verdict'[c] = "granted",
         Cardinality(InMap(seen')) > CleanupAt, NEW k \in DKeys, seen'[k] > 0
  PROVE  seen'[k] > read[c]
<1>1. Lock(c)
  <2>1. PICK d \in Callers : Lock(d)
    BY DEF DedupNext, ReadClock, Tick, dedupVars
  <2>2. d = c
    BY <2>1 DEF Lock, Grant, DInv, DedupTypeOK
  <2> QED
    BY <2>1, <2>2
<1>2. Grant(c) /\ read[c] \in Nat
  BY <1>1 DEF Lock, DInv, DedupTypeOK
<1> DEFINE m == [seen EXCEPT ![DKeyOf[c]] = read[c] + TTL]
<1>3. seen' = Swept(m, read[c])
  BY <1>2 DEF Grant
<1>4. m \in [DKeys -> Nat]
  <2>1. seen \in [DKeys -> Nat] /\ read[c] + TTL \in Nat
    BY <1>2, TTLAssumption DEF DInv, DedupTypeOK
  <2> QED
    BY <2>1
<1> HIDE DEF m
<1>5. seen' = [j \in DKeys |-> IF m[j] <= read[c] THEN 0 ELSE m[j]]
  <2>1. CASE Cardinality(InMap(m)) > CleanupAt
    BY <1>3, <2>1 DEF Swept
  <2>2. CASE ~(Cardinality(InMap(m)) > CleanupAt)
    <3>1. seen' = m
      BY <1>3, <2>2 DEF Swept
    <3> QED
      <4>1. InMap(seen') = InMap(m)
        BY <3>1
      <4> QED
        BY <2>2, <4>1
  <2> QED
    BY <2>1, <2>2
<1> QED
  BY <1>2, <1>4, <1>5

(* Beyond the limit a granted call leaves no expired entry                 *)
(* (dedup.go:52-58).                                                       *)
THEOREM Bounded == DedupSpec => NoGarbageBeyondLimit
<1> DEFINE A == \A c \in Callers :
       (verdict[c] = "none" /\ verdict'[c] = "granted") =>
         (Cardinality(InMap(seen')) > CleanupAt =>
            \A k \in InMap(seen') : seen'[k] > read[c])
<1>1. DInv /\ [DedupNext]_dedupVars => [A]_dedupVars
  BY StepBound DEF InMap
<1>2. NoGarbageBeyondLimit <=> [][A]_dedupVars
  BY DEF NoGarbageBeyondLimit
<1> QED
  BY <1>1, <1>2, DedupInvariance, PTL DEF DedupSpec
=============================================================================
