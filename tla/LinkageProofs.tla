---------------------------- MODULE LinkageProofs ----------------------------
(***************************************************************************)
(* Proofs about the composed service, for any deliveries, any limit of     *)
(* concurrent analyses, any ttl and any merge wait.                        *)
(*                                                                         *)
(* Every step of the service is a step of the guard and a step of the      *)
(* buffer, or leaves them alone, so the inductive invariants of both       *)
(* (DedupProofs, AggregatorProofs) hold of the service.  LInv adds what    *)
(* ties them together: how far a handler has come is what the guard and    *)
(* the buffer know of its alert, an analysis belongs to one batch, and     *)
(* once no handler is open the drain meets every entry there is.           *)
(***************************************************************************)
EXTENDS Linkage, FiniteSetTheorems, TLAPS

GP == INSTANCE DedupProofs WITH
  Callers <- Alerts,
  DKeys   <- Keys \X Types,
  DKeyOf  <- [a \in Alerts |-> <<KeyOf[a], TypeOf[a]>>]

BP == INSTANCE AggregatorProofs WITH Events <- Alerts, NoEvent <- NoAlert

OwnTypeOK ==
  /\ http \in [Alerts -> HttpStates]
  /\ server \in ServerStates
  /\ timedOut \in BOOLEAN
  /\ job \in [Alerts -> JobStates]
  /\ slots \in Nat

\* Where a request is tells what the guard and the buffer know of its alert.
HandlerInv ==
  \A a \in Alerts :
    /\ http[a] = "enqueued" <=> home[a] # NoAlert
    /\ http[a] = "skipped" <=> verdict[a] = "refused"
    /\ http[a] = "enqueued" => verdict[a] = "granted"
    /\ verdict[a] = "granted" => http[a] \in {"open", "enqueued"}
    /\ read[a] # NotRead => a \notin Malformed /\ http[a] \notin {"none", "rejected"}
    /\ http[a] = "rejected" => a \in Malformed

\* An analysis is of a batch, and a batch is being analysed or has been.
JobInv ==
  /\ calls \cap returned = {}
  /\ \A c \in returned : job[c.ev] \in {"reported", "panicked"}
  /\ \A a \in Alerts : job[a] # "none" => \E c \in calls \cup returned : c.ev = a

SlotInv ==
  /\ IsFiniteSet(calls)
  /\ SlotsExact

\* What Stop has done, and that without an open handler nothing comes back
\* under a key the drain has passed.
StopInv ==
  /\ server \in {"serving", "stopping"} => drain.pc = "idle"
  /\ server = "exited" => drain.pc = "done"
  /\ (server \in {"draining", "exited"} /\ ~timedOut) =>
       /\ OpenHandlers = {}
       /\ drain.pc = "draining" => \A k \in Keys : entries[k] # BP!Absent => k \in drain.keys
       /\ drain.pc = "done" => \A k \in Keys : entries[k] = BP!Absent

LInv == GP!DInv /\ BP!IInv /\ OwnTypeOK /\ HandlerInv /\ JobInv /\ SlotInv /\ StopInv

-----------------------------------------------------------------------------
(* The service's constants satisfy what guard and buffer assume of theirs. *)

\* Each alert has a buffer key, a type and a dedup key.
LEMMA KeysAndTypes ==
  /\ KeyOf \in [Alerts -> Keys]
  /\ TypeOf \in [Alerts -> Types]
  /\ [a \in Alerts |-> <<KeyOf[a], TypeOf[a]>>] \in [Alerts -> Keys \X Types]
BY DEF KeyOf, TypeOf, Keys, Types

-----------------------------------------------------------------------------
(* The instances used for the proofs are the ones the service is built of. *)

\* The buffer's actions.
LEMMA SameBuffer ==
  /\ Buffer!AggInit <=> BP!AggInit
  /\ \A a \in Alerts : Buffer!Add(a) <=> BP!Add(a)
  /\ \A t : Buffer!TimerFires(t) <=> BP!TimerFires(t)
  /\ \A c : Buffer!CallReturns(c) <=> BP!CallReturns(c)
  /\ Buffer!DrainBegins <=> BP!DrainBegins
  /\ \A k : Buffer!DrainFires(k) <=> BP!DrainFires(k)
  /\ Buffer!DrainEnds <=> BP!DrainEnds
  /\ Buffer!Countdown <=> BP!Countdown
<1>1. Buffer!AggInit <=> BP!AggInit
  BY DEF Buffer!AggInit, BP!AggInit, Buffer!Absent, BP!Absent
<1>2. ASSUME NEW a \in Alerts PROVE Buffer!Add(a) <=> BP!Add(a)
  BY DEF Buffer!Add, BP!Add, Buffer!Open, BP!Open, Buffer!MergeInto, BP!MergeInto,
         Buffer!Absent, BP!Absent
<1>3. ASSUME NEW k, NEW who PROVE Buffer!Fire(k, who) <=> BP!Fire(k, who)
  BY DEF Buffer!Fire, BP!Fire, Buffer!Absent, BP!Absent
<1>4. ASSUME NEW t PROVE Buffer!TimerFires(t) <=> BP!TimerFires(t)
  BY <1>3 DEF Buffer!TimerFires, BP!TimerFires
<1>5. ASSUME NEW c PROVE Buffer!CallReturns(c) <=> BP!CallReturns(c)
  BY DEF Buffer!CallReturns, BP!CallReturns
<1>6. Buffer!DrainBegins <=> BP!DrainBegins
  BY DEF Buffer!DrainBegins, BP!DrainBegins, Buffer!Absent, BP!Absent, Buffer!InBuffer,
         BP!InBuffer
<1>7. Buffer!DrainCalls = BP!DrainCalls
  BY DEF Buffer!DrainCalls, BP!DrainCalls
<1>8. ASSUME NEW k PROVE Buffer!DrainFires(k) <=> BP!DrainFires(k)
  BY <1>3, <1>7 DEF Buffer!DrainFires, BP!DrainFires
<1>9. Buffer!DrainEnds <=> BP!DrainEnds
  BY <1>7 DEF Buffer!DrainEnds, BP!DrainEnds
<1>10. Buffer!Countdown <=> BP!Countdown
  BY DEF Buffer!Countdown, BP!Countdown
<1> QED
  BY <1>1, <1>2, <1>4, <1>5, <1>6, <1>8, <1>9, <1>10

\* The guard's actions.
LEMMA SameGuard ==
  /\ Guard!DedupInit <=> GP!DedupInit
  /\ \A a \in Alerts : Guard!ReadClock(a) <=> GP!ReadClock(a)
  /\ \A a \in Alerts : Guard!Lock(a) <=> GP!Lock(a)
<1>1. Guard!DedupInit <=> GP!DedupInit
  BY DEF Guard!DedupInit, GP!DedupInit
<1>2. ASSUME NEW a \in Alerts PROVE Guard!ReadClock(a) <=> GP!ReadClock(a)
  BY DEF Guard!ReadClock, GP!ReadClock
<1>3. ASSUME NEW m, NEW t PROVE Guard!Swept(m, t) = GP!Swept(m, t)
  <2>1. Guard!InMap(m) = GP!InMap(m)
    BY DEF Guard!InMap, GP!InMap
  <2> QED
    BY <2>1 DEF Guard!Swept, GP!Swept, Guard!Cardinality, GP!Cardinality
<1>4. ASSUME NEW a \in Alerts PROVE Guard!Grant(a) <=> GP!Grant(a)
  BY <1>3 DEF Guard!Grant, GP!Grant
<1>5. ASSUME NEW a \in Alerts PROVE Guard!Lock(a) <=> GP!Lock(a)
  BY <1>4 DEF Guard!Lock, GP!Lock
<1> QED
  BY <1>1, <1>2, <1>5

\* Every step of the service is one of the guard's or none of it.
LEMMA GuardStep ==
  [Next]_vars => [GP!DedupNext]_(GP!dedupVars)
<1> SUFFICES ASSUME [Next]_vars
             PROVE  GP!DedupNext \/ UNCHANGED dedupVars
  BY DEF GP!dedupVars, dedupVars
<1>1. ASSUME NEW a \in Alerts, Arrive(a) \/ Reject(a) \/ Enqueue(a)
      PROVE  UNCHANGED dedupVars
  BY <1>1 DEF Arrive, Reject, Enqueue
<1>2. ASSUME NEW a \in Alerts, ReadClock(a) \/ Acquire(a)
      PROVE  GP!DedupNext
  <2>1. GP!ReadClock(a) \/ GP!Lock(a)
    BY <1>2, SameGuard DEF ReadClock, Acquire
  <2> QED
    BY <2>1 DEF GP!DedupNext
<1>3. ASSUME NEW t \in timers, TimerFires(t)
      PROVE  UNCHANGED dedupVars
  BY <1>3 DEF TimerFires
<1>4. ASSUME NEW c \in calls, TakeSlot(c) \/ Analysis(c)
      PROVE  UNCHANGED dedupVars
  BY <1>4 DEF TakeSlot, Analysis, Report, Panic, Return
<1>5. CASE Signal \/ Shutdown
  BY <1>5 DEF Signal, Shutdown, ShutdownReturns, ShutdownTimesOut, DrainStep, Exit
<1>6. CASE LinkTick
  <2>1. CASE now < MaxNow
    <3>1. GP!Tick
      BY <1>6, <2>1 DEF LinkTick, GP!Tick
    <3> QED
      BY <3>1 DEF GP!DedupNext
  <2>2. CASE ~(now < MaxNow)
    BY <1>6, <2>2 DEF LinkTick, dedupVars
  <2> QED
    BY <2>1, <2>2
<1>7. CASE UNCHANGED vars
  BY <1>7 DEF vars
<1> QED
  BY <1>1, <1>2, <1>3, <1>4, <1>5, <1>6, <1>7 DEF Next, Handler

\* Every step of the service is one of the buffer's or none of it: with all
\* timers at zero a tick of the clock is none.
LEMMA BufferStep ==
  BP!TypeOK /\ [Next]_vars => [BP!AggNext]_(BP!aggVars)
<1> SUFFICES ASSUME BP!TypeOK, [Next]_vars
             PROVE  BP!AggNext \/ UNCHANGED aggVars
  BY DEF BP!aggVars, aggVars
<1>1. ASSUME NEW a \in Alerts, Arrive(a) \/ Reject(a) \/ ReadClock(a) \/ Acquire(a)
      PROVE  UNCHANGED aggVars
  BY <1>1 DEF Arrive, Reject, ReadClock, Acquire
<1>2. ASSUME NEW a \in Alerts, Enqueue(a)
      PROVE  BP!AggNext
  BY <1>2, SameBuffer DEF Enqueue, BP!AggNext
<1>3. ASSUME NEW t \in timers, TimerFires(t)
      PROVE  BP!AggNext
  BY <1>3, SameBuffer DEF TimerFires, BP!AggNext
<1>4. ASSUME NEW c \in calls, TakeSlot(c) \/ Report(c) \/ Panic(c)
      PROVE  UNCHANGED aggVars
  BY <1>4 DEF TakeSlot, Report, Panic
<1>5. ASSUME NEW c \in calls, Return(c)
      PROVE  BP!AggNext
  BY <1>5, SameBuffer DEF Return, BP!AggNext
<1>6. CASE Signal \/ ShutdownReturns \/ ShutdownTimesOut \/ Exit
  BY <1>6 DEF Signal, ShutdownReturns, ShutdownTimesOut, Exit
<1>7. CASE DrainStep
  <2>1. BP!DrainStep
    BY <1>7, SameBuffer DEF DrainStep, Buffer!DrainStep, BP!DrainStep
  <2> QED
    BY <2>1 DEF BP!AggNext
<1>8. CASE LinkTick
  <2>1. /\ BP!Countdown
        /\ UNCHANGED <<entries, calls, drain, home, returned, atDrain>>
    BY <1>8, SameBuffer DEF LinkTick
  <2>2. CASE \E t \in timers : t.left > 0
    <3>1. BP!Tick
      BY <2>1, <2>2 DEF BP!Tick
    <3> QED
      BY <3>1 DEF BP!AggNext
  <2>3. CASE ~\E t \in timers : t.left > 0
    <3>1. ASSUME NEW t \in timers
          PROVE  [t EXCEPT !.left = IF @ > 0 THEN @ - 1 ELSE 0] = t
      BY <2>3, LinkageAssumption DEF BP!TypeOK, BP!Timer
    <3>2. timers' = timers
      BY <2>1, <3>1 DEF BP!Countdown
    <3> QED
      BY <2>1, <3>2 DEF aggVars
  <2> QED
    BY <2>2, <2>3
<1>9. CASE UNCHANGED vars
  BY <1>9 DEF vars
<1> QED
  BY <1>1, <1>2, <1>3, <1>4, <1>5, <1>6, <1>7, <1>8, <1>9
  DEF Next, Handler, Analysis, Shutdown

-----------------------------------------------------------------------------
(* What the guard's and the buffer's steps do to the ties.                 *)

\* The invariants of guard and buffer hold of the service.
LEMMA PartsStep ==
  GP!DInv /\ BP!IInv /\ [Next]_vars => GP!DInv' /\ BP!IInv'
<1> SUFFICES ASSUME GP!DInv, BP!IInv, [Next]_vars
             PROVE  GP!DInv' /\ BP!IInv'
  OBVIOUS
<1>1. GP!DInv /\ [GP!DedupNext]_(GP!dedupVars) => GP!DInv'
  BY GP!DedupStepInv, KeysAndTypes, LinkageAssumption
<1>2. BP!IInv /\ [BP!AggNext]_(BP!aggVars) => BP!IInv'
  BY BP!StepIInv, KeysAndTypes, LinkageAssumption
<1>3. BP!TypeOK
  BY DEF BP!IInv
<1> QED
  BY <1>1, <1>2, <1>3, GuardStep, BufferStep

\* Firing a key starts at most one analysis, of a batch not seen before.
LEMMA Fired ==
  ASSUME BP!IInv, NEW k \in Keys, NEW who \in {"timer", "drain"}, BP!Fire(k, who)
  PROVE  /\ \/ calls' = calls
            \/ \E c : /\ calls' = calls \cup {c}
                     /\ c.ev \in Alerts
                     /\ \A d \in calls \cup returned : d.ev # c.ev
         /\ entries'[k] = BP!Absent
         /\ \A j \in Keys : j # k => entries'[j] = entries[j]
<1>0. BP!TypeOK
  BY DEF BP!IInv
<1>1. CASE entries[k] = BP!Absent /\ UNCHANGED <<entries, calls>>
  BY <1>1
<1>2. CASE /\ entries[k] # BP!Absent
           /\ entries' = [entries EXCEPT ![k] = BP!Absent]
           /\ calls' = calls \cup {[ev |-> entries[k].ev, types |-> entries[k].types,
                                    by |-> who]}
  <2>1. entries[k].ev \in Alerts
    BY <1>0, <1>2 DEF BP!TypeOK, BP!Entry
  <2>2. \A d \in calls \cup returned : d.ev # entries[k].ev
    BY <1>2 DEF BP!IInv, BP!EntryInv, BP!Handed
  <2>3. /\ entries'[k] = BP!Absent
        /\ \A j \in Keys : j # k => entries'[j] = entries[j]
    BY <1>0, <1>2 DEF BP!TypeOK
  <2> QED
    BY <1>2, <2>1, <2>2, <2>3
<1> QED
  BY <1>1, <1>2 DEF BP!Fire

\* A new batch has no analysis yet, so it takes no slot.
LEMMA FiredJobs ==
  ASSUME JobInv, SlotInv, UNCHANGED <<returned, job, slots>>,
         \/ calls' = calls
         \/ \E c : /\ calls' = calls \cup {c}
                  /\ c.ev \in Alerts
                  /\ \A d \in calls \cup returned : d.ev # c.ev
  PROVE  JobInv' /\ SlotInv'
<1>1. CASE calls' = calls
  BY <1>1 DEF JobInv, SlotInv, SlotsExact
<1>2. ASSUME NEW c, calls' = calls \cup {c}, c.ev \in Alerts,
             \A d \in calls \cup returned : d.ev # c.ev
      PROVE  JobInv' /\ SlotInv'
  <2>1. job[c.ev] = "none"
    BY <1>2 DEF JobInv
  <2>2. c \notin returned
    BY <1>2
  <2>3. JobInv'
    BY <1>2, <2>2 DEF JobInv
  <2>4. {d \in calls' : job[d.ev] # "none"} = {d \in calls : job[d.ev] # "none"}
    BY <1>2, <2>1
  <2>5. IsFiniteSet(calls')
    BY <1>2, FS_AddElement DEF SlotInv
  <2> QED
    BY <2>3, <2>4, <2>5 DEF SlotInv, SlotsExact
<1> QED
  BY <1>1, <1>2

\* A batch in analysis is known by the alert that opened it.
LEMMA BatchOf ==
  ASSUME BP!IInv, JobInv, NEW c \in calls
  PROVE  /\ c.ev \in Alerts /\ home[c.ev] = c.ev
         /\ \A d \in calls \cup returned : d.ev = c.ev => d = c
         /\ \A d \in returned : d.ev # c.ev
BY DEF BP!IInv, BP!BatchInv, BP!Handed, BP!TypeOK, BP!Batch, JobInv

-----------------------------------------------------------------------------
(* One step of each kind.                                                  *)

\* What LInv adds to the invariants of guard and buffer.
Ties == OwnTypeOK /\ HandlerInv /\ JobInv /\ SlotInv /\ StopInv

\* A request arrives.
LEMMA ArriveStep ==
  ASSUME LInv, NEW a \in Alerts, Arrive(a)
  PROVE  Ties'
<1>1. OwnTypeOK'
  BY DEF LInv, OwnTypeOK, Arrive, HttpStates
<1>2. HandlerInv'
  BY DEF LInv, OwnTypeOK, HandlerInv, Arrive, dedupVars, aggVars
<1>3. JobInv' /\ SlotInv'
  BY DEF LInv, JobInv, SlotInv, SlotsExact, Arrive, aggVars
<1>4. StopInv'
  BY DEF LInv, StopInv, Arrive, aggVars
<1> QED
  BY <1>1, <1>2, <1>3, <1>4 DEF Ties

\* A request is dismissed before the guard is asked.
LEMMA RejectStep ==
  ASSUME LInv, NEW a \in Alerts, Reject(a)
  PROVE  Ties'
<1>1. OwnTypeOK'
  BY DEF LInv, OwnTypeOK, Reject, HttpStates
<1>2. HandlerInv'
  <2>1. read[a] = NotRead /\ verdict[a] = "none" /\ home[a] = NoAlert
    BY DEF LInv, GP!DInv, GP!ClockInv, GP!DedupTypeOK, GP!Verdicts, HandlerInv, Reject
  <2> QED
    BY <2>1 DEF LInv, OwnTypeOK, HandlerInv, Reject, dedupVars, aggVars
<1>3. JobInv' /\ SlotInv'
  BY DEF LInv, JobInv, SlotInv, SlotsExact, Reject, aggVars
<1>4. StopInv'
  BY DEF LInv, OwnTypeOK, StopInv, OpenHandlers, Reject, aggVars
<1> QED
  BY <1>1, <1>2, <1>3, <1>4 DEF Ties

\* A handler reads the clock.
LEMMA ReadClockStep ==
  ASSUME LInv, NEW a \in Alerts, ReadClock(a)
  PROVE  Ties'
<1>0. GP!ReadClock(a) /\ UNCHANGED <<aggVars, ownVars>> /\ http[a] = "open" /\ a \notin Malformed
  BY SameGuard DEF ReadClock
<1>1. OwnTypeOK'
  BY <1>0 DEF LInv, OwnTypeOK, ownVars
<1>2. HandlerInv'
  BY <1>0 DEF LInv, GP!DInv, GP!DedupTypeOK, HandlerInv, GP!ReadClock, aggVars, ownVars
<1>3. JobInv' /\ SlotInv'
  BY <1>0 DEF LInv, JobInv, SlotInv, SlotsExact, aggVars, ownVars
<1>4. StopInv'
  BY <1>0 DEF LInv, StopInv, OpenHandlers, aggVars, ownVars
<1> QED
  BY <1>1, <1>2, <1>3, <1>4 DEF Ties

\* The guard decides.
LEMMA AcquireStep ==
  ASSUME LInv, NEW a \in Alerts, Acquire(a)
  PROVE  Ties'
<1>0. /\ GP!Lock(a) /\ http[a] = "open"
      /\ http' = [http EXCEPT ![a] = IF verdict'[a] = "refused" THEN "skipped" ELSE @]
      /\ UNCHANGED <<aggVars, server, timedOut, job, slots, read>>
  BY SameGuard DEF Acquire, GP!Lock
<1>1. OwnTypeOK'
  BY <1>0 DEF LInv, OwnTypeOK, HttpStates
<1>2. HandlerInv'
  <2>1. /\ verdict \in [Alerts -> GP!Verdicts]
        /\ \/ verdict' = [verdict EXCEPT ![a] = "refused"]
           \/ verdict' = [verdict EXCEPT ![a] = "granted"]
    BY <1>0 DEF LInv, GP!DInv, GP!DedupTypeOK, GP!Lock, GP!Grant
  <2> QED
    BY <1>0, <2>1 DEF LInv, OwnTypeOK, HandlerInv, aggVars
<1>3. JobInv' /\ SlotInv'
  BY <1>0 DEF LInv, JobInv, SlotInv, SlotsExact, aggVars
<1>4. StopInv'
  BY <1>0 DEF LInv, OwnTypeOK, StopInv, OpenHandlers, aggVars
<1> QED
  BY <1>1, <1>2, <1>3, <1>4 DEF Ties

\* A handler adds its alert to the buffer.
LEMMA EnqueueStep ==
  ASSUME LInv, NEW a \in Alerts, Enqueue(a)
  PROVE  Ties'
<1>0. /\ BP!Add(a) /\ http[a] = "open" /\ verdict[a] = "granted"
      /\ http' = [http EXCEPT ![a] = "enqueued"]
      /\ UNCHANGED <<dedupVars, server, timedOut, job, slots, calls, returned, drain>>
  BY SameBuffer DEF Enqueue, BP!Add
<1>1. OwnTypeOK'
  BY <1>0 DEF LInv, OwnTypeOK, HttpStates
<1>2. HandlerInv'
  <2>1. home'[a] # NoAlert /\ \A b \in Alerts : b # a => home'[b] = home[b]
    <3>1. BP!TypeOK
      BY DEF LInv, BP!IInv
    <3>2. entries[KeyOf[a]] # BP!Absent => entries[KeyOf[a]].ev \in Alerts
      BY <3>1, BP!OpenEntry, KeysAndTypes, LinkageAssumption
    <3> QED
      BY <1>0, <3>1, <3>2, LinkageAssumption
      DEF BP!Add, BP!Open, BP!MergeInto, BP!TypeOK
  <2> QED
    BY <1>0, <2>1 DEF LInv, OwnTypeOK, HandlerInv, dedupVars
<1>3. JobInv' /\ SlotInv'
  BY <1>0 DEF LInv, JobInv, SlotInv, SlotsExact
<1>4. StopInv'
  <2>1. OpenHandlers # {}
    BY <1>0 DEF OpenHandlers
  <2> QED
    BY <1>0, <2>1 DEF LInv, OwnTypeOK, StopInv, ServerStates
<1> QED
  BY <1>1, <1>2, <1>3, <1>4 DEF Ties

\* A timer fires.
LEMMA TimerStep ==
  ASSUME LInv, NEW t \in timers, TimerFires(t)
  PROVE  Ties'
<1>0. /\ BP!Fire(KeyOf[t.owner], "timer") /\ KeyOf[t.owner] \in Keys
      /\ UNCHANGED <<drain, home, returned, dedupVars, ownVars>>
  BY SameBuffer, KeysAndTypes
  DEF TimerFires, BP!TimerFires, LInv, BP!IInv, BP!TypeOK, BP!Timer
<1>1. OwnTypeOK' /\ HandlerInv'
  BY <1>0 DEF LInv, OwnTypeOK, HandlerInv, dedupVars, ownVars
<1>2. JobInv' /\ SlotInv'
  BY <1>0, Fired, FiredJobs DEF LInv, ownVars
<1>3. StopInv'
  <2>1. \A k \in Keys : entries'[k] # BP!Absent => entries[k] # BP!Absent
    BY <1>0, Fired DEF LInv
  <2> QED
    BY <1>0, <2>1 DEF LInv, StopInv, OpenHandlers, ownVars, BP!Absent
<1> QED
  BY <1>1, <1>2, <1>3 DEF Ties

\* An analysis takes a slot.
LEMMA TakeSlotStep ==
  ASSUME LInv, NEW c \in calls, TakeSlot(c)
  PROVE  Ties'
<1>0. /\ job[c.ev] = "none" /\ slots < MaxConcurrent /\ slots' = slots + 1
      /\ job' = [job EXCEPT ![c.ev] = "running"]
      /\ UNCHANGED <<dedupVars, aggVars, http, server, timedOut>>
      /\ c.ev \in Alerts
      /\ \A d \in calls \cup returned : d.ev = c.ev => d = c
      /\ \A d \in returned : d.ev # c.ev
  BY BatchOf DEF TakeSlot, LInv
<1>1. OwnTypeOK'
  BY <1>0 DEF LInv, OwnTypeOK, JobStates
<1>2. HandlerInv' /\ StopInv'
  BY <1>0 DEF LInv, HandlerInv, StopInv, OpenHandlers, dedupVars, aggVars
<1>3. JobInv'
  BY <1>0 DEF LInv, OwnTypeOK, JobInv, aggVars
<1>4. SlotInv'
  <2> DEFINE Busy == {d \in calls : job[d.ev] # "none"}
  <2>1. \A d \in calls : d.ev \in Alerts
    BY BatchOf DEF LInv
  <2>2. {d \in calls : job'[d.ev] # "none"} = Busy \cup {c}
    BY <1>0, <2>1 DEF LInv, OwnTypeOK
  <2>3. IsFiniteSet(Busy) /\ c \notin Busy
    BY <1>0, FS_Subset DEF LInv, SlotInv
  <2>4. Cardinality(Busy \cup {c}) = Cardinality(Busy) + 1
    BY <2>3, FS_AddElement
  <2>5. slots' <= MaxConcurrent
    BY <1>0, LinkageAssumption DEF LInv, OwnTypeOK
  <2> QED
    BY <1>0, <2>2, <2>4, <2>5 DEF LInv, SlotInv, SlotsExact, aggVars
<1> QED
  BY <1>1, <1>2, <1>3, <1>4 DEF Ties

\* An analysis ends, with a report or in a panic.
LEMMA EndStep ==
  ASSUME LInv, NEW c \in calls, Report(c) \/ Panic(c)
  PROVE  Ties'
<1>0. /\ job[c.ev] = "running"
      /\ \E s \in {"reported", "panicked"} : job' = [job EXCEPT ![c.ev] = s]
      /\ UNCHANGED <<dedupVars, aggVars, http, server, timedOut, slots>>
      /\ c.ev \in Alerts
  BY BatchOf DEF Report, Panic, LInv
<1>1. OwnTypeOK'
  BY <1>0 DEF LInv, OwnTypeOK, JobStates
<1>2. HandlerInv' /\ StopInv'
  BY <1>0 DEF LInv, HandlerInv, StopInv, OpenHandlers, dedupVars, aggVars
<1>3. JobInv'
  BY <1>0 DEF LInv, OwnTypeOK, JobInv, aggVars, BP!IInv, BP!TypeOK, BP!Batch
<1>4. SlotInv'
  <2>1. \A d \in calls : d.ev \in Alerts
    BY BatchOf DEF LInv
  <2>2. {d \in calls : job'[d.ev] # "none"} = {d \in calls : job[d.ev] # "none"}
    BY <1>0, <2>1 DEF LInv, OwnTypeOK
  <2> QED
    BY <1>0, <2>2 DEF LInv, SlotInv, SlotsExact, aggVars
<1> QED
  BY <1>1, <1>2, <1>3, <1>4 DEF Ties

\* A callback returns and gives its slot back.
LEMMA ReturnStep ==
  ASSUME LInv, NEW c \in calls, Return(c)
  PROVE  Ties'
<1>0. /\ job[c.ev] \in {"reported", "panicked"}
      /\ calls' = calls \ {c} /\ returned' = returned \cup {c}
      /\ slots' = slots - 1
      /\ UNCHANGED <<dedupVars, entries, drain, home, http, server, timedOut, job>>
  BY SameBuffer DEF Return, BP!CallReturns, Released
<1>1. SlotInv' /\ slots' \in Nat
  <2> DEFINE Busy == {d \in calls : job[d.ev] # "none"}
  <2>1. {d \in calls' : job[d.ev] # "none"} = Busy \ {c}
    BY <1>0
  <2>2. IsFiniteSet(Busy) /\ c \in Busy /\ IsFiniteSet(calls')
    BY <1>0, FS_Subset DEF LInv, SlotInv
  <2>3. /\ Cardinality(Busy \ {c}) = Cardinality(Busy) - 1
        /\ Cardinality(Busy \ {c}) \in Nat
    BY <2>2, FS_RemoveElement, FS_CardinalityType
  <2>4. slots = Cardinality(Busy) /\ slots <= MaxConcurrent /\ slots \in Nat
    BY DEF LInv, SlotInv, SlotsExact, OwnTypeOK
  <2>5. slots' = Cardinality(Busy \ {c}) /\ slots' \in Nat
    BY <1>0, <2>3, <2>4
  <2>6. slots' <= MaxConcurrent
    BY <1>0, <2>4, LinkageAssumption
  <2> QED
    BY <1>0, <2>1, <2>2, <2>5, <2>6 DEF SlotInv, SlotsExact
<1>2. OwnTypeOK'
  BY <1>0, <1>1 DEF LInv, OwnTypeOK
<1>3. HandlerInv' /\ StopInv'
  BY <1>0 DEF LInv, HandlerInv, StopInv, OpenHandlers, dedupVars, BP!Absent
<1>4. JobInv'
  BY <1>0 DEF LInv, JobInv
<1> QED
  BY <1>1, <1>2, <1>3, <1>4 DEF Ties

\* The signal, the end of Shutdown, with or without its timeout, and the exit.
LEMMA StopStep ==
  ASSUME LInv, Signal \/ ShutdownReturns \/ ShutdownTimesOut \/ Exit
  PROVE  Ties'
<1>0. UNCHANGED <<dedupVars, aggVars, http, job, slots>>
  BY DEF Signal, ShutdownReturns, ShutdownTimesOut, Exit
<1>1. OwnTypeOK'
  BY <1>0 DEF LInv, OwnTypeOK, ServerStates, Signal, ShutdownReturns, ShutdownTimesOut, Exit
<1>2. HandlerInv' /\ JobInv' /\ SlotInv'
  BY <1>0 DEF LInv, HandlerInv, JobInv, SlotInv, SlotsExact, dedupVars, aggVars
<1>3. StopInv'
  BY <1>0 DEF LInv, StopInv, OpenHandlers, HandlersDone, aggVars, BP!Absent,
              Signal, ShutdownReturns, ShutdownTimesOut, Exit
<1> QED
  BY <1>1, <1>2, <1>3 DEF Ties

\* Drain begins, fires a key or ends.
LEMMA DrainStepStep ==
  ASSUME LInv, DrainStep
  PROVE  Ties'
<1>0. /\ server = "draining"
      /\ UNCHANGED <<dedupVars, ownVars, home, returned>>
      /\ BP!DrainBegins \/ (\E k \in Keys : BP!DrainFires(k)) \/ BP!DrainEnds
  BY SameBuffer DEF DrainStep, Buffer!DrainStep, Buffer!DrainBegins, Buffer!DrainFires,
                    Buffer!DrainEnds
<1>1. OwnTypeOK' /\ HandlerInv'
  BY <1>0 DEF LInv, OwnTypeOK, HandlerInv, dedupVars, ownVars
<1>2. JobInv' /\ SlotInv'
  <2>1. CASE BP!DrainBegins \/ BP!DrainEnds
    BY <1>0, <2>1, FiredJobs DEF LInv, ownVars, BP!DrainBegins, BP!DrainEnds
  <2>2. ASSUME NEW k \in Keys, BP!DrainFires(k)
        PROVE  JobInv' /\ SlotInv'
    BY <1>0, <2>2, Fired, FiredJobs DEF LInv, ownVars, BP!DrainFires
  <2> QED
    BY <1>0, <2>1, <2>2
<1>3. StopInv'
  <2>1. CASE BP!DrainBegins
    BY <1>0, <2>1 DEF LInv, StopInv, OpenHandlers, ownVars, BP!DrainBegins, BP!Absent
  <2>2. ASSUME NEW k \in Keys, BP!DrainFires(k)
        PROVE  StopInv'
    <3>1. /\ drain.pc = "draining" /\ drain' = [drain EXCEPT !.keys = @ \ {k}]
          /\ BP!Fire(k, "drain") /\ drain \in BP!Drainer
      BY <2>2 DEF BP!DrainFires, LInv, BP!IInv, BP!TypeOK
    <3>2. drain'.pc = "draining" /\ drain'.keys = drain.keys \ {k}
      BY <3>1 DEF BP!Drainer
    <3>3. \A j \in Keys : entries'[j] # BP!Absent => j # k /\ entries[j] # BP!Absent
      BY <3>1, Fired DEF LInv
    <3> QED
      BY <1>0, <3>1, <3>2, <3>3 DEF LInv, StopInv, OpenHandlers, ownVars, BP!Absent
  <2>3. CASE BP!DrainEnds
    <3>1. drain.keys = {} /\ drain.pc = "draining" /\ drain'.pc = "done" /\ entries' = entries
      BY <2>3 DEF BP!DrainEnds, LInv, BP!IInv, BP!TypeOK, BP!Drainer
    <3> QED
      BY <1>0, <3>1 DEF LInv, StopInv, OpenHandlers, ownVars, BP!Absent
  <2> QED
    BY <1>0, <2>1, <2>2, <2>3
<1> QED
  BY <1>1, <1>2, <1>3 DEF Ties

\* The clock moves, or nothing does.
LEMMA TickStep ==
  ASSUME LInv, LinkTick \/ UNCHANGED vars
  PROVE  Ties'
<1>1. UNCHANGED <<read, verdict, entries, calls, drain, home, returned, ownVars>>
  BY DEF LinkTick, vars, dedupVars, aggVars
<1> QED
  BY <1>1 DEF LInv, Ties, OwnTypeOK, HandlerInv, JobInv, SlotInv, SlotsExact, StopInv,
              OpenHandlers, ownVars, BP!Absent

-----------------------------------------------------------------------------
(* The inductive invariant.                                                *)

\* Nothing has arrived yet.
LEMMA InitLInv ==
  Init => LInv
<1> SUFFICES ASSUME Init PROVE LInv
  OBVIOUS
<1>1. GP!DInv
  BY GP!DedupInitInv, SameGuard, KeysAndTypes, LinkageAssumption DEF Init
<1>2. BP!IInv
  BY BP!InitIInv, SameBuffer, KeysAndTypes, LinkageAssumption DEF Init
<1>3. OwnTypeOK
  BY DEF Init, OwnTypeOK, HttpStates, ServerStates, JobStates
<1>4. /\ \A a \in Alerts : home[a] = NoAlert /\ read[a] = NotRead /\ verdict[a] = "none"
      /\ calls = {} /\ returned = {} /\ drain.pc = "idle"
  BY SameGuard, SameBuffer DEF Init, GP!DedupInit, BP!AggInit
<1>5. HandlerInv
  BY <1>4 DEF Init, HandlerInv
<1>6. JobInv
  BY <1>4 DEF Init, JobInv
<1>7. SlotInv
  <2>1. {c \in calls : job[c.ev] # "none"} = {}
    BY <1>4
  <2> QED
    BY <1>4, <2>1, FS_EmptySet, LinkageAssumption DEF Init, SlotInv, SlotsExact
<1>8. StopInv
  BY <1>4 DEF Init, StopInv
<1> QED
  BY <1>1, <1>2, <1>3, <1>5, <1>6, <1>7, <1>8 DEF LInv

\* Every step of the service preserves LInv.
LEMMA StepLInv ==
  LInv /\ [Next]_vars => LInv'
<1> SUFFICES ASSUME LInv, [Next]_vars
             PROVE  LInv'
  OBVIOUS
<1>1. Ties'
  <2>1. ASSUME NEW a \in Alerts, Arrive(a) \/ Handler(a)
        PROVE  Ties'
    BY <2>1, ArriveStep, RejectStep, ReadClockStep, AcquireStep, EnqueueStep DEF Handler
  <2>2. ASSUME NEW t \in timers, TimerFires(t)
        PROVE  Ties'
    BY <2>2, TimerStep
  <2>3. ASSUME NEW c \in calls, TakeSlot(c) \/ Analysis(c)
        PROVE  Ties'
    BY <2>3, TakeSlotStep, EndStep, ReturnStep DEF Analysis
  <2>4. CASE Signal \/ Shutdown
    BY <2>4, StopStep, DrainStepStep DEF Shutdown
  <2>5. CASE LinkTick \/ UNCHANGED vars
    BY <2>5, TickStep
  <2> QED
    BY <2>1, <2>2, <2>3, <2>4, <2>5 DEF Next
<1>2. GP!DInv' /\ BP!IInv'
  BY PartsStep DEF LInv
<1> QED
  BY <1>1, <1>2 DEF LInv, Ties

(* The guard, the buffer, the handlers, the analyses and the stop agree on *)
(* where each alert is (server.go:48-105, buffer.go:49-100,                *)
(* pipeline.go:43-71, app.go:103-106).                                     *)
THEOREM LinkageInvariance == Spec => []LInv
<1>1. Init => LInv
  BY InitLInv
<1>2. LInv /\ [Next]_vars => LInv'
  BY StepLInv
<1> QED
  BY <1>1, <1>2, PTL DEF Spec

(* Every variable of the service keeps its type.                           *)
THEOREM LinkageTypeCorrect == Spec => []LinkageTypeOK
<1>1. LInv => LinkageTypeOK
  <2>1. GP!DedupTypeOK => Guard!DedupTypeOK
    BY DEF GP!DedupTypeOK, Guard!DedupTypeOK, GP!Verdicts, Guard!Verdicts
  <2>2. BP!TypeOK => Buffer!TypeOK
    BY DEF BP!TypeOK, Buffer!TypeOK, BP!Entry, Buffer!Entry, BP!Absent, Buffer!Absent,
           BP!Timer, Buffer!Timer, BP!Batch, Buffer!Batch, BP!Drainer, Buffer!Drainer
  <2> QED
    BY <2>1, <2>2 DEF LInv, GP!DInv, BP!IInv, OwnTypeOK, LinkageTypeOK
<1> QED
  BY <1>1, LinkageInvariance, PTL

-----------------------------------------------------------------------------
(* The service uses guard and buffer as their modules specify.             *)

(* Every step of the service is a step of the guard or leaves it alone     *)
(* (server.go:89).                                                         *)
THEOREM GuardUsed == Spec => UsesGuard
<1>1. Init => Guard!DedupInit
  BY DEF Init
<1>2. [GP!DedupNext]_(GP!dedupVars) => [Guard!DedupNext]_(Guard!dedupVars)
  <2>1. GP!Tick => Guard!Tick
    BY DEF GP!Tick, Guard!Tick
  <2>2. GP!DedupNext => Guard!DedupNext
    BY <2>1, SameGuard DEF GP!DedupNext, Guard!DedupNext
  <2> QED
    BY <2>2 DEF GP!dedupVars, Guard!dedupVars
<1>3. [Next]_vars => [Guard!DedupNext]_(Guard!dedupVars)
  BY <1>2, GuardStep
<1> QED
  BY <1>1, <1>3, PTL DEF Spec, UsesGuard, Guard!DedupSpec

(* Every step of the service is a step of the buffer or leaves it alone    *)
(* (server.go:96, app.go:60, 103-106).                                     *)
THEOREM BufferUsed == Spec => UsesBuffer
<1>1. Init => Buffer!AggInit
  BY DEF Init
<1>2. [BP!AggNext]_(BP!aggVars) => [Buffer!AggNext]_(Buffer!aggVars)
  <2>1. BP!Tick => Buffer!Tick
    BY SameBuffer DEF BP!Tick, Buffer!Tick
  <2>2. BP!DrainStep => Buffer!DrainStep
    BY SameBuffer DEF BP!DrainStep, Buffer!DrainStep
  <2>3. BP!AggNext => Buffer!AggNext
    BY <2>1, <2>2, SameBuffer DEF BP!AggNext, Buffer!AggNext
  <2> QED
    BY <2>3 DEF BP!aggVars, Buffer!aggVars
<1>3. LInv /\ [Next]_vars => [Buffer!AggNext]_(Buffer!aggVars)
  BY <1>2, BufferStep DEF LInv, BP!IInv
<1> QED
  BY <1>1, <1>3, LinkageInvariance, PTL DEF Spec, UsesBuffer, Buffer!AggSpec

-----------------------------------------------------------------------------
(* The safety properties.                                                  *)

\* What the buffer knows of an alert, in the service's words.
LEMMA Places ==
  ASSUME LInv, NEW a \in Alerts
  PROVE  /\ a \in Buffered => home[a] # NoAlert
         /\ home[a] # NoAlert => \/ a \in Buffered
                                 \/ \E c \in calls \cup returned : c.ev = home[a]
         /\ a \in Buffered => \A c \in calls \cup returned : c.ev # home[a]
         /\ (\E c \in calls \cup returned : c.ev = home[a]) => home[a] # NoAlert
<1>0. BP!TypeOK /\ KeyOf[a] \in Keys
  BY KeysAndTypes DEF LInv, BP!IInv
<1>1. a \in Buffered <=> BP!InBuffer(a)
  BY DEF Buffered, Buffer!InBuffer, BP!InBuffer
<1>2. ASSUME NEW c \in calls \cup returned PROVE c.ev \in Alerts
  BY <1>0, <1>2 DEF BP!TypeOK, BP!Batch
<1>3. BP!InBuffer(a) => \A c \in calls \cup returned : c.ev # home[a]
  BY <1>0 DEF LInv, BP!IInv, BP!EntryInv, BP!InBuffer, BP!Handed, BP!Absent
<1> QED
  BY <1>0, <1>1, <1>2, <1>3, LinkageAssumption
  DEF LInv, BP!IInv, BP!PlaceInv, BP!InBuffer, BP!Handed

\* A finished analysis has reported or panicked.
LEMMA AnalysedIsReturned ==
  ASSUME LInv
  PROVE  Analysed = {a \in Alerts : \E c \in returned : c.ev = home[a]}
BY DEF LInv, JobInv, Analysed

\* No place can hold an alert twice, and none loses one.
LEMMA LInvNoAlertLost ==
  LInv => NoAlertLost
<1> SUFFICES ASSUME LInv PROVE NoAlertLost
  OBVIOUS
<1> DEFINE Finished == {a \in Alerts : \E c \in returned : c.ev = home[a]}
<1>1. Analysed = Finished
  BY AnalysedIsReturned
<1>2. ASSUME NEW a \in Alerts, verdict[a] = "granted"
      PROVE  a \in InHandler \cup Buffered \cup InAnalysis \cup Finished
  <2>1. http[a] = "open" => a \in InHandler
    BY <1>2 DEF InHandler, GrantedAlerts
  <2>2. http[a] = "enqueued" => home[a] # NoAlert
    BY DEF LInv, HandlerInv
  <2>3. http[a] \in {"open", "enqueued"}
    BY <1>2 DEF LInv, HandlerInv
  <2> QED
    BY <2>1, <2>2, <2>3, Places DEF InAnalysis
<1>3. ASSUME NEW a \in Alerts, a \in Buffered \cup InAnalysis \cup Finished
      PROVE  verdict[a] = "granted" /\ http[a] # "open"
  <2>1. home[a] # NoAlert
    BY <1>3, Places DEF InAnalysis
  <2> QED
    BY <2>1 DEF LInv, HandlerInv
<1>4. Buffered \subseteq Alerts /\ InAnalysis \subseteq Alerts /\ Finished \subseteq Alerts
  BY DEF Buffered, InAnalysis
<1>5. GrantedAlerts = InHandler \cup Buffered \cup InAnalysis \cup Finished
  BY <1>2, <1>3, <1>4 DEF GrantedAlerts, InHandler
<1>6. InHandler \cap (Buffered \cup InAnalysis \cup Finished) = {}
  BY <1>3, <1>4 DEF InHandler
<1>7. Buffered \cap (InAnalysis \cup Finished) = {}
  BY <1>4, Places DEF InAnalysis
<1>8. InAnalysis \cap Finished = {}
  BY BatchOf DEF LInv, InAnalysis
<1> QED
  BY <1>1, <1>5, <1>6, <1>7, <1>8 DEF NoAlertLost

(* A granted alert is in one place, its handler, the buffer, a running     *)
(* analysis or a finished one, and only granted alerts are analysed        *)
(* (server.go:89-104, buffer.go:49-100, pipeline.go:43-71).                *)
THEOREM AlertsKept == Spec => []NoAlertLost
BY LinkageInvariance, LInvNoAlertLost, PTL

(* The semaphore counts the analyses that run, panics included, and they   *)
(* never exceed the limit (pipeline.go:44-52).                             *)
THEOREM SlotsCounted == Spec => []SlotsExact
<1>1. LInv => SlotsExact
  BY DEF LInv, SlotInv
<1> QED
  BY <1>1, LinkageInvariance, PTL

(* A stop whose Shutdown did not time out exits with no granted alert in a *)
(* handler or in the buffer, and cuts short only what timers started       *)
(* (app.go:103-106, buffer.go:70-82).                                      *)
THEOREM StopIsGraceful == Spec => []GracefulStop
<1>1. LInv => GracefulStop
  <2> SUFFICES ASSUME LInv, server = "exited", ~timedOut
               PROVE  InHandler = {} /\ Buffered = {} /\ \A c \in calls : c.by = "timer"
    BY DEF GracefulStop
  <2>1. /\ OpenHandlers = {} /\ drain.pc = "done"
        /\ \A k \in Keys : entries[k] = BP!Absent
    BY DEF LInv, StopInv
  <2>2. InHandler = {}
    BY <2>1 DEF InHandler, GrantedAlerts, OpenHandlers
  <2>3. Buffered = {}
    BY <2>1, KeysAndTypes DEF Buffered, Buffer!InBuffer, BP!Absent
  <2>4. \A c \in calls : c.by = "timer"
    BY <2>1 DEF LInv, BP!IInv, BP!DrainInv, BP!DrainCalls, BP!TypeOK, BP!Batch
  <2> QED
    BY <2>2, <2>3, <2>4
<1> QED
  BY <1>1, LinkageInvariance, PTL

-----------------------------------------------------------------------------
(* The service implements AlertService.                                    *)

Pending   == GrantedAlerts \ Analysed
Skipped   == {a \in Alerts : http[a] = "skipped"}
Rejected  == {a \in Alerts : http[a] = "rejected"}
InReturned(a) == \E c \in returned : c.ev = home[a]

\* Where alerts are, in those words.
AlertsPlaced ==
  /\ InHandler \cup Buffered \cup InAnalysis = Pending
  /\ Analysed = {a \in Alerts : InReturned(a)}
  /\ Analysed \subseteq GrantedAlerts

\* So it is before and after every step.
LEMMA PlacedNow ==
  LInv => AlertsPlaced
BY LInvNoAlertLost, AnalysedIsReturned DEF NoAlertLost, AlertsPlaced, Pending, InReturned

LEMMA PlacedNext ==
  LInv' => AlertsPlaced'
BY PlacedNow, PTL

\* A step that neither grants nor ends an analysis nor answers with a refusal
\* is invisible.
LEMMA Unmoved ==
  ASSUME LInv, LInv', UNCHANGED <<verdict, Skipped, Rejected>>,
         \A a \in Alerts : InReturned(a)' <=> InReturned(a)
  PROVE  UNCHANGED <<Pending, Analysed, Skipped, Rejected>>
<1>1. Analysed' = Analysed
  BY PlacedNow, PlacedNext DEF AlertsPlaced
<1>2. Pending' = Pending
  BY <1>1 DEF Pending, GrantedAlerts
<1> QED
  BY <1>1, <1>2

\* A handler that has no verdict has not been counted anywhere.
LEMMA OpenUnseen ==
  ASSUME LInv, NEW a \in Alerts, http[a] = "open", verdict[a] = "none"
  PROVE  a \notin Pending /\ a \notin Analysed /\ a \notin Skipped /\ a \notin Rejected
BY PlacedNow DEF AlertsPlaced, Pending, GrantedAlerts, Skipped, Rejected

\* A malformed delivery is dismissed.
LEMMA RejectRefines ==
  ASSUME DeliveriesRead, LInv, LInv', NEW a \in Alerts, Reject(a)
  PROVE  /\ a \notin Pending \cup Analysed \cup Skipped \cup Rejected
         /\ About[a] = Nothing
         /\ Rejected' = Rejected \cup {a}
         /\ UNCHANGED <<Pending, Analysed, Skipped>>
<1>1. verdict[a] = "none"
  BY DEF LInv, GP!DInv, GP!ClockInv, GP!DedupTypeOK, GP!Verdicts, HandlerInv, Reject
<1>2. a \notin Pending \cup Analysed \cup Skipped \cup Rejected
  BY <1>1, OpenUnseen DEF Reject
<1>3. Rejected' = Rejected \cup {a} /\ Skipped' = Skipped
  BY DEF LInv, OwnTypeOK, Reject, Rejected, Skipped
<1>4. Analysed' = Analysed
  BY PlacedNow, PlacedNext DEF AlertsPlaced, Reject, aggVars, InReturned
<1>5. Pending' = Pending
  BY <1>4 DEF Pending, GrantedAlerts, Reject, dedupVars
<1> QED
  BY <1>2, <1>3, <1>4, <1>5 DEF DeliveriesRead, Reject

\* What the guard grants is accepted, what it refuses is a copy of an alert
\* that was.
LEMMA AcquireRefines ==
  ASSUME DeliveriesRead, LInv, LInv', NEW a \in Alerts, Acquire(a)
  PROVE  /\ a \notin Pending \cup Analysed \cup Skipped \cup Rejected
         /\ \/ /\ About[a] # Nothing
               /\ Pending' = Pending \cup {a}
               /\ UNCHANGED <<Analysed, Skipped, Rejected>>
            \/ /\ \E b \in Pending \cup Analysed : About[b] = About[a]
               /\ Skipped' = Skipped \cup {a}
               /\ UNCHANGED <<Pending, Analysed, Rejected>>
<1> DEFINE key(b) == <<KeyOf[b], TypeOf[b]>>
<1>0. /\ http[a] = "open" /\ verdict[a] = "none" /\ read[a] # NotRead
      /\ http' = [http EXCEPT ![a] = IF verdict'[a] = "refused" THEN "skipped" ELSE @]
      /\ UNCHANGED aggVars
      /\ \/ seen[key(a)] > read[a] /\ verdict' = [verdict EXCEPT ![a] = "refused"]
         \/ verdict' = [verdict EXCEPT ![a] = "granted"]
  BY SameGuard DEF Acquire, GP!Lock, GP!Grant
<1>1. a \notin Pending \cup Analysed \cup Skipped \cup Rejected
  BY <1>0, OpenUnseen
<1>2. Analysed' = Analysed
  BY <1>0, PlacedNow, PlacedNext DEF AlertsPlaced, aggVars, InReturned
<1>3. a \notin Malformed
  BY <1>0 DEF LInv, HandlerInv
<1>4. verdict \in [Alerts -> GP!Verdicts] /\ http \in [Alerts -> HttpStates]
  BY DEF LInv, GP!DInv, GP!DedupTypeOK, OwnTypeOK
<1>5. CASE verdict' = [verdict EXCEPT ![a] = "granted"]
  <2>1. GrantedAlerts' = GrantedAlerts \cup {a}
    BY <1>4, <1>5 DEF GrantedAlerts
  <2>2. Pending' = Pending \cup {a}
    BY <1>1, <1>2, <2>1 DEF Pending
  <2>3. Skipped' = Skipped /\ Rejected' = Rejected
    BY <1>0, <1>4, <1>5 DEF Skipped, Rejected
  <2> QED
    BY <1>1, <1>2, <1>3, <2>2, <2>3 DEF DeliveriesRead
<1>6. CASE seen[key(a)] > read[a] /\ verdict' = [verdict EXCEPT ![a] = "refused"]
  <2>1. PICK b \in Alerts : verdict[b] = "granted" /\ key(b) = key(a)
    <3>1. key(a) \in Keys \X Types /\ seen[key(a)] > 0
      BY <1>0, <1>6, KeysAndTypes DEF LInv, GP!DInv, GP!DedupTypeOK
    <3> QED
      BY <3>1 DEF LInv, GP!DInv, GP!SourceInv, GP!Granted
  <2>2. b \notin Malformed
    BY <2>1 DEF LInv, GP!DInv, GP!ClockInv, HandlerInv
  <2>3. About[b] = About[a] /\ b \in Pending \cup Analysed
    BY <1>3, <2>1, <2>2 DEF DeliveriesRead, Pending, GrantedAlerts
  <2>4. GrantedAlerts' = GrantedAlerts
    BY <1>0, <1>4, <1>6 DEF GrantedAlerts
  <2>5. Skipped' = Skipped \cup {a} /\ Rejected' = Rejected
    BY <1>0, <1>4, <1>6 DEF Skipped, Rejected
  <2> QED
    BY <1>1, <1>2, <2>3, <2>4, <2>5 DEF Pending
<1> QED
  BY <1>0, <1>5, <1>6

\* What enters the buffer is not in a batch that has returned.
LEMMA AddedIsFresh ==
  ASSUME LInv, NEW a \in Alerts, BP!Add(a)
  PROVE  ~InReturned(a) /\ ~InReturned(a)'
<1>0. BP!TypeOK /\ KeyOf[a] \in Keys /\ home[a] = NoAlert /\ returned' = returned
  BY KeysAndTypes DEF LInv, BP!IInv, BP!Add
<1>1. \A c \in returned : c.ev \in Alerts /\ home[c.ev] = c.ev
  BY <1>0 DEF LInv, BP!IInv, BP!BatchInv, BP!Handed, BP!TypeOK, BP!Batch
<1>2. CASE entries[KeyOf[a]] = BP!Absent /\ BP!Open(a)
  <2>1. home'[a] = a
    BY <1>0, <1>2 DEF BP!Open, BP!TypeOK
  <2> QED
    BY <1>0, <1>1, <2>1, LinkageAssumption DEF InReturned
<1>3. CASE entries[KeyOf[a]] # BP!Absent /\ BP!MergeInto(a)
  <2>1. home'[a] = entries[KeyOf[a]].ev
    BY <1>0, <1>3 DEF BP!MergeInto, BP!TypeOK
  <2>2. \A c \in returned : c.ev # entries[KeyOf[a]].ev
    BY <1>0, <1>3 DEF LInv, BP!IInv, BP!EntryInv, BP!Handed
  <2> QED
    BY <1>0, <1>1, <2>1, <2>2, LinkageAssumption DEF InReturned
<1> QED
  BY <1>2, <1>3 DEF BP!Add

\* Buffering an alert is invisible.
LEMMA EnqueueRefines ==
  ASSUME LInv, LInv', NEW a \in Alerts, Enqueue(a)
  PROVE  UNCHANGED <<Pending, Analysed, Skipped, Rejected>>
<1>0. /\ BP!Add(a) /\ http[a] = "open" /\ http' = [http EXCEPT ![a] = "enqueued"]
      /\ UNCHANGED dedupVars
  BY SameBuffer DEF Enqueue
<1>1. Skipped' = Skipped /\ Rejected' = Rejected
  BY <1>0 DEF LInv, OwnTypeOK, Skipped, Rejected
<1>2. ASSUME NEW b \in Alerts
      PROVE  InReturned(b)' <=> InReturned(b)
  <2>1. CASE b = a
    BY <1>0, <2>1, AddedIsFresh
  <2>2. CASE b # a
    <3>1. home'[b] = home[b] /\ returned' = returned
      BY <1>0, <2>2 DEF BP!Add, BP!Open, BP!MergeInto, LInv, BP!IInv, BP!TypeOK
    <3> QED
      BY <3>1 DEF InReturned
  <2> QED
    BY <2>1, <2>2
<1> QED
  BY <1>0, <1>1, <1>2, Unmoved DEF dedupVars

\* A callback that returns analyses its batch: accepted alerts of one host and
\* window.
LEMMA ReturnRefines ==
  ASSUME DeliveriesRead, LInv, LInv', NEW c \in calls, Return(c)
  PROVE  \E B \in SUBSET Pending :
           /\ B # {}
           /\ \A a, b \in B : About[a].host = About[b].host /\ About[a].window = About[b].window
           /\ Pending' = Pending \ B
           /\ Analysed' = Analysed \cup B
           /\ UNCHANGED <<Skipped, Rejected>>
<1> DEFINE B == {a \in Alerts : home[a] = c.ev}
<1>0. /\ returned' = returned \cup {c}
      /\ UNCHANGED <<dedupVars, home, http>>
      /\ c.ev \in Alerts /\ home[c.ev] = c.ev
      /\ \A d \in returned : d.ev # c.ev
  BY SameBuffer, BatchOf DEF Return, BP!CallReturns, LInv
<1>1. Skipped' = Skipped /\ Rejected' = Rejected
  BY <1>0 DEF Skipped, Rejected
<1>2. \A a \in Alerts : InReturned(a)' <=> InReturned(a) \/ a \in B
  BY <1>0 DEF InReturned
<1>3. Analysed' = Analysed \cup B
  BY <1>2, PlacedNow, PlacedNext DEF AlertsPlaced
<1>4. B \subseteq Pending
  <2> SUFFICES ASSUME NEW a \in B PROVE a \in Pending
    OBVIOUS
  <2>1. home[a] # NoAlert
    BY <1>0, LinkageAssumption
  <2>2. a \in GrantedAlerts
    BY <2>1 DEF LInv, HandlerInv, GrantedAlerts
  <2>3. ~InReturned(a)
    BY <1>0 DEF InReturned
  <2> QED
    BY <2>2, <2>3, PlacedNow DEF AlertsPlaced, Pending
<1>5. Pending' = Pending \ B
  BY <1>0, <1>3 DEF Pending, GrantedAlerts, dedupVars
<1>6. ASSUME NEW a \in B, NEW b \in B
      PROVE  About[a].host = About[b].host /\ About[a].window = About[b].window
  <2>1. KeyOf[a] = KeyOf[c.ev] /\ KeyOf[b] = KeyOf[c.ev]
    BY <1>0, LinkageAssumption DEF LInv, BP!IInv, BP!HomeInv
  <2>2. a \notin Malformed /\ b \notin Malformed
    BY <1>4 DEF Pending, GrantedAlerts, LInv, GP!DInv, GP!ClockInv, HandlerInv
  <2> QED
    BY <2>1, <2>2 DEF DeliveriesRead
<1>7. B # {}
  BY <1>0
<1> HIDE DEF B
<1> QED
  BY <1>1, <1>3, <1>4, <1>5, <1>6, <1>7

\* Every other step moves no alert in or out.
LEMMA OtherRefines ==
  ASSUME LInv, LInv', UNCHANGED <<verdict, http, home, returned>>
  PROVE  UNCHANGED <<Pending, Analysed, Skipped, Rejected>>
<1>1. Skipped' = Skipped /\ Rejected' = Rejected
  BY DEF Skipped, Rejected
<1> QED
  BY <1>1, Unmoved DEF InReturned

\* One step of the service is one of AlertService, or invisible to it.
LEMMA ServiceStep ==
  ASSUME DeliveriesRead, LInv, LInv', [Next]_vars
  PROVE  Service!ServiceNext \/ UNCHANGED <<Pending, Analysed, Skipped, Rejected>>
<1>0. /\ InHandler \cup Buffered \cup InAnalysis = Pending
      /\ (InHandler \cup Buffered \cup InAnalysis)' = Pending'
  BY PlacedNow, PlacedNext DEF AlertsPlaced
<1>1. ASSUME NEW a \in Alerts, Reject(a)
      PROVE  Service!ServiceNext
  <2>1. Service!Dismisses(a)
    BY <1>0, <1>1, RejectRefines DEF Service!Dismisses, Service!Unseen, Skipped, Rejected
  <2> QED
    BY <2>1 DEF Service!ServiceNext
<1>2. ASSUME NEW a \in Alerts, Acquire(a)
      PROVE  Service!ServiceNext
  <2>1. Service!Accepts(a) \/ Service!Skips(a)
    BY <1>0, <1>2, AcquireRefines
    DEF Service!Accepts, Service!Skips, Service!Unseen, Skipped, Rejected
  <2> QED
    BY <2>1 DEF Service!ServiceNext
<1>3. ASSUME NEW c \in calls, Return(c)
      PROVE  Service!ServiceNext
  <2>1. \E B \in SUBSET Pending : Service!Analyses(B)
    BY <1>0, <1>3, ReturnRefines
    DEF Service!Analyses, Service!SameHost, Skipped, Rejected
  <2> QED
    BY <1>0, <2>1 DEF Service!ServiceNext
<1>4. ASSUME NEW a \in Alerts, Enqueue(a)
      PROVE  UNCHANGED <<Pending, Analysed, Skipped, Rejected>>
  BY <1>4, EnqueueRefines
<1>5. ASSUME NEW a \in Alerts, Arrive(a)
      PROVE  UNCHANGED <<Pending, Analysed, Skipped, Rejected>>
  <2>1. Skipped' = Skipped /\ Rejected' = Rejected
    BY <1>5 DEF LInv, OwnTypeOK, Arrive, Skipped, Rejected
  <2> QED
    BY <1>5, <2>1, Unmoved DEF Arrive, dedupVars, aggVars, InReturned
<1>6. ASSUME NEW a \in Alerts, ReadClock(a)
      PROVE  UNCHANGED <<Pending, Analysed, Skipped, Rejected>>
  BY <1>6, SameGuard, OtherRefines DEF ReadClock, GP!ReadClock, aggVars, ownVars
<1>7. ASSUME NEW t \in timers, TimerFires(t)
      PROVE  UNCHANGED <<Pending, Analysed, Skipped, Rejected>>
  BY <1>7, SameBuffer, OtherRefines DEF TimerFires, BP!TimerFires, dedupVars, ownVars
<1>8. ASSUME NEW c \in calls, TakeSlot(c) \/ Report(c) \/ Panic(c)
      PROVE  UNCHANGED <<Pending, Analysed, Skipped, Rejected>>
  BY <1>8, OtherRefines DEF TakeSlot, Report, Panic, dedupVars, aggVars
<1>9. CASE Signal \/ ShutdownReturns \/ ShutdownTimesOut \/ Exit
  BY <1>9, OtherRefines
  DEF Signal, ShutdownReturns, ShutdownTimesOut, Exit, dedupVars, aggVars
<1>10. CASE DrainStep
  <2>1. UNCHANGED <<home, returned>>
    BY <1>10 DEF DrainStep, Buffer!DrainStep, Buffer!DrainBegins, Buffer!DrainFires,
                 Buffer!DrainEnds
  <2> QED
    BY <1>10, <2>1, OtherRefines DEF DrainStep, dedupVars, ownVars
<1>11. CASE LinkTick \/ UNCHANGED vars
  BY <1>11, OtherRefines DEF LinkTick, vars, dedupVars, aggVars, ownVars
<1> QED
  BY <1>1, <1>2, <1>3, <1>4, <1>5, <1>6, <1>7, <1>8, <1>9, <1>10, <1>11
  DEF Next, Handler, Analysis, Shutdown

\* Whatever the deliveries hold, there is something they can be said to report:
\* the hypothesis of the next theorem speaks of About and refuses no PayloadOf.
LEMMA ReadAsReported ==
  ASSUME About = [a \in Alerts |->
                    IF a \in Malformed THEN Nothing
                    ELSE [host |-> KeyOf[a].host, window |-> KeyOf[a].window,
                          type |-> TypeOf[a]]],
         \A a \in Alerts : Nothing # [host |-> KeyOf[a].host, window |-> KeyOf[a].window,
                                     type |-> TypeOf[a]]
  PROVE  DeliveriesRead
BY DEF DeliveriesRead

(* If deliveries are read as what they report, the service, with its       *)
(* guard, timers, slots and shutdown, accepts, skips, dismisses and        *)
(* analyses them as AlertService says (server.go:48-105,                   *)
(* buffer.go:49-100, pipeline.go:43-71).                                   *)
THEOREM ServiceImplemented ==
  ASSUME DeliveriesRead
  PROVE  Spec => ImplementsService
<1>1. Init => Service!ServiceInit
  <2> SUFFICES ASSUME Init PROVE Service!ServiceInit
    OBVIOUS
  <2>1. /\ GrantedAlerts = {} /\ Skipped = {} /\ Rejected = {}
    BY SameGuard DEF Init, GP!DedupInit, GrantedAlerts, Skipped, Rejected
  <2>2. AlertsPlaced
    BY InitLInv, PlacedNow
  <2> QED
    BY <2>1, <2>2 DEF AlertsPlaced, Pending, Service!ServiceInit, Skipped, Rejected
<1>2. LInv /\ LInv' /\ [Next]_vars => [Service!ServiceNext]_(Service!serviceVars)
  <2> SUFFICES ASSUME LInv, LInv', [Next]_vars
               PROVE  [Service!ServiceNext]_(Service!serviceVars)
    OBVIOUS
  <2>1. /\ InHandler \cup Buffered \cup InAnalysis = Pending
        /\ (InHandler \cup Buffered \cup InAnalysis)' = Pending'
    BY PlacedNow, PlacedNext DEF AlertsPlaced
  <2> QED
    BY <2>1, ServiceStep DEF Service!serviceVars, Skipped, Rejected
<1> QED
  BY <1>1, <1>2, LinkageInvariance, PTL
  DEF Spec, ImplementsService, Service!ServiceSpec
=============================================================================
