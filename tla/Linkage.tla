------------------------------- MODULE Linkage -------------------------------
(***************************************************************************)
(* The linkage service as one process: concurrent webhook handlers         *)
(* (server.go), the dedup guard (Dedup), the merge buffer (Aggregator),    *)
(* the analyses its callbacks run under a limit (pipeline.Processor.Handle)*)
(* and the shutdown sequence of app.Stop and main.                         *)
(*                                                                         *)
(* A handler asks the guard and then, in a separate critical section, adds *)
(* to the buffer.  From the moment the guard has granted an alert, the     *)
(* copies n9e sends again are skipped: whatever happens to it now must not *)
(* make it disappear.                                                      *)
(***************************************************************************)
EXTENDS Payload, FiniteSets

CONSTANTS
  Alerts,        \* webhook deliveries; each is one request
  PayloadOf,     \* what each carries
  About,         \* the host, type and window of the alert it reports, or Nothing
  Slow,          \* those whose body may never arrive (fairness only)
  TTL, CleanupAt, Wait,
  MaxConcurrent, \* window.max_concurrent
  MaxNow,        \* bound of the clock
  NoAlert, NotRead, Nothing

ASSUME LinkageAssumption ==
  /\ MaxConcurrent \in Nat \ {0}
  /\ Slow \subseteq Alerts
  /\ DOMAIN PayloadOf = Alerts
  /\ TTL \in Nat \ {0} /\ CleanupAt \in Nat /\ Wait \in Nat /\ MaxNow \in Nat
  /\ NoAlert \notin Alerts /\ NotRead \notin Nat

\* What the handler makes of a delivery.
Malformed == {a \in Alerts : Dismissed(PayloadOf[a])}
KeyOf  == [a \in Alerts |-> [host |-> Ident(PayloadOf[a]), window |-> Window(PayloadOf[a])]]
TypeOf == [a \in Alerts |-> Type(PayloadOf[a])]
Keys   == {KeyOf[a] : a \in Alerts}
Types  == {TypeOf[a] : a \in Alerts}

VARIABLES
  now, seen, read, verdict, lockedAt,                      \* Dedup
  entries, timers, calls, drain, home, returned, atDrain,  \* Aggregator
  http,     \* each request: not arrived, in its handler, answered
  server,   \* the process: serving, shutting down, draining, exited
  timedOut, \* Shutdown gave up on open handlers
  job,      \* the analysis of the batch an alert opened
  slots     \* len(sem): occupied analysis slots

dedupVars == <<now, seen, read, verdict, lockedAt>>
aggVars   == <<entries, timers, calls, drain, home, returned, atDrain>>
ownVars   == <<http, server, timedOut, job, slots>>
vars      == <<dedupVars, aggVars, ownVars>>

Guard == INSTANCE Dedup WITH
  Callers <- Alerts,
  DKeys   <- Keys \X Types,
  DKeyOf  <- [a \in Alerts |-> <<KeyOf[a], TypeOf[a]>>]

Buffer == INSTANCE Aggregator WITH Events <- Alerts, NoEvent <- NoAlert

HttpStates   == {"none", "open", "skipped", "enqueued", "rejected"}
ServerStates == {"serving", "stopping", "draining", "exited"}
JobStates    == {"none", "running", "reported", "panicked"}

LinkageTypeOK ==
  /\ Guard!DedupTypeOK
  /\ Buffer!TypeOK
  /\ http \in [Alerts -> HttpStates]
  /\ server \in ServerStates
  /\ timedOut \in BOOLEAN
  /\ job \in [Alerts -> JobStates]
  /\ slots \in Nat

Init ==
  /\ Guard!DedupInit
  /\ Buffer!AggInit
  /\ http = [a \in Alerts |-> "none"]
  /\ server = "serving"
  /\ timedOut = FALSE
  /\ job = [a \in Alerts |-> "none"]
  /\ slots = 0

Alive == server # "exited"

-----------------------------------------------------------------------------
(* handleWebhook.                                                          *)

Arrive(a) ==
  /\ server = "serving"
  /\ http[a] = "none"
  /\ http' = [http EXCEPT ![a] = "open"]
  /\ UNCHANGED <<dedupVars, aggVars, server, timedOut, job, slots>>

\* Answered before the guard is asked.
Reject(a) ==
  /\ Alive /\ http[a] = "open" /\ a \in Malformed
  /\ http' = [http EXCEPT ![a] = "rejected"]
  /\ UNCHANGED <<dedupVars, aggVars, server, timedOut, job, slots>>

\* The parts of dedup.Acquire the handler goes through.
ReadClock(a) ==
  /\ Alive /\ http[a] = "open" /\ a \notin Malformed
  /\ Guard!ReadClock(a)
  /\ UNCHANGED <<aggVars, ownVars>>

Acquire(a) ==
  /\ Alive /\ http[a] = "open"
  /\ Guard!Lock(a)
  /\ http' = [http EXCEPT ![a] = IF verdict'[a] = "refused" THEN "skipped" ELSE @]
  /\ UNCHANGED <<aggVars, server, timedOut, job, slots>>

\* Faults: answering without adding the alert to the buffer, giving the
\* grant back once the alert is buffered.
AddAfterAnswer(a) ==
  /\ Alive /\ http[a] = "open" /\ verdict[a] = "granted"
  /\ http' = [http EXCEPT ![a] = "enqueued"]
  /\ UNCHANGED <<dedupVars, aggVars, server, timedOut, job, slots>>

EnqueueReleases(a) ==
  /\ Alive /\ http[a] = "open" /\ verdict[a] = "granted"
  /\ Buffer!Add(a)
  /\ http' = [http EXCEPT ![a] = "enqueued"]
  /\ seen' = [seen EXCEPT ![<<KeyOf[a], TypeOf[a]>>] = 0]
  /\ UNCHANGED <<now, read, verdict, lockedAt, server, timedOut, job, slots>>

Enqueue(a) ==
  /\ Alive /\ http[a] = "open" /\ verdict[a] = "granted"
  /\ Buffer!Add(a)
  /\ http' = [http EXCEPT ![a] = "enqueued"]
  /\ UNCHANGED <<dedupVars, server, timedOut, job, slots>>

-----------------------------------------------------------------------------
(* The callback: Processor.Handle, in the goroutine of the timer or of     *)
(* Drain.                                                                  *)

TakeSlot(c) ==
  /\ Alive
  /\ c \in calls /\ job[c.ev] = "none"
  /\ slots < MaxConcurrent
  /\ slots' = slots + 1
  /\ job' = [job EXCEPT ![c.ev] = "running"]
  /\ UNCHANGED <<dedupVars, aggVars, http, server, timedOut>>

\* The analysis, successful or not, ends in a report to the channels.
Report(c) ==
  /\ Alive
  /\ c \in calls /\ job[c.ev] = "running"
  /\ job' = [job EXCEPT ![c.ev] = "reported"]
  /\ UNCHANGED <<dedupVars, aggVars, http, server, timedOut, slots>>

Panic(c) ==
  /\ Alive
  /\ c \in calls /\ job[c.ev] = "running"
  /\ job' = [job EXCEPT ![c.ev] = "panicked"]
  /\ UNCHANGED <<dedupVars, aggVars, http, server, timedOut, slots>>

\* The slot given back on the normal path only, not in a defer.
ReleasedAfterReport(c) == IF job[c.ev] = "reported" THEN slots - 1 ELSE slots

Released(c) == slots - 1

\* recover, then the deferred release, then the callback returns.
Return(c) ==
  /\ Alive
  /\ c \in calls /\ job[c.ev] \in {"reported", "panicked"}
  /\ Buffer!CallReturns(c)
  /\ slots' = Released(c)
  /\ UNCHANGED <<dedupVars, http, server, timedOut, job>>

TimerFires(t) ==
  /\ Alive
  /\ Buffer!TimerFires(t)
  /\ UNCHANGED <<dedupVars, ownVars>>

-----------------------------------------------------------------------------
(* main and app.Stop.                                                      *)

\* Stopping the timers of the entries Drain is going to flush.
SignalStopsTimers ==
  /\ server = "serving"
  /\ server' = "stopping"
  /\ timers' = {}
  /\ UNCHANGED <<dedupVars, entries, calls, drain, home, returned, atDrain,
                 http, timedOut, job, slots>>

Signal ==
  /\ server = "serving"
  /\ server' = "stopping"
  /\ UNCHANGED <<dedupVars, aggVars, http, timedOut, job, slots>>

OpenHandlers == {a \in Alerts : http[a] = "open"}

\* Shutdown not awaited, or called without a deadline.
NotAwaited == TRUE
WithoutExpiry == FALSE

HandlersDone == OpenHandlers = {}
MayExpire == OpenHandlers # {}

ShutdownReturns ==
  /\ server = "stopping"
  /\ HandlersDone
  /\ server' = "draining"
  /\ UNCHANGED <<dedupVars, aggVars, http, timedOut, job, slots>>

\* The 20 s context expires first; Stop ignores the error.
ShutdownTimesOut ==
  /\ server = "stopping"
  /\ MayExpire
  /\ server' = "draining"
  /\ timedOut' = TRUE
  /\ UNCHANGED <<dedupVars, aggVars, http, job, slots>>

DrainStep ==
  /\ server = "draining"
  /\ Buffer!DrainStep
  /\ UNCHANGED <<dedupVars, ownVars>>

\* main returns when Stop does; every other goroutine ends with it.
Exit ==
  /\ server = "draining"
  /\ drain.pc = "done"
  /\ server' = "exited"
  /\ UNCHANGED <<dedupVars, aggVars, http, timedOut, job, slots>>

\* One clock for the guard and the timers; it saturates at MaxNow.
LinkTick ==
  /\ Alive
  /\ now < MaxNow \/ \E t \in timers : t.left > 0
  /\ now' = IF now < MaxNow THEN now + 1 ELSE now
  /\ Buffer!Countdown
  /\ UNCHANGED <<seen, read, verdict, lockedAt, entries, calls, drain, home,
                 returned, atDrain, ownVars>>

-----------------------------------------------------------------------------
Handler(a)  == Reject(a) \/ ReadClock(a) \/ Acquire(a) \/ Enqueue(a)
Analysis(c) == Report(c) \/ Panic(c) \/ Return(c)
Shutdown    == ShutdownReturns \/ ShutdownTimesOut \/ DrainStep \/ Exit

Next ==
  \/ \E a \in Alerts : Arrive(a) \/ Handler(a)
  \/ \E t \in timers : TimerFires(t)
  \/ \E c \in calls : TakeSlot(c) \/ Analysis(c)
  \/ Signal
  \/ Shutdown
  \/ LinkTick

Spec == Init /\ [][Next]_vars

(* Goroutines run: handlers and analyses progress (every external call has *)
(* a timeout), timers fire, Stop goes on.  Only the header of a request    *)
(* has a timeout, so a handler may wait for its body for ever; Shutdown's  *)
(* context expires.  A channel serves its senders in order, hence strong   *)
(* fairness of the wait for a slot.  Requests need not arrive and the      *)
(* signal need not come.                                                   *)
Fairness ==
  /\ \A a \in Alerts \ Slow : WF_vars(Handler(a))
  /\ \A a \in Alerts :
       /\ WF_vars(\E c \in calls : c.ev = a /\ Analysis(c))
       /\ SF_vars(\E c \in calls : c.ev = a /\ TakeSlot(c))
  /\ WF_vars(\E t \in timers : TimerFires(t))
  /\ WF_vars(ShutdownReturns \/ ShutdownTimesOut)
  /\ WF_vars(DrainStep)
  /\ WF_vars(Exit)
  /\ WF_vars(LinkTick)

FairSpec == Spec /\ Fairness

-----------------------------------------------------------------------------
(* Properties.                                                             *)

GrantedAlerts == {a \in Alerts : verdict[a] = "granted"}
InHandler     == {a \in GrantedAlerts : http[a] = "open"}
Buffered      == {a \in Alerts : Buffer!InBuffer(a)}
InAnalysis    == {a \in Alerts : \E c \in calls : c.ev = home[a]}
Analysed      == {a \in Alerts : /\ \E c \in returned : c.ev = home[a]
                                /\ job[home[a]] \in {"reported", "panicked"}}

(* The guard and the buffer are two critical sections (server.go:89, 96),  *)
(* the buffer and the analysis two more (buffer.go:85-99); still a granted *)
(* alert is in exactly one place: with its handler, in the buffer, in a    *)
(* running analysis or in a finished one.  It never vanishes, is never in  *)
(* two, and nothing the guard did not grant is analysed.                   *)
NoAlertLost ==
  /\ GrantedAlerts = InHandler \cup Buffered \cup InAnalysis \cup Analysed
  /\ InHandler \cap (Buffered \cup InAnalysis \cup Analysed) = {}
  /\ Buffered \cap (InAnalysis \cup Analysed) = {}
  /\ InAnalysis \cap Analysed = {}

(* The semaphore counts the analyses between taking a slot and returning,  *)
(* reported or panicked alike, and they never exceed the limit             *)
(* (pipeline.go:44-52).                                                    *)
SlotsExact ==
  /\ slots = Cardinality({c \in calls : job[c.ev] # "none"})
  /\ slots <= MaxConcurrent

(* What a graceful stop guarantees when Shutdown did not time out: at exit *)
(* no granted alert is left with a handler or in the buffer, and the only  *)
(* analyses cut short are ones a timer started (app.go:103-106).           *)
GracefulStop ==
  (server = "exited" /\ ~timedOut) =>
    /\ InHandler = {}
    /\ Buffered = {}
    /\ \A c \in calls : c.by = "timer"

(* The composition uses the guard and the buffer as their own modules      *)
(* specify: every step of the service is a step of each, or none of it.    *)
UsesGuard  == Guard!DedupSpec
UsesBuffer == Buffer!AggSpec

(* The service as a whole accepts, skips or dismisses each delivery and    *)
(* analyses what it accepted once, although the layouts of a payload, the  *)
(* guard, the buffer, the timers and the slots all have a say              *)
(* (server.go:48-105, buffer.go:49-100, pipeline.go:43-71).                *)
Service == INSTANCE AlertService WITH
  pending   <- InHandler \cup Buffered \cup InAnalysis,
  analysed  <- Analysed,
  skipped   <- {a \in Alerts : http[a] = "skipped"},
  dismissed <- {a \in Alerts : http[a] = "rejected"}

ImplementsService == Service!ServiceSpec

\* What deliveries report is told apart as the handler tells them apart: what
\* ImplementsService asks of the deliveries, whose layouts Payload reads.
DeliveriesRead ==
  /\ \A a \in Alerts : About[a] = Nothing <=> a \in Malformed
  /\ \A a, b \in Alerts \ Malformed : KeyOf[a] = KeyOf[b] =>
       /\ About[a].host = About[b].host /\ About[a].window = About[b].window
       /\ TypeOf[a] = TypeOf[b] => About[a] = About[b]

(* Every alert that was answered 200 is analysed, itself or a granted copy *)
(* of it, unless the process exits: a skipped copy relies on the one the   *)
(* guard let through (server.go:89-104).                                   *)
AcceptedIsAnalysed ==
  \A a \in Alerts :
    http[a] \in {"skipped", "enqueued"} ~>
      server = "exited" \/ \E b \in Analysed : About[b] = About[a]

(* A signal ends the process: neither a handler whose request never ends   *)
(* nor a full semaphore can block Stop for ever (main.go:43-50,            *)
(* app.go:60, 103-106).                                                    *)
StopTerminates == server = "stopping" ~> server = "exited"

(* Drain is documented to flush what is buffered at a graceful stop, and   *)
(* to run the callbacks synchronously, so that nothing is lost             *)
(* (buffer.go:70-71): what was in the buffer when Drain looked has been    *)
(* analysed when the process exits.                                        *)
BufferedAtStopIsAnalysed == server = "exited" => atDrain \subseteq Analysed
=============================================================================
