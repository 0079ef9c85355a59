----------------------------- MODULE Aggregator -----------------------------
(***************************************************************************)
(* The merge buffer of the linkage service, buffer.Aggregator              *)
(* (src/linkage/internal/buffer/buffer.go).                                *)
(*                                                                         *)
(* Alerts of one host and one dedup window share a buffer key.  The first  *)
(* alert of a key opens an entry and arms a timer; later ones only add     *)
(* their type to the entry.  The timer removes the entry and hands it to a *)
(* callback (the analysis).  Drain, called once at shutdown, takes a       *)
(* snapshot of the keys and fires them one after another in its own        *)
(* goroutine.  Timers are never stopped, so a timer may find its entry     *)
(* already taken, or a younger entry under the same key.                   *)
(***************************************************************************)
EXTENDS Naturals, FiniteSets

CONSTANTS
  Events,   \* calls of Add; each element is one call
  Keys,     \* buffer keys: ident "|" window
  Types,    \* hardware types
  KeyOf,    \* the key of each event
  TypeOf,   \* the type of each event
  Wait,     \* merge_seconds, in ticks
  NoEvent   \* "no entry" / "not added yet"

ASSUME KeyOfAssumption   == KeyOf \in [Events -> Keys]
ASSUME TypeOfAssumption  == TypeOf \in [Events -> Types]
ASSUME WaitAssumption    == Wait \in Nat
ASSUME NoEventAssumption == NoEvent \notin Events

VARIABLES
  entries,  \* key -> the open entry, or Absent
  timers,   \* armed timers: the event that armed each, the ticks it has left
  calls,    \* callbacks that have started and not returned
  drain,    \* Drain: its progress and the keys of its snapshot left to fire
  home,     \* history: the event that opened the entry an event went into
  returned, \* history: callbacks that have returned
  atDrain   \* history: the events in the buffer when Drain took its snapshot

aggVars == <<entries, timers, calls, drain, home, returned, atDrain>>

-----------------------------------------------------------------------------
Absent  == [ev |-> NoEvent, types |-> {}]
Entry   == [ev : Events, types : SUBSET Types]
Timer   == [owner : Events, left : 0 .. Wait]
Batch   == [ev : Events, types : SUBSET Types, by : {"timer", "drain"}]
Drainer == [pc : {"idle", "draining", "done"}, keys : SUBSET Keys]

Added       == {e \in Events : home[e] # NoEvent}
InBuffer(e) == home[e] # NoEvent /\ home[e] = entries[KeyOf[e]].ev

TypeOK ==
  /\ entries \in [Keys -> Entry \cup {Absent}]
  /\ timers \subseteq Timer
  /\ calls \subseteq Batch
  /\ returned \subseteq Batch
  /\ drain \in Drainer
  /\ home \in [Events -> Events \cup {NoEvent}]
  /\ atDrain \subseteq Events

AggInit ==
  /\ entries = [k \in Keys |-> Absent]
  /\ timers = {}
  /\ calls = {}
  /\ drain = [pc |-> "idle", keys |-> {}]
  /\ home = [e \in Events |-> NoEvent]
  /\ returned = {}
  /\ atDrain = {}

-----------------------------------------------------------------------------
(* Add, all of it under the mutex.  A merged alert leaves the timer alone; *)
(* the comment at buffer.go:66 speaks of a refresh the code does not do.   *)

\* Faults of the kind a change to Add could introduce.
MergeIntoForgets(e) ==
  /\ home' = [home EXCEPT ![e] = entries[KeyOf[e]].ev]
  /\ UNCHANGED <<entries, timers>>

MergeInto(e) ==
  /\ entries' = [entries EXCEPT ![KeyOf[e]].types = @ \cup {TypeOf[e]}]
  /\ home' = [home EXCEPT ![e] = entries[KeyOf[e]].ev]
  /\ UNCHANGED timers

OpenWithoutEvent(e) ==
  /\ entries' = [entries EXCEPT ![KeyOf[e]] = [ev |-> NoEvent, types |-> {TypeOf[e]}]]
  /\ timers' = timers \cup {[owner |-> e, left |-> Wait]}
  /\ home' = [home EXCEPT ![e] = e]

OpenUnarmed(e) ==
  /\ entries' = [entries EXCEPT ![KeyOf[e]] = [ev |-> e, types |-> {TypeOf[e]}]]
  /\ home' = [home EXCEPT ![e] = e]
  /\ UNCHANGED timers

Open(e) ==
  /\ entries' = [entries EXCEPT ![KeyOf[e]] = [ev |-> e, types |-> {TypeOf[e]}]]
  /\ timers' = timers \cup {[owner |-> e, left |-> Wait]}
  /\ home' = [home EXCEPT ![e] = e]

\* Add without the look-up: a second alert of a key replaces the entry.
AddReplaces(e) ==
  /\ home[e] = NoEvent
  /\ Open(e)
  /\ UNCHANGED <<calls, drain, returned, atDrain>>

Add(e) ==
  /\ home[e] = NoEvent
  /\ \/ entries[KeyOf[e]] = Absent /\ Open(e)
     \/ entries[KeyOf[e]] # Absent /\ MergeInto(e)
  /\ UNCHANGED <<calls, drain, returned, atDrain>>

-----------------------------------------------------------------------------
(* fire: take the entry out of the map under the mutex and, if there was   *)
(* one, call back outside it.                                              *)

FireKeepsEntry(k, who) ==
  /\ calls' = IF entries[k] = Absent THEN calls
              ELSE calls \cup {[ev |-> entries[k].ev, types |-> entries[k].types,
                                by |-> who]}
  /\ UNCHANGED entries

Fire(k, who) ==
  \/ /\ entries[k] = Absent
     /\ UNCHANGED <<entries, calls>>
  \/ /\ entries[k] # Absent
     /\ entries' = [entries EXCEPT ![k] = Absent]
     /\ calls' = calls \cup {[ev |-> entries[k].ev, types |-> entries[k].types,
                              by |-> who]}

\* The timer's closure fires the key it was created with, not an entry.
TimerFires(t) ==
  /\ t.left = 0
  /\ timers' = timers \ {t}
  /\ Fire(KeyOf[t.owner], "timer")
  /\ UNCHANGED <<drain, home, returned, atDrain>>

-----------------------------------------------------------------------------
(* Drain.                                                                  *)

DrainCalls == {c \in calls : c.by = "drain"}

DrainBegins ==
  /\ drain.pc = "idle"
  /\ drain' = [pc |-> "draining", keys |-> {k \in Keys : entries[k] # Absent}]
  /\ atDrain' = {e \in Events : InBuffer(e)}
  /\ UNCHANGED <<entries, timers, calls, home, returned>>

\* Drain firing a key again and again.
DrainRefires(k) ==
  /\ drain.pc = "draining"
  /\ DrainCalls = {}
  /\ k \in drain.keys
  /\ Fire(k, "drain")
  /\ UNCHANGED <<timers, drain, home, returned, atDrain>>

\* fire runs the callback in Drain's goroutine: the next key waits for it.
DrainFires(k) ==
  /\ drain.pc = "draining"
  /\ DrainCalls = {}
  /\ k \in drain.keys
  /\ drain' = [drain EXCEPT !.keys = @ \ {k}]
  /\ Fire(k, "drain")
  /\ UNCHANGED <<timers, home, returned, atDrain>>

\* Drain returning while its last callback still runs.
DrainEndsEarly ==
  /\ drain.pc = "draining"
  /\ drain.keys = {}
  /\ drain' = [drain EXCEPT !.pc = "done"]
  /\ UNCHANGED <<entries, timers, calls, home, returned, atDrain>>

DrainEnds ==
  /\ drain.pc = "draining"
  /\ drain.keys = {}
  /\ DrainCalls = {}
  /\ drain' = [drain EXCEPT !.pc = "done"]
  /\ UNCHANGED <<entries, timers, calls, home, returned, atDrain>>

-----------------------------------------------------------------------------
(* The environment: the callback returns, time passes.                     *)

CallReturns(c) ==
  /\ c \in calls
  /\ calls' = calls \ {c}
  /\ returned' = returned \cup {c}
  /\ UNCHANGED <<entries, timers, drain, home, atDrain>>

Countdown ==
  timers' = {[t EXCEPT !.left = IF @ > 0 THEN @ - 1 ELSE 0] : t \in timers}

Tick ==
  /\ \E t \in timers : t.left > 0
  /\ Countdown
  /\ UNCHANGED <<entries, calls, drain, home, returned, atDrain>>

DrainStep == DrainBegins \/ (\E k \in Keys : DrainFires(k)) \/ DrainEnds

AggNext ==
  \/ \E e \in Events : Add(e)
  \/ \E t \in timers : TimerFires(t)
  \/ DrainStep
  \/ \E c \in calls : CallReturns(c)
  \/ Tick

AggSpec == AggInit /\ [][AggNext]_aggVars

(* The runtime runs expired timers and the clock advances; a callback      *)
(* returns because every call it makes has a timeout.  Nobody has to call  *)
(* Add or Drain.                                                           *)
AggFairness ==
  /\ WF_aggVars(Tick)
  /\ WF_aggVars(\E t \in timers : TimerFires(t))
  /\ WF_aggVars(\E c \in calls : CallReturns(c))
  /\ WF_aggVars(\E k \in Keys : DrainFires(k))
  /\ WF_aggVars(DrainEnds)

FairAggSpec == AggSpec /\ AggFairness

-----------------------------------------------------------------------------
(* Properties.                                                             *)

Handed         == calls \cup returned
Members(f)     == {e \in Events : home[e] = f}
MemberTypes(f) == {TypeOf[e] : e \in Members(f)}
HandedIn(e)    == {c \in Handed : c.ev = home[e]}

(* However timers, Drain and Add interleave, an added event is either in   *)
(* the open entry of its key or in exactly one callback, and the entry or  *)
(* the callback carries exactly the types of the events merged into it:    *)
(* fire's test of the map under the mutex makes a timer and Drain deliver  *)
(* an entry once between them, and no late type is lost (buffer.go:85-99). *)
HandedOverOnce ==
  \A e \in Added :
    IF InBuffer(e)
    THEN /\ entries[KeyOf[e]].types = MemberTypes(home[e])
         /\ HandedIn(e) = {}
    ELSE \E c \in HandedIn(e) :
           /\ HandedIn(e) = {c}
           /\ c.types = MemberTypes(home[e])

(* No entry is stranded: as long as an entry is open the timer it armed is *)
(* still armed, although timers of older entries of the same key fire too  *)
(* (buffer.go:62 arms, nothing re-arms).                                   *)
EntryArmed ==
  \A k \in Keys : entries[k] # Absent =>
    \E t \in timers : t.owner = entries[k].ev

(* Until shutdown an entry leaves the buffer through its own timer only,   *)
(* so it always gets its full merge wait; a timer that outlived its entry  *)
(* never cuts a younger entry of the key short (buffer.go:62, 85-94).      *)
OwnTimerOnly ==
  [][\A k \in Keys :
       (drain.pc = "idle" /\ entries[k] # Absent /\ entries'[k].ev # entries[k].ev) =>
         /\ \E t \in timers \ timers' : t.owner = entries[k].ev /\ t.left = 0
         /\ \A t \in timers' : t.owner # entries[k].ev]_aggVars

(* When Drain returns, no event its snapshot found is still in the buffer, *)
(* and every callback Drain started itself has returned                    *)
(* (buffer.go:70-82): what main then loses is not Drain's.                 *)
DrainComplete ==
  drain.pc = "done" =>
    /\ DrainCalls = {}
    /\ \A e \in atDrain : ~InBuffer(e)

(* Every added event is handed to the analysis some time (buffer.go:62).   *)
EventuallyHanded == \A e \in Events : home[e] # NoEvent ~> HandedIn(e) # {}

(* Drain ends: it waits for its own callbacks only, and those return.      *)
DrainTerminates == drain.pc = "draining" ~> drain.pc = "done"

(* The buffer implements BatchDelivery: an open entry is the held alerts   *)
(* of its key, a callback is one hand-over of all of them (buffer.go).     *)
Delivery == INSTANCE BatchDelivery WITH
  held    <- {e \in Events : InBuffer(e)},
  batches <- {[alerts |-> Members(c.ev), types |-> c.types] : c \in Handed}

ImplementsDelivery == Delivery!DeliverySpec
=============================================================================
