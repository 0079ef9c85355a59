--------------------------- MODULE AggregatorProofs ---------------------------
(***************************************************************************)
(* Proofs about the merge buffer, for any sets of alerts, keys and types   *)
(* and any merge wait.                                                     *)
(*                                                                         *)
(* HandedOverOnce is not inductive: that no alert is handed over twice     *)
(* rests on the alert that opened an entry naming the batch the entry      *)
(* becomes.  IInv says so: home is idempotent and keeps the key, an open   *)
(* entry has not been handed over and carries the types of its members,    *)
(* batches are told apart by their opening alert, and until Drain begins   *)
(* each timer belongs to the open entry of its key.                        *)
(***************************************************************************)
EXTENDS Aggregator, TLAPS

\* The types of the alerts whose home, by h, is f.
TypesAt(h, f) == {TypeOf[e] : e \in {x \in Events : h[x] = f}}

\* An open entry sits under its opening alert's key and is not handed over.
EntryInv ==
  \A k \in Keys : entries[k] # Absent =>
    /\ KeyOf[entries[k].ev] = k
    /\ home[entries[k].ev] = entries[k].ev
    /\ entries[k].types = TypesAt(home, entries[k].ev)
    /\ \A c \in Handed : c.ev # entries[k].ev

HomeInv ==
  \A e \in Events : home[e] # NoEvent =>
    /\ home[home[e]] = home[e]
    /\ KeyOf[home[e]] = KeyOf[e]

BatchInv ==
  \A c \in Handed :
    /\ home[c.ev] = c.ev
    /\ c.types = TypesAt(home, c.ev)
    /\ \A d \in Handed : c.ev = d.ev => c = d

\* An added alert is in the open entry of its key or in a batch.
PlaceInv ==
  \A e \in Events : home[e] # NoEvent =>
    InBuffer(e) \/ \E c \in Handed : c.ev = home[e]

TimerInv ==
  /\ \A t \in timers : home[t.owner] = t.owner
  /\ \A s, t \in timers : s.owner = t.owner => s = t
  /\ drain.pc = "idle" => \A t \in timers : entries[KeyOf[t.owner]].ev = t.owner

DrainInv ==
  /\ drain.pc # "draining" => DrainCalls = {}
  /\ \A e \in atDrain : home[e] # NoEvent
  /\ drain.pc = "idle" => atDrain = {}
  /\ drain.pc = "draining" => \A e \in atDrain : InBuffer(e) => KeyOf[e] \in drain.keys
  /\ drain.pc = "done" => \A e \in atDrain : ~InBuffer(e)

IInv ==
  TypeOK /\ EntryInv /\ HomeInv /\ BatchInv /\ PlaceInv /\ EntryArmed /\ TimerInv /\ DrainInv

-----------------------------------------------------------------------------
(* Types.                                                                  *)

\* The initial state is typed.
LEMMA InitTypeOK ==
  AggInit => TypeOK
BY NoEventAssumption DEF AggInit, TypeOK, Absent, Entry, Drainer

\* fire keeps the types of the map and of the batches.
LEMMA FireTypeOK ==
  ASSUME TypeOK, NEW k \in Keys, NEW who \in {"timer", "drain"}, Fire(k, who)
  PROVE  /\ entries' \in [Keys -> Entry \cup {Absent}]
         /\ calls' \subseteq Batch
<1>1. CASE entries[k] = Absent /\ UNCHANGED <<entries, calls>>
  BY <1>1 DEF TypeOK
<1>2. CASE /\ entries[k] # Absent
           /\ entries' = [entries EXCEPT ![k] = Absent]
           /\ calls' = calls \cup {[ev |-> entries[k].ev, types |-> entries[k].types,
                                    by |-> who]}
  <2>1. entries[k] \in Entry
    BY <1>2 DEF TypeOK
  <2>2. [ev |-> entries[k].ev, types |-> entries[k].types, by |-> who] \in Batch
    BY <2>1 DEF Entry, Batch
  <2> QED
    BY <1>2, <2>2 DEF TypeOK
<1> QED
  BY <1>1, <1>2 DEF Fire

\* Every step keeps the types.
LEMMA StepTypeOK ==
  TypeOK /\ [AggNext]_aggVars => TypeOK'
<1> SUFFICES ASSUME TypeOK, [AggNext]_aggVars
             PROVE  TypeOK'
  OBVIOUS
<1>1. ASSUME NEW e \in Events, Add(e)
      PROVE  TypeOK'
  <2> KeyOf[e] \in Keys /\ TypeOf[e] \in Types
    BY KeyOfAssumption, TypeOfAssumption
  <2>1. CASE Open(e)
    <3>1. [ev |-> e, types |-> {TypeOf[e]}] \in Entry
      BY DEF Entry
    <3>2. [owner |-> e, left |-> Wait] \in Timer
      BY WaitAssumption DEF Timer
    <3> QED
      BY <1>1, <2>1, <3>1, <3>2 DEF Add, Open, TypeOK
  <2>2. CASE entries[KeyOf[e]] # Absent /\ MergeInto(e)
    <3>1. entries[KeyOf[e]] \in Entry
      BY <2>2 DEF TypeOK
    <3>2. [entries[KeyOf[e]] EXCEPT !.types = @ \cup {TypeOf[e]}] \in Entry
      BY <3>1 DEF Entry
    <3>3. entries' = [entries EXCEPT ![KeyOf[e]] =
                        [entries[KeyOf[e]] EXCEPT !.types = @ \cup {TypeOf[e]}]]
      BY <2>2 DEF MergeInto
    <3>4. home' \in [Events -> Events \cup {NoEvent}]
      BY <2>2, <3>1 DEF MergeInto, TypeOK, Entry
    <3> QED
      BY <1>1, <2>2, <3>2, <3>3, <3>4 DEF Add, MergeInto, TypeOK
  <2> QED
    BY <1>1, <2>1, <2>2 DEF Add
<1>2. ASSUME NEW t \in timers, TimerFires(t)
      PROVE  TypeOK'
  <2> KeyOf[t.owner] \in Keys
    BY KeyOfAssumption DEF TypeOK, Timer
  <2> QED
    BY <1>2, FireTypeOK DEF TimerFires, TypeOK
<1>3. CASE DrainBegins
  BY <1>3 DEF DrainBegins, TypeOK, Drainer
<1>4. ASSUME NEW k \in Keys, DrainFires(k)
      PROVE  TypeOK'
  <2>1. drain' \in Drainer
    BY <1>4 DEF DrainFires, TypeOK, Drainer
  <2> QED
    BY <1>4, <2>1, FireTypeOK DEF DrainFires, TypeOK
<1>5. CASE DrainEnds
  BY <1>5 DEF DrainEnds, TypeOK, Drainer
<1>6. ASSUME NEW c \in calls, CallReturns(c)
      PROVE  TypeOK'
  BY <1>6 DEF CallReturns, TypeOK
<1>7. CASE Tick
  <2>1. \A t \in timers : [t EXCEPT !.left = IF @ > 0 THEN @ - 1 ELSE 0] \in Timer
    BY WaitAssumption DEF TypeOK, Timer
  <2> QED
    BY <1>7, <2>1 DEF Tick, Countdown, TypeOK
<1>8. CASE UNCHANGED aggVars
  BY <1>8 DEF aggVars, TypeOK
<1> QED
  BY <1>1, <1>2, <1>3, <1>4, <1>5, <1>6, <1>7, <1>8 DEF AggNext, DrainStep

(* Every variable of the buffer keeps its type (buffer.go).                *)
THEOREM TypeCorrect == AggSpec => []TypeOK
<1>1. AggInit => TypeOK
  BY InitTypeOK
<1>2. TypeOK /\ [AggNext]_aggVars => TypeOK'
  BY StepTypeOK
<1> QED
  BY <1>1, <1>2, PTL DEF AggSpec

-----------------------------------------------------------------------------
(* One step of each kind.                                                  *)

\* An entry is open exactly when it names an alert.
LEMMA OpenEntry ==
  ASSUME TypeOK, NEW k \in Keys
  PROVE  /\ entries[k] # Absent => entries[k] \in Entry /\ entries[k].ev \in Events
         /\ entries[k] = Absent <=> entries[k].ev = NoEvent
BY NoEventAssumption DEF TypeOK, Entry, Absent

\* A batch names the alert that opened it.
LEMMA HandedEvents ==
  ASSUME TypeOK, NEW c \in Handed
  PROVE  c \in Batch /\ c.ev \in Events
BY DEF TypeOK, Handed, Batch

\* The alert that opens an entry is its own home and nobody else's.
LEMMA OpenHome ==
  ASSUME IInv, NEW e \in Events, home[e] = NoEvent, Open(e)
  PROVE  /\ \A f \in Events : home'[f] = IF f = e THEN e ELSE home[f]
         /\ \A f \in Events : home[f] # e
         /\ TypesAt(home', e) = {TypeOf[e]}
         /\ \A g \in Events : g # e => TypesAt(home', g) = TypesAt(home, g)
<1>1. \A f \in Events : home'[f] = IF f = e THEN e ELSE home[f]
  BY DEF IInv, TypeOK, Open
<1>2. \A f \in Events : home[f] # e
  BY NoEventAssumption DEF IInv, HomeInv
<1>3. {x \in Events : home'[x] = e} = {e}
  BY <1>1, <1>2
<1>4. ASSUME NEW g \in Events, g # e
      PROVE  {x \in Events : home'[x] = g} = {x \in Events : home[x] = g}
  BY <1>1, <1>4, NoEventAssumption
<1>5. TypesAt(home', e) = {TypeOf[e]}
  BY <1>3 DEF TypesAt
<1>6. ASSUME NEW g \in Events, g # e
      PROVE  TypesAt(home', g) = TypesAt(home, g)
  BY <1>4, <1>6 DEF TypesAt
<1> QED
  BY <1>1, <1>2, <1>5, <1>6

\* Opening an entry preserves the invariant.
LEMMA OpenStep ==
  ASSUME IInv, TypeOK', NEW e \in Events, home[e] = NoEvent,
         entries[KeyOf[e]] = Absent, Open(e),
         UNCHANGED <<calls, drain, returned, atDrain>>
  PROVE  IInv'
<1> DEFINE k0 == KeyOf[e]
<1>0. k0 \in Keys /\ TypeOK /\ Handed' = Handed
  BY KeyOfAssumption DEF IInv, Handed
<1>1. /\ entries'[k0] = [ev |-> e, types |-> {TypeOf[e]}]
      /\ \A k \in Keys : k # k0 => entries'[k] = entries[k]
  BY <1>0 DEF Open, TypeOK
<1>2. entries'[k0].ev = e /\ entries'[k0].types = {TypeOf[e]}
  BY <1>1
<1>3. /\ \A f \in Events : home'[f] = IF f = e THEN e ELSE home[f]
      /\ \A f \in Events : home[f] # e
      /\ TypesAt(home', e) = {TypeOf[e]}
      /\ \A g \in Events : g # e => TypesAt(home', g) = TypesAt(home, g)
  BY OpenHome
<1>5. \A c \in Handed : c.ev \in Events /\ home[c.ev] = c.ev /\ c.ev # e
  BY <1>0, HandedEvents, NoEventAssumption DEF IInv, BatchInv
<1>6. EntryInv'
  <2> SUFFICES ASSUME NEW k \in Keys, entries'[k] # Absent
               PROVE  /\ KeyOf[entries'[k].ev] = k
                      /\ home'[entries'[k].ev] = entries'[k].ev
                      /\ entries'[k].types = TypesAt(home', entries'[k].ev)
                      /\ \A c \in Handed : c.ev # entries'[k].ev
    BY <1>0 DEF EntryInv, Absent
  <2>1. CASE k = k0
    BY <2>1, <1>2, <1>3, <1>5
  <2>2. CASE k # k0
    <3>1. entries'[k] = entries[k] /\ entries[k].ev \in Events /\ entries[k] # Absent
      BY <2>2, <1>0, <1>1, OpenEntry
    <3>2. entries[k].ev # e
      BY <3>1, NoEventAssumption DEF IInv, EntryInv
    <3> QED
      BY <3>1, <3>2, <1>3 DEF IInv, EntryInv
  <2> QED
    BY <2>1, <2>2
<1>7. HomeInv'
  BY <1>3, NoEventAssumption DEF IInv, HomeInv, TypeOK
<1>8. BatchInv'
  BY <1>0, <1>3, <1>5 DEF IInv, BatchInv
<1>9. PlaceInv'
  <2> SUFFICES ASSUME NEW f \in Events, home'[f] # NoEvent
               PROVE  InBuffer(f)' \/ \E c \in Handed : c.ev = home'[f]
    BY <1>0 DEF PlaceInv
  <2>1. CASE f = e
    BY <2>1, <1>2, <1>3, NoEventAssumption DEF InBuffer
  <2>2. CASE f # e
    <3>1. home'[f] = home[f] /\ KeyOf[f] \in Keys
      BY <2>2, <1>3, KeyOfAssumption
    <3>2. CASE InBuffer(f)
      <4>1. KeyOf[f] # k0
        BY <3>2, <1>0, OpenEntry DEF InBuffer
      <4> QED
        BY <4>1, <3>1, <3>2, <1>1 DEF InBuffer
    <3>3. CASE \E c \in Handed : c.ev = home[f]
      BY <3>1, <3>3
    <3> QED
      BY <3>1, <3>2, <3>3 DEF IInv, PlaceInv
  <2> QED
    BY <2>1, <2>2
<1>10. EntryArmed'
  <2> SUFFICES ASSUME NEW k \in Keys, entries'[k] # Absent
               PROVE  \E t \in timers' : t.owner = entries'[k].ev
    BY DEF EntryArmed, Absent
  <2>1. CASE k = k0
    <3>1. [owner |-> e, left |-> Wait] \in timers'
      BY DEF Open
    <3> QED
      BY <2>1, <3>1, <1>2
  <2>2. CASE k # k0
    BY <2>2, <1>1 DEF IInv, EntryArmed, Open
  <2> QED
    BY <2>1, <2>2
<1>11. TimerInv'
  <2>1. \A t \in timers : t.owner \in Events /\ t.owner # e /\ home[t.owner] = t.owner
    BY <1>0, NoEventAssumption DEF IInv, TimerInv, TypeOK, Timer
  <2>2. timers' = timers \cup {[owner |-> e, left |-> Wait]}
    BY DEF Open
  <2>3. \A t \in timers' : home'[t.owner] = t.owner
    BY <2>1, <2>2, <1>3
  <2>4. \A r, t \in timers' : r.owner = t.owner => r = t
    BY <2>1, <2>2 DEF IInv, TimerInv
  <2>5. ASSUME drain'.pc = "idle", NEW t \in timers'
        PROVE  entries'[KeyOf[t.owner]].ev = t.owner
    <3>1. CASE t = [owner |-> e, left |-> Wait]
      BY <3>1, <1>2
    <3>2. CASE t \in timers
      <4>1. entries[KeyOf[t.owner]].ev = t.owner /\ KeyOf[t.owner] \in Keys
        BY <2>1, <2>5, <3>2, KeyOfAssumption DEF IInv, TimerInv
      <4>2. KeyOf[t.owner] # k0
        BY <4>1, <1>0, <2>1, <3>2, OpenEntry, NoEventAssumption
      <4> QED
        BY <4>1, <4>2, <1>1
    <3> QED
      BY <2>2, <3>1, <3>2
  <2> QED
    BY <2>3, <2>4, <2>5 DEF TimerInv
<1>12. DrainInv'
  <2>1. \A f \in atDrain : f \in Events /\ home[f] # NoEvent /\ f # e
    BY <1>0 DEF IInv, DrainInv, TypeOK
  <2>2. ASSUME NEW f \in atDrain, InBuffer(f)'
        PROVE  InBuffer(f)
    <3>1. home'[f] = home[f] /\ KeyOf[f] \in Keys
      BY <2>1, <1>3, KeyOfAssumption
    <3>2. KeyOf[f] # k0
      BY <2>1, <2>2, <3>1, <1>2, <1>3 DEF InBuffer
    <3> QED
      BY <2>2, <3>1, <3>2, <1>1 DEF InBuffer
  <2>3. DrainCalls' = DrainCalls /\ drain' = drain /\ atDrain' = atDrain
    BY DEF DrainCalls
  <2>4. \A f \in atDrain : home'[f] # NoEvent
    BY <2>1, <1>3
  <2> QED
    BY <2>2, <2>3, <2>4 DEF IInv, DrainInv
<1> QED
  BY <1>6, <1>7, <1>8, <1>9, <1>10, <1>11, <1>12 DEF IInv

\* A merged alert changes the types of its entry and of nothing else.
LEMMA MergeStep ==
  ASSUME IInv, TypeOK', NEW e \in Events, home[e] = NoEvent,
         entries[KeyOf[e]] # Absent, MergeInto(e),
         UNCHANGED <<calls, drain, returned, atDrain>>
  PROVE  IInv'
<1> DEFINE k0 == KeyOf[e]
           h  == entries[k0].ev
<1>0. k0 \in Keys /\ TypeOK /\ Handed' = Handed
  BY KeyOfAssumption DEF IInv, Handed
<1>1. /\ entries[k0] \in Entry /\ h \in Events
      /\ KeyOf[h] = k0 /\ home[h] = h /\ h # e
      /\ entries[k0].types = TypesAt(home, h)
      /\ \A c \in Handed : c.ev # h
  BY <1>0, OpenEntry, NoEventAssumption DEF IInv, EntryInv
<1>2. /\ entries'[k0].ev = h
      /\ entries'[k0].types = entries[k0].types \cup {TypeOf[e]}
      /\ \A k \in Keys : k # k0 => entries'[k] = entries[k]
      /\ \A k \in Keys : entries'[k].ev = entries[k].ev
  BY <1>0, <1>1 DEF MergeInto, TypeOK, Entry
<1>3. \A f \in Events : home'[f] = IF f = e THEN h ELSE home[f]
  BY <1>0 DEF MergeInto, TypeOK
<1>4. TypesAt(home', h) = TypesAt(home, h) \cup {TypeOf[e]}
  <2>1. {x \in Events : home'[x] = h} = {x \in Events : home[x] = h} \cup {e}
    BY <1>3
  <2> QED
    BY <2>1 DEF TypesAt
<1>5. ASSUME NEW g \in Events, g # h
      PROVE  TypesAt(home', g) = TypesAt(home, g)
  <2>1. {x \in Events : home'[x] = g} = {x \in Events : home[x] = g}
    BY <1>3, <1>5, NoEventAssumption
  <2> QED
    BY <2>1 DEF TypesAt
<1>6. \A c \in Handed : c.ev \in Events /\ home[c.ev] = c.ev /\ c.ev # e
  BY <1>0, HandedEvents, NoEventAssumption DEF IInv, BatchInv
<1>7. EntryInv'
  <2> SUFFICES ASSUME NEW k \in Keys, entries'[k] # Absent
               PROVE  /\ KeyOf[entries'[k].ev] = k
                      /\ home'[entries'[k].ev] = entries'[k].ev
                      /\ entries'[k].types = TypesAt(home', entries'[k].ev)
                      /\ \A c \in Handed : c.ev # entries'[k].ev
    BY <1>0 DEF EntryInv, Absent
  <2>1. CASE k = k0
    BY <2>1, <1>1, <1>2, <1>3, <1>4
  <2>2. CASE k # k0
    <3>1. entries'[k] = entries[k] /\ entries[k].ev \in Events /\ entries[k] # Absent
      BY <2>2, <1>0, <1>2, OpenEntry
    <3>2. entries[k].ev # e /\ entries[k].ev # h
      BY <2>2, <3>1, <1>1, NoEventAssumption DEF IInv, EntryInv
    <3> QED
      BY <3>1, <3>2, <1>3, <1>5 DEF IInv, EntryInv
  <2> QED
    BY <2>1, <2>2
<1>8. HomeInv'
  BY <1>1, <1>3, NoEventAssumption DEF IInv, HomeInv, TypeOK
<1>9. BatchInv'
  BY <1>0, <1>1, <1>3, <1>5, <1>6 DEF IInv, BatchInv
<1>10. PlaceInv'
  <2> SUFFICES ASSUME NEW f \in Events, home'[f] # NoEvent
               PROVE  InBuffer(f)' \/ \E c \in Handed : c.ev = home'[f]
    BY <1>0 DEF PlaceInv
  <2>1. CASE f = e
    BY <2>1, <1>1, <1>2, <1>3, NoEventAssumption DEF InBuffer
  <2>2. CASE f # e
    <3>1. home'[f] = home[f] /\ KeyOf[f] \in Keys
      BY <2>2, <1>3, KeyOfAssumption
    <3> QED
      BY <3>1, <1>2 DEF IInv, PlaceInv, InBuffer
  <2> QED
    BY <2>1, <2>2
<1>11. \A k \in Keys : entries'[k] # Absent => entries[k] # Absent
  BY <1>0, <1>2, OpenEntry
<1>12. EntryArmed'
  BY <1>2, <1>11 DEF IInv, EntryArmed, MergeInto, Absent
<1>13. TimerInv'
  <2>1. \A t \in timers : t.owner \in Events /\ t.owner # e /\ KeyOf[t.owner] \in Keys
    BY <1>0, NoEventAssumption, KeyOfAssumption DEF IInv, TimerInv, TypeOK, Timer
  <2> QED
    BY <2>1, <1>2, <1>3 DEF IInv, TimerInv, MergeInto
<1>14. DrainInv'
  <2>1. \A f \in atDrain : f \in Events /\ home[f] # NoEvent /\ f # e /\ KeyOf[f] \in Keys
    BY <1>0, KeyOfAssumption DEF IInv, DrainInv, TypeOK
  <2>2. \A f \in atDrain : home'[f] = home[f] /\ (InBuffer(f)' => InBuffer(f))
    BY <2>1, <1>2, <1>3 DEF InBuffer
  <2>3. DrainCalls' = DrainCalls /\ drain' = drain /\ atDrain' = atDrain
    BY DEF DrainCalls
  <2> QED
    BY <2>1, <2>2, <2>3 DEF IInv, DrainInv
<1> QED
  BY <1>7, <1>8, <1>9, <1>10, <1>12, <1>13, <1>14 DEF IInv

\* What fire does to the map and to the batches, whoever calls it.
LEMMA FireStep ==
  ASSUME IInv, NEW k \in Keys, NEW who \in {"timer", "drain"}, Fire(k, who),
         UNCHANGED <<home, returned>>
  PROVE  /\ EntryInv' /\ HomeInv' /\ BatchInv' /\ PlaceInv'
         /\ entries'[k] = Absent
         /\ \A j \in Keys : j # k => entries'[j] = entries[j]
         /\ \A f \in Events : InBuffer(f)' => InBuffer(f) /\ KeyOf[f] # k
         /\ calls \subseteq calls'
         /\ \A c \in calls' \ calls : c.by = who
<1>0. TypeOK /\ KeyOf \in [Events -> Keys]
  BY KeyOfAssumption DEF IInv
<1>1. HomeInv'
  BY DEF IInv, HomeInv
<1>2. CASE entries[k] = Absent /\ UNCHANGED <<entries, calls>>
  <2>1. Handed' = Handed
    BY <1>2 DEF Handed
  <2>2. \A f \in Events : InBuffer(f) => KeyOf[f] # k
    BY <1>0, <1>2, OpenEntry DEF InBuffer
  <2>3. EntryInv' /\ BatchInv'
    BY <1>2, <2>1 DEF IInv, EntryInv, BatchInv, Absent
  <2>4. PlaceInv'
    BY <1>2, <2>1 DEF IInv, PlaceInv, InBuffer
  <2>5. \A f \in Events : InBuffer(f)' = InBuffer(f)
    BY <1>2 DEF InBuffer
  <2> QED
    BY <1>1, <1>2, <2>2, <2>3, <2>4, <2>5
<1>3. CASE /\ entries[k] # Absent
           /\ entries' = [entries EXCEPT ![k] = Absent]
           /\ calls' = calls \cup {[ev |-> entries[k].ev, types |-> entries[k].types,
                                    by |-> who]}
  <2> DEFINE b == [ev |-> entries[k].ev, types |-> entries[k].types, by |-> who]
  <2>1. /\ entries[k].ev \in Events
        /\ KeyOf[entries[k].ev] = k /\ home[entries[k].ev] = entries[k].ev
        /\ entries[k].types = TypesAt(home, entries[k].ev)
        /\ \A c \in Handed : c.ev # entries[k].ev
    BY <1>0, <1>3, OpenEntry DEF IInv, EntryInv
  <2>2. /\ Handed' = Handed \cup {b}
        /\ b.ev = entries[k].ev /\ b.types = entries[k].types /\ b.by = who
    BY <1>3 DEF Handed
  <2>3. /\ entries'[k] = Absent
        /\ \A j \in Keys : j # k => entries'[j] = entries[j]
    BY <1>0, <1>3 DEF TypeOK
  <2>4. EntryInv'
    <3> SUFFICES ASSUME NEW j \in Keys, entries'[j] # Absent
                 PROVE  /\ KeyOf[entries'[j].ev] = j
                        /\ home[entries'[j].ev] = entries'[j].ev
                        /\ entries'[j].types = TypesAt(home, entries'[j].ev)
                        /\ \A c \in Handed' : c.ev # entries'[j].ev
      BY DEF EntryInv, Absent, TypesAt
    <3>1. j # k /\ entries'[j] = entries[j] /\ entries[j] # Absent
      BY <2>3
    <3> QED
      BY <3>1, <2>1, <2>2 DEF IInv, EntryInv
  <2>5. BatchInv'
    <3>1. \A c \in Handed' : home[c.ev] = c.ev /\ c.types = TypesAt(home, c.ev)
      BY <2>1, <2>2 DEF IInv, BatchInv
    <3>2. \A c, d \in Handed' : c.ev = d.ev => c = d
      BY <2>1, <2>2 DEF IInv, BatchInv
    <3> QED
      BY <3>1, <3>2 DEF BatchInv
  <2>6. \A f \in Events : InBuffer(f)' => InBuffer(f) /\ KeyOf[f] # k
    BY <1>0, <2>3 DEF InBuffer, Absent
  <2>7. PlaceInv'
    <3> SUFFICES ASSUME NEW f \in Events, home[f] # NoEvent
                 PROVE  InBuffer(f)' \/ \E c \in Handed' : c.ev = home[f]
      BY DEF PlaceInv
    <3>1. KeyOf[f] \in Keys
      BY <1>0
    <3>2. CASE InBuffer(f)
      BY <3>1, <3>2, <2>2, <2>3 DEF InBuffer
    <3>3. CASE \E c \in Handed : c.ev = home[f]
      BY <3>3, <2>2
    <3> QED
      BY <3>2, <3>3 DEF IInv, PlaceInv
  <2> QED
    BY <1>1, <1>3, <2>2, <2>3, <2>4, <2>5, <2>6, <2>7
<1> QED
  BY <1>2, <1>3 DEF Fire

\* A timer takes its own entry before Drain begins, and leaves other keys be.
LEMMA TimerStep ==
  ASSUME IInv, TypeOK', NEW t \in timers, TimerFires(t)
  PROVE  IInv'
<1> DEFINE k == KeyOf[t.owner]
<1>0. TypeOK /\ k \in Keys /\ \A s \in timers : s.owner \in Events /\ KeyOf[s.owner] \in Keys
  BY KeyOfAssumption DEF IInv, TypeOK, Timer
<1>1. /\ timers' = timers \ {t} /\ Fire(k, "timer")
      /\ UNCHANGED <<drain, home, returned, atDrain>>
  BY DEF TimerFires
<1>2. /\ EntryInv' /\ HomeInv' /\ BatchInv' /\ PlaceInv'
      /\ entries'[k] = Absent
      /\ \A j \in Keys : j # k => entries'[j] = entries[j]
      /\ \A f \in Events : InBuffer(f)' => InBuffer(f) /\ KeyOf[f] # k
      /\ calls \subseteq calls'
      /\ \A c \in calls' \ calls : c.by = "timer"
  BY <1>0, <1>1, FireStep
<1>3. EntryArmed'
  <2> SUFFICES ASSUME NEW j \in Keys, entries'[j] # Absent
               PROVE  \E s \in timers' : s.owner = entries'[j].ev
    BY DEF EntryArmed, Absent
  <2>1. j # k /\ entries'[j] = entries[j] /\ entries[j] # Absent
    BY <1>2
  <2>2. PICK s \in timers : s.owner = entries[j].ev
    BY <2>1 DEF IInv, EntryArmed
  <2>3. KeyOf[s.owner] = j
    BY <2>1, <2>2 DEF IInv, EntryInv
  <2>4. s \in timers'
    BY <1>1, <2>1, <2>3
  <2> QED
    BY <2>1, <2>2, <2>4
<1>4. TimerInv'
  <2>1. ASSUME drain'.pc = "idle", NEW s \in timers'
        PROVE  entries'[KeyOf[s.owner]].ev = s.owner
    <3>1. s \in timers /\ s # t
      BY <1>1
    <3>2. entries[KeyOf[s.owner]].ev = s.owner /\ entries[k].ev = t.owner
      BY <1>1, <2>1, <3>1 DEF IInv, TimerInv
    <3>3. KeyOf[s.owner] # k
      BY <3>1, <3>2 DEF IInv, TimerInv
    <3> QED
      BY <1>0, <1>2, <3>1, <3>2, <3>3
  <2> QED
    BY <1>1, <2>1 DEF IInv, TimerInv
<1>5. DrainInv'
  <2>1. DrainCalls' = DrainCalls
    BY <1>2 DEF DrainCalls
  <2>2. \A f \in atDrain : f \in Events
    BY <1>0 DEF TypeOK
  <2> QED
    BY <1>1, <1>2, <2>1, <2>2 DEF IInv, DrainInv
<1> QED
  BY <1>2, <1>3, <1>4, <1>5 DEF IInv

\* A step that moves no alert keeps what is said of the alerts' places.
LEMMA SamePlaces ==
  ASSUME IInv, UNCHANGED <<entries, home>>, Handed' = Handed
  PROVE  EntryInv' /\ HomeInv' /\ BatchInv' /\ PlaceInv'
<1>1. EntryInv'
  BY DEF IInv, EntryInv, Absent
<1>2. HomeInv'
  BY DEF IInv, HomeInv
<1>3. BatchInv'
  BY DEF IInv, BatchInv
<1>4. PlaceInv'
  BY DEF IInv, PlaceInv, InBuffer
<1> QED
  BY <1>1, <1>2, <1>3, <1>4

\* The snapshot holds the key of every alert in the buffer.
LEMMA DrainBeginsStep ==
  ASSUME IInv, TypeOK', DrainBegins
  PROVE  IInv'
<1>0. /\ TypeOK /\ KeyOf \in [Events -> Keys]
      /\ drain.pc = "idle" /\ drain'.pc = "draining"
      /\ drain'.keys = {k \in Keys : entries[k] # Absent}
      /\ atDrain' = {e \in Events : InBuffer(e)}
      /\ UNCHANGED <<entries, timers, calls, home, returned>>
      /\ Handed' = Handed
  BY KeyOfAssumption DEF IInv, DrainBegins, Handed
<1>1. EntryInv' /\ HomeInv' /\ BatchInv' /\ PlaceInv' /\ EntryArmed'
  BY <1>0, SamePlaces DEF IInv, EntryArmed, Absent
<1>2. TimerInv'
  BY <1>0 DEF IInv, TimerInv
<1>3. DrainInv'
  <2>1. \A e \in atDrain' : home'[e] # NoEvent
    BY <1>0 DEF InBuffer
  <2>2. \A e \in atDrain' : InBuffer(e)' => KeyOf[e] \in drain'.keys
    BY <1>0, OpenEntry DEF InBuffer
  <2> QED
    BY <1>0, <2>1, <2>2 DEF DrainInv
<1> QED
  BY <1>1, <1>2, <1>3 DEF IInv

\* Firing a key empties it of the alerts of the snapshot, for good.
LEMMA DrainFiresStep ==
  ASSUME IInv, TypeOK', NEW k \in Keys, DrainFires(k)
  PROVE  IInv'
<1>0. /\ TypeOK /\ KeyOf \in [Events -> Keys]
      /\ drain.pc = "draining" /\ drain'.pc = "draining"
      /\ drain'.keys = drain.keys \ {k}
      /\ Fire(k, "drain")
      /\ UNCHANGED <<timers, home, returned, atDrain>>
  BY KeyOfAssumption DEF IInv, DrainFires, TypeOK, Drainer
<1>1. /\ EntryInv' /\ HomeInv' /\ BatchInv' /\ PlaceInv'
      /\ entries'[k] = Absent
      /\ \A j \in Keys : j # k => entries'[j] = entries[j]
      /\ \A f \in Events : InBuffer(f)' => InBuffer(f) /\ KeyOf[f] # k
  BY <1>0, FireStep
<1>2. EntryArmed'
  BY <1>0, <1>1 DEF IInv, EntryArmed, Absent
<1>3. TimerInv'
  BY <1>0 DEF IInv, TimerInv
<1>4. DrainInv'
  BY <1>0, <1>1 DEF IInv, DrainInv, TypeOK
<1> QED
  BY <1>1, <1>2, <1>3, <1>4 DEF IInv

\* No key left and no callback running: nothing of the snapshot is buffered.
LEMMA DrainEndsStep ==
  ASSUME IInv, TypeOK', DrainEnds
  PROVE  IInv'
<1>0. /\ TypeOK
      /\ drain.pc = "draining" /\ drain'.pc = "done" /\ drain.keys = {}
      /\ DrainCalls = {}
      /\ UNCHANGED <<entries, timers, calls, home, returned, atDrain>>
      /\ Handed' = Handed
  BY DEF IInv, DrainEnds, TypeOK, Drainer, Handed
<1>1. EntryInv' /\ HomeInv' /\ BatchInv' /\ PlaceInv' /\ EntryArmed'
  BY <1>0, SamePlaces DEF IInv, EntryArmed, Absent
<1>2. TimerInv'
  BY <1>0 DEF IInv, TimerInv
<1>3. DrainInv'
  BY <1>0 DEF IInv, DrainInv, DrainCalls, InBuffer
<1> QED
  BY <1>1, <1>2, <1>3 DEF IInv

\* A callback that returns is still a batch.
LEMMA ReturnStep ==
  ASSUME IInv, TypeOK', NEW c \in calls, CallReturns(c)
  PROVE  IInv'
<1>0. /\ UNCHANGED <<entries, timers, drain, home, atDrain>>
      /\ Handed' = Handed
      /\ DrainCalls' \subseteq DrainCalls
  BY DEF CallReturns, Handed, DrainCalls
<1>1. EntryInv' /\ HomeInv' /\ BatchInv' /\ PlaceInv' /\ EntryArmed'
  BY <1>0, SamePlaces DEF IInv, EntryArmed, Absent
<1>2. TimerInv' /\ DrainInv'
  BY <1>0 DEF IInv, TimerInv, DrainInv, InBuffer
<1> QED
  BY <1>1, <1>2 DEF IInv

\* The clock keeps the timers' owners.
LEMMA TickStep ==
  ASSUME IInv, TypeOK', Tick
  PROVE  IInv'
<1> DEFINE count(t) == [t EXCEPT !.left = IF @ > 0 THEN @ - 1 ELSE 0]
<1>0. /\ UNCHANGED <<entries, calls, drain, home, returned, atDrain>>
      /\ Handed' = Handed
      /\ DrainCalls' = DrainCalls
      /\ timers' = {count(t) : t \in timers}
  BY DEF Tick, Countdown, Handed, DrainCalls
<1>1. EntryInv' /\ HomeInv' /\ BatchInv' /\ PlaceInv'
  BY <1>0, SamePlaces
<1>2. \A t \in timers : count(t).owner = t.owner
  BY DEF IInv, TypeOK, Timer
<1>3. EntryArmed'
  <2> SUFFICES ASSUME NEW j \in Keys, entries[j] # Absent
               PROVE  \E s \in timers' : s.owner = entries[j].ev
    BY <1>0 DEF EntryArmed, Absent
  <2>1. PICK t \in timers : t.owner = entries[j].ev
    BY DEF IInv, EntryArmed
  <2>2. count(t) \in timers'
    BY <1>0
  <2> QED
    BY <1>2, <2>1, <2>2
<1>4. TimerInv'
  <2>1. \A s \in timers' : \E t \in timers : s = count(t) /\ s.owner = t.owner
    BY <1>0, <1>2
  <2>2. \A s \in timers' : home[s.owner] = s.owner
    BY <2>1 DEF IInv, TimerInv
  <2>3. \A r, s \in timers' : r.owner = s.owner => r = s
    <3> SUFFICES ASSUME NEW r \in timers', NEW s \in timers', r.owner = s.owner
                 PROVE  r = s
      OBVIOUS
    <3>1. PICK t \in timers : r = count(t) /\ r.owner = t.owner
      BY <2>1
    <3>2. PICK u \in timers : s = count(u) /\ s.owner = u.owner
      BY <2>1
    <3>3. t = u
      BY <3>1, <3>2 DEF IInv, TimerInv
    <3> QED
      BY <3>1, <3>2, <3>3
  <2>4. drain.pc = "idle" => \A s \in timers' : entries[KeyOf[s.owner]].ev = s.owner
    BY <2>1 DEF IInv, TimerInv
  <2> QED
    BY <1>0, <2>2, <2>3, <2>4 DEF TimerInv
<1>5. DrainInv'
  BY <1>0 DEF IInv, DrainInv, InBuffer
<1> QED
  BY <1>1, <1>3, <1>4, <1>5 DEF IInv

-----------------------------------------------------------------------------
(* The invariant.                                                          *)

\* An empty buffer satisfies the invariant.
LEMMA InitIInv ==
  AggInit => IInv
<1> SUFFICES ASSUME AggInit PROVE IInv
  OBVIOUS
<1>1. TypeOK
  BY InitTypeOK
<1>2. /\ \A k \in Keys : entries[k] = Absent
      /\ \A e \in Events : home[e] = NoEvent
      /\ timers = {} /\ Handed = {} /\ DrainCalls = {} /\ atDrain = {}
      /\ drain.pc = "idle"
  BY DEF AggInit, Handed, DrainCalls
<1> QED
  BY <1>1, <1>2 DEF IInv, EntryInv, HomeInv, BatchInv, PlaceInv, EntryArmed, TimerInv, DrainInv

\* Every step preserves the invariant.
LEMMA StepIInv ==
  IInv /\ [AggNext]_aggVars => IInv'
<1> SUFFICES ASSUME IInv, [AggNext]_aggVars
             PROVE  IInv'
  OBVIOUS
<1>0. TypeOK'
  BY StepTypeOK DEF IInv
<1>1. ASSUME NEW e \in Events, Add(e)
      PROVE  IInv'
  BY <1>0, <1>1, OpenStep, MergeStep DEF Add
<1>2. ASSUME NEW t \in timers, TimerFires(t)
      PROVE  IInv'
  BY <1>0, <1>2, TimerStep
<1>3. CASE DrainBegins
  BY <1>0, <1>3, DrainBeginsStep
<1>4. ASSUME NEW k \in Keys, DrainFires(k)
      PROVE  IInv'
  BY <1>0, <1>4, DrainFiresStep
<1>5. CASE DrainEnds
  BY <1>0, <1>5, DrainEndsStep
<1>6. ASSUME NEW c \in calls, CallReturns(c)
      PROVE  IInv'
  BY <1>0, <1>6, ReturnStep
<1>7. CASE Tick
  BY <1>0, <1>7, TickStep
<1>8. CASE UNCHANGED aggVars
  BY <1>8 DEF aggVars, IInv, TypeOK, EntryInv, HomeInv, BatchInv, PlaceInv, EntryArmed,
              TimerInv, DrainInv, InBuffer, Handed, DrainCalls, Absent, TypesAt
<1> QED
  BY <1>1, <1>2, <1>3, <1>4, <1>5, <1>6, <1>7, <1>8 DEF AggNext, DrainStep

(* The strengthening holds in every reachable state (buffer.go).           *)
THEOREM Invariance == AggSpec => []IInv
<1>1. AggInit => IInv
  BY InitIInv
<1>2. IInv /\ [AggNext]_aggVars => IInv'
  BY StepIInv
<1> QED
  BY <1>1, <1>2, PTL DEF AggSpec

-----------------------------------------------------------------------------
(* What follows from it.                                                   *)

\* The invariant places each alert once.
LEMMA IInvHanded ==
  IInv => HandedOverOnce
<1> SUFFICES ASSUME IInv, NEW e \in Events, home[e] # NoEvent
             PROVE  IF InBuffer(e)
                    THEN /\ entries[KeyOf[e]].types = MemberTypes(home[e])
                         /\ HandedIn(e) = {}
                    ELSE \E c \in HandedIn(e) :
                           /\ HandedIn(e) = {c}
                           /\ c.types = MemberTypes(home[e])
  BY DEF HandedOverOnce, Added
<1>0. TypeOK /\ KeyOf[e] \in Keys
  BY KeyOfAssumption DEF IInv
<1>1. MemberTypes(home[e]) = TypesAt(home, home[e])
  BY DEF MemberTypes, Members, TypesAt
<1>2. CASE InBuffer(e)
  <2>1. entries[KeyOf[e]] # Absent /\ home[e] = entries[KeyOf[e]].ev
    BY <1>0, <1>2, OpenEntry DEF InBuffer
  <2> QED
    BY <1>0, <1>1, <1>2, <2>1 DEF IInv, EntryInv, HandedIn
<1>3. CASE ~InBuffer(e)
  <2>1. PICK c \in Handed : c.ev = home[e]
    BY <1>3 DEF IInv, PlaceInv
  <2>2. HandedIn(e) = {c}
    BY <2>1 DEF IInv, BatchInv, HandedIn
  <2>3. c.types = MemberTypes(home[e])
    BY <1>1, <2>1 DEF IInv, BatchInv
  <2> QED
    BY <1>3, <2>2, <2>3
<1> QED
  BY <1>2, <1>3

(* However adds, timers and Drain interleave, every alert is in the buffer *)
(* or in one batch, with all its types (buffer.go:49-99).                  *)
THEOREM HandedOver == AggSpec => []HandedOverOnce
BY Invariance, IInvHanded, PTL

(* No open entry loses its timer (buffer.go:62).                           *)
THEOREM Armed == AggSpec => []EntryArmed
<1>1. IInv => EntryArmed
  BY DEF IInv
<1> QED
  BY <1>1, Invariance, PTL

(* Drain returns only when its snapshot is out of the buffer and its       *)
(* callbacks are back (buffer.go:70-82).                                   *)
THEOREM Drained == AggSpec => []DrainComplete
<1>1. IInv => DrainComplete
  BY DEF IInv, DrainInv, DrainComplete
<1> QED
  BY <1>1, Invariance, PTL

\* Before Drain, an entry is replaced only by its own expired timer.
LEMMA IInvOwnTimer ==
  ASSUME IInv, IInv', [AggNext]_aggVars, NEW k \in Keys,
         drain.pc = "idle", entries[k] # Absent, entries'[k].ev # entries[k].ev
  PROVE  /\ \E t \in timers \ timers' : t.owner = entries[k].ev /\ t.left = 0
         /\ \A t \in timers' : t.owner # entries[k].ev
<1>0. TypeOK /\ KeyOf \in [Events -> Keys]
  BY KeyOfAssumption DEF IInv
<1>1. ASSUME NEW e \in Events, Add(e)
      PROVE  FALSE
  <2>1. CASE entries[KeyOf[e]] = Absent /\ Open(e)
    BY <1>0, <2>1 DEF Open, TypeOK
  <2>2. CASE entries[KeyOf[e]] # Absent /\ MergeInto(e)
    <3>1. entries[KeyOf[e]] \in Entry
      BY <1>0, <2>2 DEF TypeOK
    <3> QED
      BY <1>0, <2>2, <3>1 DEF MergeInto, TypeOK, Entry
  <2> QED
    BY <1>1, <2>1, <2>2 DEF Add
<1>2. ASSUME NEW t \in timers, TimerFires(t)
      PROVE  /\ \E u \in timers \ timers' : u.owner = entries[k].ev /\ u.left = 0
             /\ \A u \in timers' : u.owner # entries[k].ev
  <2>1. KeyOf[t.owner] \in Keys
    BY <1>0 DEF TypeOK, Timer
  <2>2. KeyOf[t.owner] = k
    BY <1>0, <1>2, <2>1 DEF TimerFires, Fire, TypeOK
  <2>3. t.owner = entries[k].ev
    BY <2>2 DEF IInv, TimerInv
  <2>4. \A u \in timers' : u.owner # t.owner
    BY <1>2 DEF TimerFires, IInv, TimerInv
  <2> QED
    BY <1>2, <2>3, <2>4 DEF TimerFires
<1>3. CASE DrainStep
  BY <1>3 DEF DrainStep, DrainBegins, DrainFires, DrainEnds
<1>4. ASSUME NEW c \in calls, CallReturns(c)
      PROVE  FALSE
  BY <1>4 DEF CallReturns
<1>5. CASE Tick
  BY <1>5 DEF Tick
<1>6. CASE UNCHANGED aggVars
  BY <1>6 DEF aggVars
<1> QED
  BY <1>1, <1>2, <1>3, <1>4, <1>5, <1>6 DEF AggNext

(* Until shutdown no timer but its own ends an entry's merge wait          *)
(* (buffer.go:62, 85-94).                                                  *)
THEOREM OwnTimer == AggSpec => OwnTimerOnly
<1> DEFINE A == \A k \in Keys :
       (drain.pc = "idle" /\ entries[k] # Absent /\ entries'[k].ev # entries[k].ev) =>
         /\ \E t \in timers \ timers' : t.owner = entries[k].ev /\ t.left = 0
         /\ \A t \in timers' : t.owner # entries[k].ev
<1>1. IInv /\ IInv' /\ [AggNext]_aggVars => [A]_aggVars
  BY IInvOwnTimer
<1>2. OwnTimerOnly <=> [][A]_aggVars
  BY DEF OwnTimerOnly
<1> QED
  BY <1>1, <1>2, Invariance, PTL DEF AggSpec

-----------------------------------------------------------------------------
(* The buffer implements BatchDelivery.                                    *)

\* The refinement mapping.
Held    == {e \in Events : InBuffer(e)}
Batches == {[alerts |-> Members(c.ev), types |-> c.types] : c \in Handed}

\* Every alert of a batch is added and out of the buffer.
LEMMA HandedMembers ==
  ASSUME IInv, NEW c \in Handed, NEW e \in Members(c.ev)
  PROVE  home[e] # NoEvent /\ ~InBuffer(e)
<1>1. TypeOK /\ KeyOf[e] \in Keys /\ home[e] = c.ev /\ c.ev \in Events
  BY KeyOfAssumption, HandedEvents DEF IInv, Members
<1>2. home[e] # NoEvent
  BY <1>1, NoEventAssumption
<1>3. ASSUME InBuffer(e)
      PROVE  FALSE
  <2>1. entries[KeyOf[e]] # Absent /\ entries[KeyOf[e]].ev = c.ev
    BY <1>1, <1>3, OpenEntry DEF InBuffer
  <2> QED
    BY <1>1, <2>1 DEF IInv, EntryInv
<1> QED
  BY <1>2, <1>3

\* Adding an alert is accepting it.
LEMMA AddRefines ==
  ASSUME IInv, IInv', NEW e \in Events, Add(e)
  PROVE  Delivery!Accept(e)
<1>0. /\ TypeOK /\ KeyOf \in [Events -> Keys] /\ KeyOf[e] \in Keys
      /\ home[e] = NoEvent /\ Handed' = Handed
  BY KeyOfAssumption DEF IInv, Add, Handed
<1>1. e \notin Held
  BY <1>0 DEF Held, InBuffer
<1>2. \A c \in Handed : e \notin Members(c.ev)
  BY <1>0, HandedMembers
<1>3. e \notin UNION {b.alerts : b \in Batches}
  BY <1>2 DEF Batches
<1>4. /\ \A f \in Events : f # e => home'[f] = home[f]
      /\ InBuffer(e)'
      /\ \A f \in Events : f # e => (InBuffer(f)' <=> InBuffer(f))
  <2>1. CASE entries[KeyOf[e]] = Absent /\ Open(e)
    <3>1. /\ \A f \in Events : home'[f] = IF f = e THEN e ELSE home[f]
          /\ \A f \in Events : home[f] # e
      BY <1>0, <2>1, OpenHome
    <3>2. /\ entries'[KeyOf[e]].ev = e
          /\ \A k \in Keys : k # KeyOf[e] => entries'[k] = entries[k]
      BY <1>0, <2>1 DEF Open, TypeOK
    <3>3. InBuffer(e)'
      BY <3>1, <3>2, NoEventAssumption DEF InBuffer
    <3>4. ASSUME NEW f \in Events, f # e
          PROVE  InBuffer(f)' <=> InBuffer(f)
      <4>1. CASE KeyOf[f] = KeyOf[e]
        BY <1>0, <2>1, <3>1, <3>2, <3>4, <4>1, OpenEntry DEF InBuffer
      <4>2. CASE KeyOf[f] # KeyOf[e]
        BY <1>0, <3>1, <3>2, <3>4, <4>2 DEF InBuffer
      <4> QED
        BY <4>1, <4>2
    <3> QED
      BY <3>1, <3>3, <3>4
  <2>2. CASE entries[KeyOf[e]] # Absent /\ MergeInto(e)
    <3>1. entries[KeyOf[e]] \in Entry /\ entries[KeyOf[e]].ev \in Events
      BY <1>0, <2>2, OpenEntry
    <3>2. /\ \A k \in Keys : entries'[k].ev = entries[k].ev
          /\ \A f \in Events : home'[f] = IF f = e THEN entries[KeyOf[e]].ev ELSE home[f]
      BY <1>0, <2>2, <3>1 DEF MergeInto, TypeOK, Entry
    <3> QED
      BY <1>0, <3>1, <3>2, NoEventAssumption DEF InBuffer
  <2> QED
    BY <2>1, <2>2 DEF Add
<1>5. Held' = Held \cup {e}
  BY <1>4 DEF Held
<1>6. \A c \in Handed : {x \in Events : home'[x] = c.ev} = Members(c.ev)
  <2> SUFFICES ASSUME NEW c \in Handed
               PROVE  home'[e] # c.ev
    BY <1>0, <1>2, <1>4 DEF Members
  <2>1. e \notin {x \in Events : home'[x] = c.ev}
    <3>1. c \in Handed'
      BY <1>0
    <3>2. home'[e] = entries'[KeyOf[e]].ev /\ home'[e] # NoEvent
      BY <1>4 DEF InBuffer
    <3>3. entries'[KeyOf[e]] # Absent
      BY <3>2 DEF Absent
    <3>4. \A d \in Handed' : d.ev # entries'[KeyOf[e]].ev
      BY <1>0, <3>3 DEF IInv, EntryInv, Absent
    <3> QED
      BY <3>1, <3>2, <3>4
  <2> QED
    BY <2>1
<1>7. Batches' = Batches
  BY <1>0, <1>6 DEF Batches, Members
<1> QED
  BY <1>1, <1>3, <1>5, <1>7 DEF Delivery!Accept, Held, Batches

\* Firing a key is handing over what is held under it, or nothing.
LEMMA FireRefines ==
  ASSUME IInv, NEW k \in Keys, NEW who \in {"timer", "drain"}, Fire(k, who),
         UNCHANGED <<home, returned>>
  PROVE  Delivery!HandOver(k) \/ UNCHANGED <<Held, Batches>>
<1>0. TypeOK /\ KeyOf \in [Events -> Keys]
  BY KeyOfAssumption DEF IInv
<1>1. CASE entries[k] = Absent /\ UNCHANGED <<entries, calls>>
  <2>1. Held' = Held
    BY <1>1 DEF Held, InBuffer
  <2>2. Batches' = Batches
    BY <1>1 DEF Batches, Members, Handed
  <2> QED
    BY <2>1, <2>2
<1>2. CASE /\ entries[k] # Absent
           /\ entries' = [entries EXCEPT ![k] = Absent]
           /\ calls' = calls \cup {[ev |-> entries[k].ev, types |-> entries[k].types,
                                    by |-> who]}
  <2> DEFINE h    == entries[k].ev
             mine == {e \in Held : KeyOf[e] = k}
             b    == [ev |-> h, types |-> entries[k].types, by |-> who]
  <2>1. /\ h \in Events /\ KeyOf[h] = k /\ home[h] = h
        /\ entries[k].types = TypesAt(home, h)
    BY <1>0, <1>2, OpenEntry DEF IInv, EntryInv
  <2>2. mine = Members(h)
    <3>1. ASSUME NEW e \in mine PROVE e \in Members(h)
      BY <3>1 DEF Held, InBuffer, Members
    <3>2. ASSUME NEW e \in Members(h) PROVE e \in mine
      <4>1. e \in Events /\ home[e] = h /\ home[e] # NoEvent
        BY <2>1, <3>2, NoEventAssumption DEF Members
      <4>2. KeyOf[e] = k
        BY <2>1, <4>1 DEF IInv, HomeInv
      <4> QED
        BY <4>1, <4>2 DEF Held, InBuffer
    <3> QED
      BY <3>1, <3>2
  <2>3. mine # {}
    BY <2>1, <2>2 DEF Members
  <2>4. Held' = Held \ mine
    <3>1. \A j \in Keys : entries'[j] = IF j = k THEN Absent ELSE entries[j]
      BY <1>0, <1>2 DEF TypeOK
    <3>2. \A e \in Events : InBuffer(e)' <=> InBuffer(e) /\ KeyOf[e] # k
      BY <1>0, <3>1 DEF InBuffer, Absent
    <3> QED
      BY <3>2 DEF Held
  <2>5. entries[k].types = {TypeOf[e] : e \in mine}
    BY <2>1, <2>2 DEF TypesAt, Members
  <2>6. Handed' = Handed \cup {b}
    BY <1>2 DEF Handed
  <2>7. Batches' = Batches \cup {[alerts |-> mine, types |-> {TypeOf[e] : e \in mine}]}
    <3>1. Batches' = {[alerts |-> Members(c.ev), types |-> c.types] : c \in Handed'}
      BY DEF Batches, Members
    <3>2. b.ev = h /\ b.types = entries[k].types
      OBVIOUS
    <3> HIDE DEF b, h, mine
    <3> QED
      BY <2>2, <2>5, <2>6, <3>1, <3>2 DEF Batches
  <2> QED
    BY <2>3, <2>4, <2>7 DEF Delivery!HandOver, Held, Batches
<1> QED
  BY <1>1, <1>2 DEF Fire

\* A step that moves no alert is a stutter of BatchDelivery.
LEMMA StutterRefines ==
  ASSUME UNCHANGED <<entries, home>>, Handed' = Handed
  PROVE  UNCHANGED <<Held, Batches>>
BY DEF Held, InBuffer, Batches, Members

\* Every step of the buffer is one step of BatchDelivery, or a stutter.
LEMMA StepRefines ==
  ASSUME IInv, IInv', [AggNext]_aggVars
  PROVE  Delivery!DeliveryNext \/ UNCHANGED <<Held, Batches>>
<1>0. TypeOK /\ KeyOf \in [Events -> Keys]
  BY KeyOfAssumption DEF IInv
<1>1. ASSUME NEW e \in Events, Add(e)
      PROVE  Delivery!DeliveryNext
  BY <1>1, AddRefines DEF Delivery!DeliveryNext
<1>2. ASSUME NEW t \in timers, TimerFires(t)
      PROVE  Delivery!DeliveryNext \/ UNCHANGED <<Held, Batches>>
  <2>1. KeyOf[t.owner] \in Keys
    BY <1>0 DEF TypeOK, Timer
  <2> QED
    BY <1>2, <2>1, FireRefines DEF TimerFires, Delivery!DeliveryNext
<1>3. ASSUME NEW k \in Keys, DrainFires(k)
      PROVE  Delivery!DeliveryNext \/ UNCHANGED <<Held, Batches>>
  BY <1>3, FireRefines DEF DrainFires, Delivery!DeliveryNext
<1>4. CASE DrainBegins \/ DrainEnds \/ Tick \/ UNCHANGED aggVars
  BY <1>4, StutterRefines DEF DrainBegins, DrainEnds, Tick, aggVars, Handed
<1>5. ASSUME NEW c \in calls, CallReturns(c)
      PROVE  UNCHANGED <<Held, Batches>>
  BY <1>5, StutterRefines DEF CallReturns, Handed
<1> QED
  BY <1>1, <1>2, <1>3, <1>4, <1>5 DEF AggNext, DrainStep

(* The merge buffer, timers, drain loop and all, does what BatchDelivery   *)
(* promises (buffer.go).                                                   *)
THEOREM Refinement == AggSpec => ImplementsDelivery
<1>1. AggInit => Delivery!DeliveryInit
  BY DEF AggInit, Delivery!DeliveryInit, InBuffer, Handed
<1>2. IInv /\ IInv' /\ [AggNext]_aggVars
        => [Delivery!DeliveryNext]_(Delivery!deliveryVars)
  BY StepRefines DEF Held, Batches, Delivery!deliveryVars
<1> QED
  BY <1>1, <1>2, Invariance, PTL DEF AggSpec, ImplementsDelivery, Delivery!DeliverySpec
=============================================================================
