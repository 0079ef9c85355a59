------------------------------- MODULE Payload -------------------------------
(***************************************************************************)
(* What the webhook reads from a delivery of n9e                           *)
(* (src/linkage/internal/model/model.go and the first half of              *)
(* server.handleWebhook).  Versions of n9e put the fields at the top level *)
(* or under "event"; a delivery has both, with "" and 0 where it says      *)
(* nothing.  Labels are functions on the names a delivery gives.           *)
(***************************************************************************)
EXTENDS Integers

CONSTANTS
  NoText,      \* the empty string
  DedupSeconds \* dedup_minutes * 60, in ticks of the trigger times

ASSUME DedupSecondsAssumption == DedupSeconds \in Nat \ {0}

\* No fallback to the older layout.
LabelsNestedOnly(w) == w.event.labels

\* The nested labels if there are any, whatever they hold.
Labels(w) == IF DOMAIN w.event.labels # {} THEN w.event.labels ELSE w.labels

Label(w, name) == IF name \in DOMAIN Labels(w) THEN Labels(w)[name] ELSE NoText

\* The first of the names n9e and its agents use for the host that is given.
Ident(w) ==
  IF Label(w, "ident") # NoText THEN Label(w, "ident")
  ELSE IF Label(w, "hostname") # NoText THEN Label(w, "hostname")
  ELSE Label(w, "host")

Type(w) == Label(w, "type")

\* The flag of the older layout only.
RecoveredFlatOnly(w) == w.is_recovered

Recovered(w) == w.event.is_recovered \/ w.is_recovered

Time(w) == IF w.event.trigger_time > 0 THEN w.event.trigger_time ELSE w.trigger_time

\* A delivery without a time takes the clock at which it is handled.
Trigger(w) == IF Time(w) = 0 THEN w.handled ELSE Time(w)

\* Go's division rounds towards zero, also a negative time.
Window(w) ==
  IF Trigger(w) < 0 THEN -((-Trigger(w)) \div DedupSeconds) ELSE Trigger(w) \div DedupSeconds

\* What the handler answers before it asks the guard: not a POST with the
\* token and a JSON body, a recovery, no host or no type.
Dismissed(w) ==
  \/ ~w.authentic
  \/ Recovered(w)
  \/ Ident(w) = NoText
  \/ Type(w) = NoText
=============================================================================
