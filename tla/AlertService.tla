----------------------------- MODULE AlertService -----------------------------
(***************************************************************************)
(* What the linkage service promises about alerts, without buffers, timers,*)
(* locks or analysis slots: a delivery is accepted, skipped or dismissed.  *)
(* It is skipped only for a copy that was accepted, dismissed only if it   *)
(* reports nothing to analyse, and what was accepted is analysed once,     *)
(* together with other accepted alerts of its host and window.             *)
(***************************************************************************)
EXTENDS Naturals

CONSTANTS
  Alerts,  \* deliveries
  About,   \* the host, type and window each reports, or Nothing
  Nothing

VARIABLES pending, analysed, skipped, dismissed

serviceVars == <<pending, analysed, skipped, dismissed>>

ServiceInit == pending = {} /\ analysed = {} /\ skipped = {} /\ dismissed = {}

Unseen(a)   == a \notin pending \cup analysed \cup skipped \cup dismissed
SameHost(B) == \A a, b \in B : About[a].host = About[b].host /\ About[a].window = About[b].window

Accepts(a) ==
  /\ Unseen(a) /\ About[a] # Nothing
  /\ pending' = pending \cup {a}
  /\ UNCHANGED <<analysed, skipped, dismissed>>

Skips(a) ==
  /\ Unseen(a)
  /\ \E b \in pending \cup analysed : About[b] = About[a]
  /\ skipped' = skipped \cup {a}
  /\ UNCHANGED <<pending, analysed, dismissed>>

Dismisses(a) ==
  /\ Unseen(a) /\ About[a] = Nothing
  /\ dismissed' = dismissed \cup {a}
  /\ UNCHANGED <<pending, analysed, skipped>>

Analyses(B) ==
  /\ B # {} /\ SameHost(B)
  /\ pending' = pending \ B
  /\ analysed' = analysed \cup B
  /\ UNCHANGED <<skipped, dismissed>>

ServiceNext ==
  \/ \E a \in Alerts : Accepts(a) \/ Skips(a) \/ Dismisses(a)
  \/ \E B \in SUBSET pending : Analyses(B)

ServiceSpec == ServiceInit /\ [][ServiceNext]_serviceVars
=============================================================================
