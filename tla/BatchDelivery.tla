---------------------------- MODULE BatchDelivery ----------------------------
(***************************************************************************)
(* What the merge buffer promises, without timers, entries or a drain      *)
(* loop: accepted alerts are held, and one atomic hand-over gives all the  *)
(* held alerts of one key, and all their types, to the analysis.  No alert *)
(* is handed over twice, none is dropped, and none is left behind by a     *)
(* hand-over of its key.                                                   *)
(***************************************************************************)
EXTENDS Naturals

CONSTANTS Events, Keys, KeyOf, TypeOf

VARIABLES
  held,    \* accepted and not handed over
  batches  \* the hand-overs so far

deliveryVars == <<held, batches>>

DeliveryInit == held = {} /\ batches = {}

Accept(e) ==
  /\ e \notin held \cup UNION {b.alerts : b \in batches}
  /\ held' = held \cup {e}
  /\ UNCHANGED batches

HandOver(k) ==
  LET mine == {e \in held : KeyOf[e] = k}
  IN  /\ mine # {}
      /\ held' = held \ mine
      /\ batches' = batches \cup
           {[alerts |-> mine, types |-> {TypeOf[e] : e \in mine}]}

DeliveryNext == (\E e \in Events : Accept(e)) \/ (\E k \in Keys : HandOver(k))

DeliverySpec == DeliveryInit /\ [][DeliveryNext]_deliveryVars
=============================================================================
