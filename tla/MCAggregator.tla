---------------------------- MODULE MCAggregator ----------------------------
(* TLC instance of Aggregator: four alerts, three of them of one key.          *)
EXTENDS Aggregator, TLC

CONSTANTS e1, e2, e3, e4, k1, k2, nic, mem

MCEvents == {e1, e2, e3, e4}
MCKeyOf  == (e1 :> k1) @@ (e2 :> k1) @@ (e3 :> k1) @@ (e4 :> k2)
MCTypeOf == (e1 :> nic) @@ (e2 :> mem) @@ (e3 :> nic) @@ (e4 :> mem)
=============================================================================
