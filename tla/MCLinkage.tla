------------------------------ MODULE MCLinkage ------------------------------
(* TLC instances of Linkage.  a1 and a2 are copies in the two layouts of   *)
(* n9e, a3 is another type of their host and window, without a time of its *)
(* own; a4 is a recovery of another host.  The decoded a1 and a2 are alike.*)
EXTENDS Linkage, TLC, Functions

CONSTANTS a1, a2, a3, a4, h1, h2, nic, mem

Empty == <<>>
NoEvent == [labels |-> Empty, is_recovered |-> FALSE, trigger_time |-> 0]
Bare == [event |-> NoEvent, labels |-> Empty, is_recovered |-> FALSE,
         trigger_time |-> 0, handled |-> 14, authentic |-> TRUE]

Nested(w, labels, time) ==
  [w EXCEPT !.event = [labels |-> labels, is_recovered |-> FALSE, trigger_time |-> time]]
Flat(w, labels, time) == [w EXCEPT !.labels = labels, !.trigger_time = time]

MCPayloadOf == Restrict(
  (a1 :> Nested(Bare, "ident" :> h1 @@ "type" :> nic, 10)) @@
  (a2 :> Flat(Bare, "ident" :> NoText @@ "hostname" :> h1 @@ "type" :> nic, 19)) @@
  (a3 :> Nested(Bare, "host" :> h1 @@ "type" :> mem, 0)) @@
  (a4 :> [Nested(Bare, "ident" :> h2 @@ "type" :> mem, 20) EXCEPT !.event.is_recovered = TRUE]),
  Alerts)

MCAbout == Restrict(
  (a1 :> [host |-> h1, type |-> nic, window |-> 1]) @@
  (a2 :> [host |-> h1, type |-> nic, window |-> 1]) @@
  (a3 :> [host |-> h1, type |-> mem, window |-> 1]) @@ (a4 :> Nothing), Alerts)

MCMerging == {a1, a2, a3}
MCTwoKeys == {a1, a2, a4}
Alike     == Permutations({a1, a2})
=============================================================================
