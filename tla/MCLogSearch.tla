----------------------------- MODULE MCLogSearch -----------------------------
(* TLC instances of LogSearch: two hosts and a file without an address     *)
(* whose lines all name the host; other lines name it, have the keyword or *)
(* neither.  m1 and m2 differ only beyond the truncation; no keyword is    *)
(* configured for the type t2.                                             *)
EXTENDS LogSearch, TLC

CONSTANTS s1, s2, s3, ip1, ip2, m1, m2, m3, short, other, t1, t2, w

MCIPOf     == [s \in Sources |-> CASE s = s1 -> ip1 [] s = s2 -> ip2 [] OTHER -> NoIP]
MCCut      == [m \in Messages |-> IF m = m3 THEN other ELSE short]
MCKeywords == [t \in Types |-> IF t = t1 THEN {w} ELSE {}]
MCDocs     == {d \in [src : {s1, s2}, msg : Messages, names : BOOLEAN, words : SUBSET Words] :
                 ~d.names \/ d.words = {}}
                \cup [src : {s3}, msg : {m3}, names : {TRUE}, words : {{}}]

\* The hosts with their files, and the texts of equal truncation, are alike.
SwapHosts == (s1 :> s2) @@ (s2 :> s1) @@ (ip1 :> ip2) @@ (ip2 :> ip1)
SwapTexts == (m1 :> m2) @@ (m2 :> m1)
Alike     == {SwapHosts, SwapTexts, SwapHosts @@ SwapTexts}
=============================================================================
