------------------------------ MODULE LogSearch ------------------------------
(***************************************************************************)
(* The evidence of an in-process analysis: how Processor.run finds the     *)
(* address of the host (resolve.go), fetches its log lines from the search *)
(* index (es.go) and merges them for the model (aggregate.go).             *)
(*                                                                         *)
(* The two queries are made one after the other against an index that      *)
(* still takes in lines of the window.  A line is a document with the file *)
(* it came from, its text, whether the text names the host, and the        *)
(* keywords it contains.                                                   *)
(***************************************************************************)
EXTENDS Integers, Sequences, FiniteSets, SequencesExt

CONSTANTS
  Sources,      \* log files in the index
  IPs, NoIP,    \* addresses; NoIP where a file name holds none
  IPOf,         \* the address in the name of each file
  Types, Words, \* alert types, keywords
  TypeKeywords, \* es.type_keywords: the keywords configured for each type
  Batches,      \* sets of types an alert may be merged from
  Messages,     \* texts of lines
  Shown,        \* texts after truncation
  Cut,          \* truncation to max_chars_per_line
  Docs,         \* documents
  MaxLines,     \* window.max_lines
  MaxBuckets,   \* groups a query returns, 10 in the code
  MaxDocs       \* bound: documents in the window

ASSUME LogSearchAssumption ==
  /\ NoIP \notin IPs
  /\ IPOf \in [Sources -> IPs \cup {NoIP}]
  /\ TypeKeywords \in [Types -> SUBSET Words]
  /\ Batches \subseteq SUBSET Types
  /\ Cut \in [Messages -> Shown]
  /\ Docs \subseteq [src : Sources, msg : Messages, names : BOOLEAN, words : SUBSET Words]
  /\ {MaxLines, MaxBuckets} \subseteq Nat \ {0}
  /\ MaxDocs \in Nat

VARIABLES
  types,     \* the types of the alert
  window,    \* the documents of the time window, oldest first
  inventory, \* resolve.inventory's entry for the host, or NoIP
  step,      \* where the attempt is
  ip,        \* the address found
  hits,      \* what Search returned
  list       \* what Aggregate makes of it: texts and their counts

logVars == <<types, window, inventory, step, ip, hits, list>>

Steps == {"resolve", "search", "aggregate", "done", "no ip", "no hits"}

LogTypeOK ==
  /\ types \in Batches
  /\ window \in Seq(Docs) /\ hits \in Seq(Docs)
  /\ inventory \in IPs \cup {NoIP} /\ ip \in IPs \cup {NoIP}
  /\ step \in Steps
  /\ list \in Seq([msg : Shown, n : 1 .. MaxDocs])

LogInit ==
  /\ types \in Batches
  /\ window = <<>> /\ hits = <<>> /\ list = <<>>
  /\ inventory \in IPs \cup {NoIP}
  /\ step = "resolve"
  /\ ip = NoIP

-----------------------------------------------------------------------------
\* The log pipeline in front of the index.
Ingest ==
  /\ step \in {"resolve", "search"} /\ Len(window) < MaxDocs
  /\ \E d \in Docs : window' = Append(window, d)
  /\ UNCHANGED <<types, inventory, step, ip, hits, list>>

\* Those of all types of the alert; none if none of them has any configured.
Keywords == UNION {TypeKeywords[t] : t \in types}

HasKeyword(d) == d.words \cap Keywords # {}

(* ReverseSearch: the documents with the host's name or a keyword, grouped *)
(* by file, the largest MaxBuckets groups; resolve takes the first address *)
(* a file name gives.  Groups of one size come in an order of their own.   *)
Bucket(s) ==
  {i \in DOMAIN window : window[i].src = s /\ (window[i].names \/ HasKeyword(window[i]))}

Larger(s) == {t \in Sources : Cardinality(Bucket(t)) > Cardinality(Bucket(s))}

Buckets ==
  LET matching == {s \in Sources : Bucket(s) # {}}
  IN  {B \in SUBSET matching :
         /\ Cardinality(B) = Min({MaxBuckets, Cardinality(matching)})
         /\ \A s \in B : Larger(s) \subseteq B}

First(B) == {IPOf[s] : s \in {t \in B :
               /\ IPOf[t] # NoIP
               /\ \A u \in B : IPOf[u] # NoIP => u \notin Larger(t)}}

Resolve ==
  /\ step = "resolve"
  /\ \/ inventory # NoIP /\ ip' = inventory /\ step' = "search"
     \/ /\ inventory = NoIP
        /\ \E B \in Buckets :
             \/ ip' \in First(B) /\ step' = "search"
             \/ First(B) = {} /\ step' = "no ip" /\ UNCHANGED ip
  /\ UNCHANGED <<types, window, inventory, hits, list>>

\* Without keywords every line of the address.
OfHost(d) == IPOf[d.src] = ip /\ (Keywords # {} => HasKeyword(d))

\* At most MaxLines documents of the address, the newest first.
NewestFirst(l, d) == IF OfHost(d) THEN <<d>> \o l ELSE l

Newest == LET of == FoldLeft(NewestFirst, <<>>, window)
          IN  SubSeq(of, 1, Min({Len(of), MaxLines}))

Search ==
  /\ step = "search"
  /\ hits' = Newest
  /\ step' = IF Newest = <<>> THEN "no hits" ELSE "aggregate"
  /\ UNCHANGED <<types, window, inventory, ip, list>>

-----------------------------------------------------------------------------
(* Aggregate.                                                              *)

CountedFrom(n0, l, m) ==
  IF \E i \in DOMAIN l : l[i].msg = m
  THEN [i \in DOMAIN l |-> IF l[i].msg = m THEN [l[i] EXCEPT !.n = @ + 1] ELSE l[i]]
  ELSE Append(l, [msg |-> m, n |-> n0])

\* A new text counted from zero.
CountedFromZero(l, hit) == CountedFrom(0, l, Cut[hit.msg])

Counted(l, hit) == CountedFrom(1, l, Cut[hit.msg])

\* Equal counts in the reverse of their order.
PlaceUnstable(s, a) ==
  InsertAt(s, Cardinality({i \in DOMAIN s : s[i].n > a.n}) + 1, a)

\* A stable sort by descending count, as insertion of one line after another.
Place(s, a) ==
  InsertAt(s, Cardinality({i \in DOMAIN s : s[i].n >= a.n}) + 1, a)

Ranked == FoldLeft(Place, <<>>, FoldLeft(Counted, <<>>, hits))

Aggregate ==
  /\ step = "aggregate"
  /\ list' = SubSeq(Ranked, 1, Min({Len(Ranked), MaxLines}))
  /\ step' = "done"
  /\ UNCHANGED <<types, window, inventory, ip, hits>>

LogNext == Ingest \/ Resolve \/ Search \/ Aggregate

LogSpec == LogInit /\ [][LogNext]_logVars

-----------------------------------------------------------------------------
(* Properties.                                                             *)

\* The lines an alert is about: with a keyword of a type of its, or all lines
\* of the host if it has no keyword to tell them by.
About(d) ==
  IPOf[d.src] = ip /\ \/ \E t \in types : d.words \cap TypeKeywords[t] # {}
                      \/ \A t \in types : TypeKeywords[t] = {}

OfHostIn     == {i \in DOMAIN window : About(window[i])}
Fetched      == {i \in OfHostIn : Cardinality({j \in OfHostIn : j > i}) < MaxLines}
With(S, m)   == {i \in S : Cut[window[i].msg] = m}
Latest(S, m) == CHOOSE i \in With(S, m) : \A j \in With(S, m) : j <= i
Texts(S)     == {Cut[window[i].msg] : i \in S}

\* m comes before o: it is more frequent, or as frequent and seen later.
Precedes(m, o) ==
  LET a == Cardinality(With(Fetched, m))
      b == Cardinality(With(Fetched, o))
  IN  a > b \/ (a = b /\ Latest(Fetched, m) > Latest(Fetched, o))

(* What the model is shown is determined by the lines of the index alone:  *)
(* each truncated text of the newest MaxLines lines of the located host    *)
(* once, with the number of those lines it stands for, the frequent ones   *)
(* first and of equally frequent ones the latest first.  Lines that only   *)
(* truncation makes equal are merged, lines of other hosts never counted,  *)
(* the sort keeps the order of equals, and a host is said to have no lines *)
(* only if there were none (es.go:80-172, aggregate.go:24-59).             *)
EvidenceRanked ==
  /\ step = "no hits" => Fetched = {}
  /\ step = "done" =>
    /\ {list[i].msg : i \in DOMAIN list} = Texts(Fetched)
    /\ Len(list) = Cardinality(Texts(Fetched))
    /\ \A i \in DOMAIN list : list[i].n = Cardinality(With(Fetched, list[i].msg))
    /\ \A i, j \in DOMAIN list : i < j => Precedes(list[i].msg, list[j].msg)

(* ReverseSearch is documented to match messages that contain the host     *)
(* name and hit a keyword (es.go:174): the address it gives belongs to a   *)
(* file with such a line.                                                  *)
LocatedByName ==
  (inventory = NoIP /\ ip # NoIP) =>
    \E i \in DOMAIN window :
      IPOf[window[i].src] = ip /\ window[i].names /\ HasKeyword(window[i])
=============================================================================
