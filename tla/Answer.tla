-------------------------------- MODULE Answer --------------------------------
(***************************************************************************)
(* How the text a model answers becomes an opinion: Client.Analyze and     *)
(* extractJSON (src/linkage/internal/llm/llm.go).  Models wrap the object  *)
(* they were asked for in thoughts, prose and code fences.                 *)
(*                                                                         *)
(* An answer is a sequence of pieces: a well-typed JSON object ("obj"),    *)
(* one with a field of the wrong type ("odd"), any other JSON value        *)
(* ("list", without braces), a stray brace, a code fence with its language,*)
(* an end of thoughts ("mark" as the code spells the first two tags,       *)
(* "think" the third), and text that is none of these.  Left out: arrays   *)
(* of objects, and fences or tags inside a string of an object.            *)
(***************************************************************************)
EXTENDS Naturals, Sequences

Pieces == {"obj", "odd", "list", "open", "close", "fence", "mark", "think", "text"}

Json   == {"obj", "odd", "list"}
Opens  == {"obj", "odd", "open"}    \* pieces that begin with a brace
Closes == {"obj", "odd", "close"}   \* pieces that end with one

At(a, kinds) == {i \in DOMAIN a : a[i] \in kinds}

\* Candidate 1: the JSON value between the last two fences.
Fenced(a) ==
  {i \in At(a, Json) : /\ {i - 1, i + 1} \subseteq At(a, {"fence"})
                       /\ \A f \in At(a, {"fence"}) : f <= i + 1}

\* Candidate 2: what follows the last end of thoughts, of the first kind found.
Spoken(a) ==
  LET marks == At(a, {"mark"})
      ends  == IF marks # {} THEN marks ELSE At(a, {"think"})
  IN  {i \in DOMAIN a : \A e \in ends : e < i}

\* Only the first opening brace tried.
EmbeddedAtFirst(a) ==
  {i \in Spoken(a) \cap At(a, Opens \cap Json) :
     /\ \A j \in Spoken(a) \cap At(a, Closes) : j <= i
     /\ \A j \in Spoken(a) \cap At(a, Opens) : i <= j}

\* Candidate 3: from some opening brace to the last closing one.
Embedded(a) ==
  {i \in Spoken(a) \cap At(a, Opens \cap Json) :
     \A j \in Spoken(a) \cap At(a, Closes) : j <= i}

\* The piece an opinion is decoded from, if any.
Extracted(a) == IF Fenced(a) # {} THEN Fenced(a) ELSE Embedded(a)

Source(a) == IF a = <<"obj">> THEN {1} ELSE Extracted(a)

\* The whole text becomes the conclusion.
Raw(a) == \A i \in Source(a) : a[i] # "obj"
=============================================================================
