-------------------------------- MODULE Config --------------------------------
(***************************************************************************)
(* The configuration of the linkage service                                *)
(* (src/linkage/internal/config/config.go): a JSON file read over the      *)
(* defaults, secrets taken from the environment, then repaired or refused. *)
(* Of a text only whether it is empty matters.  A file that cannot be read *)
(* or decoded, or has an unknown field, loads nothing.                     *)
(***************************************************************************)
EXTENDS Integers

\* Default: the numbers of "window" and the timeouts in seconds.
DefaultNum ==
  [dedupMinutes |-> 10, mergeSeconds |-> 60, esLookbackMin |-> 10, maxLines |-> 50,
   maxCharsPerLine |-> 200, maxConcurrent |-> 5, llmTimeout |-> 30, agentTimeout |-> 120]

DefaultTexts == {"esIndex"}

Numbers == {"dedupMinutes", "mergeSeconds", "esLookbackMin", "maxLines",
            "maxCharsPerLine", "maxConcurrent", "llmTimeout", "agentTimeout"}

\* What the environment may override.
Secrets == {"token", "esPass", "llmKey", "wecomURL", "smtpPass", "uniproToken"}

Texts == Secrets \cup {"esAddr", "esIndex", "llmURL", "llmModel", "executorURL",
                       "smtpHost", "uniproURL"}

\* A loaded configuration: its numbers, the texts that are not empty.
Settings == [num : [Numbers -> Int], texts : SUBSET Texts, agent : BOOLEAN]

\* A file: the fields it gives, their numbers, the texts that are not empty.
ConfigFiles ==
  [given : SUBSET (Numbers \cup Texts), num : [Numbers -> Int],
   texts : SUBSET Texts, agent : BOOLEAN]

\* Default, under what the file gives.
Decoded(file) ==
  [num   |-> [n \in Numbers |-> IF n \in file.given THEN file.num[n] ELSE DefaultNum[n]],
   texts |-> (file.texts \cap file.given) \cup (DefaultTexts \ file.given),
   agent |-> file.agent]

\* overrideFromEnv: a variable that is set and not empty.
Overridden(c, env) == [c EXCEPT !.texts = @ \cup (env \cap Secrets)]

\* Timeouts of zero let through: a client with such a timeout waits for ever.
LeastAllowsZero(n) == IF n \in {"esLookbackMin", "llmTimeout", "agentTimeout"} THEN 0 ELSE 1

Least(n) == IF n = "esLookbackMin" THEN 0 ELSE 1

\* sanitize: no zero where the service divides, waits, counts or times out.
Clamped(c) ==
  [c EXCEPT !.num =
     [n \in Numbers |-> IF c.num[n] < Least(n) THEN DefaultNum[n] ELSE c.num[n]]]

\* sanitize: the token, and a back end to analyse with.
Complete(c) ==
  /\ "token" \in c.texts
  /\ IF c.agent THEN "executorURL" \in c.texts
                ELSE {"esAddr", "esIndex", "llmURL", "llmModel"} \subseteq c.texts

\* Load: the configuration, or none where main ends with an error.
Loaded(file, env) ==
  {c \in {Clamped(Overridden(Decoded(file), env))} : Complete(c)}
=============================================================================
