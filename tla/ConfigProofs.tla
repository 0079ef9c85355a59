----------------------------- MODULE ConfigProofs -----------------------------
(***************************************************************************)
(* What a configuration that was loaded guarantees, whatever integers the  *)
(* file holds: the limits the other modules take as assumptions on their   *)
(* constants.                                                              *)
(***************************************************************************)
EXTENDS Config, TLAPS

\* Overriding and clamping keep a configuration one.
LEMMA LoadedSettings ==
  ASSUME NEW file \in ConfigFiles, NEW env, NEW c \in Loaded(file, env)
  PROVE  /\ c \in Settings
         /\ \A n \in Numbers : c.num[n] >= Least(n)
         /\ Complete(c)
<1> DEFINE d == Decoded(file)
           o == Overridden(d, env)
<1>1. DefaultNum \in [Numbers -> Int] /\ \A n \in Numbers : DefaultNum[n] >= Least(n)
  BY DEF DefaultNum, Numbers, Least
<1>2. d \in Settings
  BY <1>1 DEF Decoded, ConfigFiles, Settings, DefaultTexts, Texts
<1>3. o \in Settings
  BY <1>2 DEF Overridden, Settings, Texts
<1>4. c = Clamped(o) /\ Complete(c)
  BY DEF Loaded
<1>5. \A n \in Numbers : o.num[n] \in Int /\ Least(n) \in Int
  BY <1>3 DEF Settings, Least
<1>6. c = [o EXCEPT !.num = [n \in Numbers |-> IF o.num[n] < Least(n) THEN DefaultNum[n] ELSE o.num[n]]]
  BY <1>4 DEF Clamped
<1>7. c \in Settings /\ \A n \in Numbers :
        c.num[n] = IF o.num[n] < Least(n) THEN DefaultNum[n] ELSE o.num[n]
  BY <1>1, <1>3, <1>6 DEF Settings
<1>8. \A n \in Numbers : c.num[n] >= Least(n)
  BY <1>1, <1>5, <1>7
<1> QED
  BY <1>4, <1>7, <1>8

\* A loaded configuration has a positive ttl, merge time, line limits, number
\* of slots and timeouts, a look-back that is not negative, a token, and the
\* back end of its mode: nothing the service divides by, waits for or counts
\* with is zero (config.go:98-140).
THEOREM LimitsHold ==
  ASSUME NEW file \in ConfigFiles, NEW env, NEW c \in Loaded(file, env)
  PROVE  /\ \A n \in Numbers \ {"esLookbackMin"} : c.num[n] \in Nat \ {0}
         /\ c.num["esLookbackMin"] \in Nat
         /\ "token" \in c.texts
         /\ c.agent => "executorURL" \in c.texts
         /\ ~c.agent => {"esAddr", "esIndex", "llmURL", "llmModel"} \subseteq c.texts
<1>1. c \in Settings /\ Complete(c) /\ \A n \in Numbers : c.num[n] >= Least(n)
  BY LoadedSettings
<1>2. \A n \in Numbers : c.num[n] \in Int
  BY <1>1 DEF Settings
<1>3. \A n \in Numbers \ {"esLookbackMin"} : c.num[n] \in Nat \ {0}
  BY <1>1, <1>2 DEF Least
<1>4. c.num["esLookbackMin"] \in Nat
  BY <1>1, <1>2 DEF Least, Numbers
<1> QED
  BY <1>1, <1>3, <1>4 DEF Complete
=============================================================================
