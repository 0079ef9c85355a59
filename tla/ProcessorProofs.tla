--------------------------- MODULE ProcessorProofs ---------------------------
(***************************************************************************)
(* Proofs about one analysis, for any channels and any number of attempts. *)
(*                                                                         *)
(* That a success shows one attempt only rests on what each stage knows of *)
(* the shared report: until an attempt ends the analysis the report has    *)
(* not failed, and the fields of the stages this attempt has passed are    *)
(* its own, whatever an earlier attempt left in them.                      *)
(***************************************************************************)
EXTENDS Processor, ConfigProofs, TLAPS

InAttempt == {"resolve", "search", "analyze"}

\* What an attempt under way has put into the report.
AttemptInv ==
  /\ pc = "agent" => cfg.agent
  /\ pc \in InAttempt => ~cfg.agent /\ ~report.failed /\ report.err = "none"
  /\ pc \in {"search", "analyze"} => report.ip = attempt
  /\ pc = "analyze" => report.lines = attempt

\* Calls made so far: one per attempt that reached the model.
AskedInv ==
  /\ pc \in {"start", "agent"} => asked = 0
  /\ pc \in InAttempt => asked < attempt
  /\ asked <= Retries

\* Before the first stage the report is blank.
StartInv == pc = "start" => report = Blank /\ attempt = 1

\* While Send runs, the errors are the failed channels; none has been tried before.
ChannelInv ==
  /\ pc \notin {"send", "done"} => errs = {} /\ \A c \in Channels : chan[c] \in {"off", "idle"}
  /\ pc = "send" => \A c \in Channels : chan[c] # "idle"
  /\ errs = {c \in Channels : chan[c] = "failed"}

PInv == ProcTypeOK /\ AttemptInv /\ AskedInv /\ StartInv /\ ChannelInv
          /\ SuccessIsOfOneAttempt /\ EveryChannelTried

-----------------------------------------------------------------------------
\* A report stays one when a stage marks it or a failure is entered.
LEMMA Marked ==
  ASSUME ProcTypeOK
  PROVE  /\ [report EXCEPT !.ip = attempt] \in Reports
         /\ [report EXCEPT !.lines = attempt] \in Reports
         /\ [report EXCEPT !.llm = attempt] \in Reports
         /\ \A reason \in {"backend", "no ip", "no hits", "agent"} :
              /\ [report EXCEPT !.failed = TRUE, !.err = reason] \in Reports
              /\ [report EXCEPT !.failed = TRUE, !.err = reason].failed
<1>1. attempt \in 0 .. Retries /\ report \in Reports
  BY ProcessorAssumption DEF ProcTypeOK
<1> QED
  BY <1>1 DEF Reports

\* A new analysis has done nothing.
LEMMA ProcInitInv ==
  ProcInit => PInv
<1> SUFFICES ASSUME ProcInit PROVE PInv
  OBVIOUS
<1>1. ProcTypeOK
  <2>1. cfg \in Settings
    BY LoadedSettings, ProcessorAssumption DEF ProcInit
  <2>2. chan \in [Channels -> {"off", "idle", "sending", "sent", "failed"}]
    BY DEF ProcInit, Multi
  <2> QED
    BY <2>1, <2>2, ProcessorAssumption DEF ProcInit, ProcTypeOK, Blank, Reports, Stages
<1>2. AttemptInv /\ AskedInv /\ StartInv
  BY ProcessorAssumption DEF ProcInit, AttemptInv, AskedInv, StartInv, InAttempt
<1>3. ChannelInv /\ SuccessIsOfOneAttempt /\ EveryChannelTried
  BY DEF ProcInit, Multi, ChannelInv, SuccessIsOfOneAttempt, EveryChannelTried
<1> QED
  BY <1>1, <1>2, <1>3 DEF PInv

\* A step of the analysis proper leaves the channels alone.
LEMMA ChannelsKept ==
  ASSUME PInv, pc \notin {"send", "done"}, pc' \notin {"send", "done"},
         UNCHANGED <<chan, errs>>
  PROVE  ChannelInv' /\ EveryChannelTried'
BY DEF PInv, ChannelInv, EveryChannelTried

\* A failed attempt is followed by another one or by a failed report.
LEMMA TryAgainStep ==
  ASSUME PInv, pc \in InAttempt, TryAgain, UNCHANGED <<cfg, answer, chan, errs>>,
         asked' \in Nat, asked' <= attempt
  PROVE  PInv'
<1>0. /\ attempt \in 1 .. Retries /\ Retries \in Nat
      /\ ProcTypeOK /\ ~cfg.agent /\ ~report.failed /\ report.err = "none"
  BY ProcessorAssumption DEF PInv, ProcTypeOK, AttemptInv
<1>1. CASE attempt < Retries /\ attempt' = attempt + 1 /\ Goto("resolve") /\ UNCHANGED report
  <2>0. attempt + 1 \in 1 .. Retries /\ "resolve" \in Stages
    BY <1>0, <1>1 DEF Stages
  <2>1. ProcTypeOK'
    BY <1>0, <1>1, <2>0 DEF ProcTypeOK, Goto
  <2>2. AttemptInv' /\ AskedInv' /\ StartInv' /\ SuccessIsOfOneAttempt'
    BY <1>0, <1>1 DEF AttemptInv, AskedInv, StartInv, SuccessIsOfOneAttempt, InAttempt, Goto
  <2>3. ChannelInv' /\ EveryChannelTried'
    BY <1>1, ChannelsKept DEF InAttempt, Goto
  <2> QED
    BY <2>1, <2>2, <2>3 DEF PInv
<1>2. CASE /\ attempt = Retries
           /\ report' = [report EXCEPT !.failed = TRUE, !.err = "backend"]
           /\ Goto("finish")
           /\ UNCHANGED attempt
  <2>0. report'.failed
    BY <1>0, <1>2, Marked
  <2>1. ProcTypeOK'
    BY <1>0, <1>2, Marked DEF ProcTypeOK, Goto, Stages
  <2>2. AttemptInv' /\ AskedInv' /\ StartInv' /\ SuccessIsOfOneAttempt'
    BY <1>0, <1>2, <2>0 DEF AttemptInv, AskedInv, StartInv, SuccessIsOfOneAttempt, InAttempt, Goto
  <2>3. ChannelInv' /\ EveryChannelTried'
    BY <1>2, ChannelsKept DEF InAttempt, Goto
  <2> QED
    BY <2>1, <2>2, <2>3 DEF PInv
<1> QED
  BY <1>0, <1>1, <1>2 DEF TryAgain, MoreAttempts

\* An analysis that ends with a reason ends with a failed report.
LEMMA EndWithStep ==
  ASSUME PInv, pc \in InAttempt, NEW reason \in {"no ip", "no hits"}, EndWith(reason),
         UNCHANGED <<cfg, answer, chan, errs, asked>>
  PROVE  PInv'
<1>0. /\ attempt \in 1 .. Retries /\ ProcTypeOK
      /\ report' = [report EXCEPT !.failed = TRUE, !.err = reason]
      /\ report'.failed
      /\ pc' = "finish" /\ attempt' = attempt
  BY Marked DEF PInv, ProcTypeOK, EndWith, Goto
<1>1. ProcTypeOK'
  BY <1>0, Marked DEF PInv, ProcTypeOK, Stages
<1>2. AttemptInv' /\ AskedInv' /\ StartInv' /\ SuccessIsOfOneAttempt'
  BY <1>0 DEF PInv, AttemptInv, AskedInv, StartInv, SuccessIsOfOneAttempt, InAttempt
<1>3. ChannelInv' /\ EveryChannelTried'
  BY <1>0, ChannelsKept DEF InAttempt
<1> QED
  BY <1>1, <1>2, <1>3 DEF PInv

\* A stage that succeeds marks its field with the attempt.
LEMMA StageStep ==
  ASSUME PInv,
         \/ /\ pc = "resolve" /\ report' = [report EXCEPT !.ip = attempt] /\ pc' = "search"
            /\ asked' = asked
         \/ /\ pc = "search" /\ report' = [report EXCEPT !.lines = attempt] /\ pc' = "analyze"
            /\ asked' = asked
         \/ /\ pc = "analyze" /\ report' = [report EXCEPT !.llm = attempt] /\ pc' = "finish"
            /\ asked' = asked + 1,
         answer' \in Answers \cup {<<>>},
         UNCHANGED <<cfg, attempt, chan, errs>>
  PROVE  PInv'
<1>0. /\ attempt \in 1 .. Retries /\ Retries \in Nat /\ ProcTypeOK /\ asked \in Nat
      /\ asked < attempt /\ ~cfg.agent /\ ~report.failed /\ report.err = "none"
  BY ProcessorAssumption DEF PInv, ProcTypeOK, AttemptInv, AskedInv, InAttempt
<1>1. /\ report'.failed = report.failed /\ report'.err = report.err
      /\ pc \in {"search", "analyze"} => report'.ip = report.ip
      /\ pc = "analyze" => report'.lines = report.lines
      /\ pc = "resolve" => report'.ip = attempt
      /\ pc = "search" => report'.lines = attempt
      /\ pc = "analyze" => report'.llm = attempt
  BY <1>0 DEF ProcTypeOK, Reports
<1>2. ProcTypeOK'
  <2>1. report' \in Reports
    BY <1>0, Marked
  <2>2. pc' \in Stages /\ asked' \in Nat
    BY <1>0 DEF Stages
  <2> QED
    BY <1>0, <2>1, <2>2 DEF ProcTypeOK
<1>3. AttemptInv'
  BY <1>0, <1>1 DEF PInv, AttemptInv, InAttempt
<1>6. SuccessIsOfOneAttempt'
  BY <1>0, <1>1 DEF PInv, AttemptInv, SuccessIsOfOneAttempt, InAttempt
<1>4. AskedInv' /\ StartInv'
  BY <1>0 DEF AskedInv, StartInv, InAttempt
<1>5. ChannelInv' /\ EveryChannelTried'
  BY ChannelsKept
<1> QED
  BY <1>2, <1>3, <1>4, <1>5, <1>6 DEF PInv

\* The agent's report replaces the local one.
LEMMA AgentStep ==
  ASSUME PInv, RunAgent
  PROVE  PInv'
<1>0. /\ attempt \in 1 .. Retries /\ ProcTypeOK /\ cfg.agent /\ asked = 0
      /\ pc = "agent" /\ pc' = "finish"
      /\ UNCHANGED <<cfg, attempt, answer, chan, errs>>
      /\ asked' = asked + 1
  BY DEF PInv, ProcTypeOK, AskedInv, AttemptInv, RunAgent, Goto
<1>1. asked' = 1 /\ 1 <= Retries /\ Retries \in Nat
  BY <1>0, ProcessorAssumption
<1>2. report' \in Reports
  <2>1. ASSUME NEW r \in AgentReports
        PROVE  r \in Reports
    <3>1. PICK found \in {0, 1}, f \in BOOLEAN :
            r = [ip |-> found, lines |-> found, llm |-> 1, failed |-> f, err |-> "none"]
      BY DEF AgentReports
    <3>2. found \in 0 .. Retries /\ 1 \in 0 .. Retries
      BY <1>1
    <3> QED
      BY <3>1, <3>2 DEF Reports
  <2> QED
    BY <1>0, <2>1, Marked DEF RunAgent
<1>3. ProcTypeOK'
  BY <1>0, <1>1, <1>2 DEF ProcTypeOK, Stages
<1>4. AttemptInv' /\ AskedInv' /\ StartInv' /\ SuccessIsOfOneAttempt'
  BY <1>0, <1>1 DEF AttemptInv, AskedInv, StartInv, SuccessIsOfOneAttempt, InAttempt
<1>5. ChannelInv' /\ EveryChannelTried'
  BY <1>0, ChannelsKept
<1> QED
  BY <1>3, <1>4, <1>5 DEF PInv

\* Finish marks every configured channel as sending, or there is none.
LEMMA FinishStep ==
  ASSUME PInv, Finish
  PROVE  PInv'
<1>0. /\ pc = "finish" /\ pc' \in {"send", "done"}
      /\ UNCHANGED <<cfg, attempt, report, answer, errs, asked>>
      /\ chan' \in [Channels -> {"off", "idle", "sending", "sent", "failed"}]
      /\ \A c \in Channels : chan[c] \in {"off", "idle"}
      /\ errs = {} /\ asked <= Retries /\ SuccessIsOfOneAttempt /\ ProcTypeOK
  BY DEF PInv, ProcTypeOK, AskedInv, ChannelInv, Finish, Goto
<1>1. \A c \in Channels : chan'[c] \in {"off", "sending"} /\ (pc' = "done" => chan'[c] = "off")
  BY <1>0 DEF Finish, Configured, Goto
<1>2. ProcTypeOK'
  BY <1>0 DEF ProcTypeOK, Stages
<1>3. AttemptInv' /\ AskedInv' /\ StartInv' /\ SuccessIsOfOneAttempt'
  BY <1>0 DEF AttemptInv, AskedInv, StartInv, SuccessIsOfOneAttempt, InAttempt
<1>4. ChannelInv' /\ EveryChannelTried'
  BY <1>0, <1>1 DEF ChannelInv, EveryChannelTried, Configured
<1> QED
  BY <1>2, <1>3, <1>4 DEF PInv

\* A channel that fails enters the errors as it ends; the others are untouched.
LEMMA ChannelStep ==
  ASSUME PInv, NEW c \in Channels, ChannelEnds(c)
  PROVE  PInv'
<1>0. /\ pc = "send" /\ UNCHANGED <<cfg, pc, attempt, report, answer, asked>>
      /\ chan \in [Channels -> {"off", "idle", "sending", "sent", "failed"}]
      /\ chan[c] = "sending"
      /\ \A d \in Channels : chan[d] # "idle"
      /\ errs = {d \in Channels : chan[d] = "failed"}
  BY DEF PInv, ProcTypeOK, ChannelInv, ChannelEnds, MayEnd, Sending
<1>1. PICK result \in {"sent", "failed"} :
        /\ chan' = [chan EXCEPT ![c] = result]
        /\ errs' = IF result = "failed" THEN errs \cup {c} ELSE errs
  BY DEF ChannelEnds, SendResults, Collected
<1>2. /\ chan' \in [Channels -> {"off", "idle", "sending", "sent", "failed"}]
      /\ \A d \in Channels : chan'[d] # "idle"
  BY <1>0, <1>1
<1>3. errs' = {d \in Channels : chan'[d] = "failed"}
  <2>1. CASE result = "failed"
    BY <1>0, <1>1, <2>1
  <2>2. CASE result = "sent"
    BY <1>0, <1>1, <2>2
  <2> QED
    BY <2>1, <2>2
<1>4. ProcTypeOK'
  BY <1>0, <1>2, <1>3 DEF PInv, ProcTypeOK
<1>5. AttemptInv' /\ AskedInv' /\ StartInv' /\ SuccessIsOfOneAttempt'
  BY <1>0 DEF PInv, AttemptInv, AskedInv, StartInv, SuccessIsOfOneAttempt, InAttempt
<1>6. ChannelInv' /\ EveryChannelTried'
  BY <1>0, <1>2, <1>3 DEF ChannelInv, EveryChannelTried
<1> QED
  BY <1>4, <1>5, <1>6 DEF PInv

\* Send returns when none is sending: each configured one has sent or failed.
LEMMA JoinStep ==
  ASSUME PInv, Joins
  PROVE  PInv'
<1>0. /\ pc = "send" /\ pc' = "done" /\ Sending = {}
      /\ UNCHANGED <<cfg, attempt, report, answer, chan, errs, asked>>
      /\ chan \in [Channels -> {"off", "idle", "sending", "sent", "failed"}]
      /\ \A d \in Channels : chan[d] # "idle"
      /\ errs = {d \in Channels : chan[d] = "failed"}
  BY DEF PInv, ProcTypeOK, ChannelInv, Joins, Goto
<1>1. \A c \in Configured : chan[c] \in {"sent", "failed"}
  BY <1>0 DEF Configured, Sending
<1>2. ProcTypeOK'
  BY <1>0 DEF PInv, ProcTypeOK, Stages
<1>3. AttemptInv' /\ AskedInv' /\ StartInv' /\ SuccessIsOfOneAttempt'
  BY <1>0 DEF PInv, AttemptInv, AskedInv, StartInv, SuccessIsOfOneAttempt, InAttempt
<1>4. ChannelInv' /\ EveryChannelTried'
  BY <1>0, <1>1 DEF ChannelInv, EveryChannelTried, Configured
<1> QED
  BY <1>2, <1>3, <1>4 DEF PInv

\* Every step of an analysis keeps the invariant.
LEMMA StepInv ==
  ASSUME PInv, [ProcNext]_procVars
  PROVE  PInv'
<1>0. /\ attempt \in 1 .. Retries /\ Retries \in Nat /\ asked \in Nat
      /\ answer \in Answers \cup {<<>>}
      /\ pc \in InAttempt => asked < attempt
  BY ProcessorAssumption DEF PInv, ProcTypeOK, AskedInv
<1>1. CASE Start
  <2>0. /\ pc = "start" /\ pc' = (IF cfg.agent THEN "agent" ELSE "resolve")
        /\ UNCHANGED <<cfg, attempt, report, answer, chan, errs, asked>>
        /\ report = Blank /\ attempt = 1 /\ asked = 0
    BY <1>1 DEF Start, Goto, PInv, StartInv, AskedInv
  <2>1. ProcTypeOK'
    BY <2>0 DEF PInv, ProcTypeOK, Stages
  <2>2. AttemptInv' /\ AskedInv' /\ StartInv' /\ SuccessIsOfOneAttempt'
    BY <1>0, <2>0 DEF Blank, AttemptInv, AskedInv, StartInv, SuccessIsOfOneAttempt, InAttempt
  <2>3. ChannelInv' /\ EveryChannelTried'
    BY <2>0, ChannelsKept
  <2> QED
    BY <2>1, <2>2, <2>3 DEF PInv
<1>2. CASE RunAgent
  BY <1>2, AgentStep
<1>3. CASE Resolve
  <2>0. pc = "resolve" /\ pc \in InAttempt /\ UNCHANGED <<cfg, answer, chan, errs, asked>>
    BY <1>3 DEF Resolve, InAttempt
  <2>1. CASE TryAgain
    BY <1>0, <2>0, <2>1, TryAgainStep
  <2>2. CASE EndWith("no ip")
    BY <2>0, <2>2, EndWithStep
  <2>3. CASE report' = [report EXCEPT !.ip = attempt] /\ Goto("search") /\ UNCHANGED attempt
    BY <1>0, <2>0, <2>3, StageStep DEF Goto
  <2> QED
    BY <1>3, <2>1, <2>2, <2>3 DEF Resolve
<1>4. CASE Search
  <2>0. pc = "search" /\ pc \in InAttempt /\ UNCHANGED <<cfg, answer, chan, errs, asked>>
    BY <1>4 DEF Search, InAttempt
  <2>1. CASE TryAgain
    BY <1>0, <2>0, <2>1, TryAgainStep
  <2>2. CASE NoHits
    BY <2>0, <2>2, EndWithStep DEF NoHits
  <2>3. CASE report' = [report EXCEPT !.lines = attempt] /\ Goto("analyze") /\ UNCHANGED attempt
    BY <1>0, <2>0, <2>3, StageStep DEF Goto
  <2> QED
    BY <1>4, <2>1, <2>2, <2>3 DEF Search
<1>5. CASE Analyze
  <2>0. /\ pc = "analyze" /\ pc \in InAttempt /\ UNCHANGED <<cfg, chan, errs>>
        /\ asked' = asked + 1
    BY <1>5 DEF Analyze, InAttempt
  <2>1. CASE TryAgain /\ UNCHANGED answer
    <3>1. asked' \in Nat /\ asked' <= attempt
      BY <1>0, <2>0
    <3> QED
      BY <2>0, <2>1, <3>1, TryAgainStep
  <2>2. CASE Answered /\ Goto("finish") /\ UNCHANGED attempt
    BY <2>0, <2>2, StageStep DEF Answered, Goto
  <2> QED
    BY <1>5, <2>1, <2>2 DEF Analyze
<1>6. CASE Panics
  <2>0. /\ pc \notin {"send", "done"} /\ pc' = "panicked"
        /\ UNCHANGED <<cfg, attempt, report, answer, chan, errs, asked>>
    BY <1>6 DEF Panics, Goto
  <2>1. ProcTypeOK'
    BY <2>0 DEF PInv, ProcTypeOK, Stages
  <2>2. AttemptInv' /\ AskedInv' /\ StartInv' /\ SuccessIsOfOneAttempt'
    BY <2>0 DEF PInv, AttemptInv, AskedInv, StartInv, SuccessIsOfOneAttempt, InAttempt
  <2>3. ChannelInv' /\ EveryChannelTried'
    BY <2>0, ChannelsKept
  <2> QED
    BY <2>1, <2>2, <2>3 DEF PInv
<1>7. CASE Finish
  BY <1>7, FinishStep
<1>8. CASE \E c \in Channels : ChannelEnds(c)
  BY <1>8, ChannelStep
<1>9. CASE Joins
  BY <1>9, JoinStep
<1>10. CASE UNCHANGED procVars
  <2>1. ProcTypeOK' /\ AttemptInv' /\ AskedInv' /\ StartInv' /\ SuccessIsOfOneAttempt'
    BY <1>10 DEF PInv, procVars, ProcTypeOK, AttemptInv, AskedInv, StartInv,
                 SuccessIsOfOneAttempt, InAttempt
  <2>2. ChannelInv' /\ EveryChannelTried'
    BY <1>10 DEF PInv, procVars, ChannelInv, EveryChannelTried, Configured
  <2> QED
    BY <2>1, <2>2 DEF PInv
<1> QED
  BY <1>1, <1>2, <1>3, <1>4, <1>5, <1>6, <1>7, <1>8, <1>9, <1>10 DEF ProcNext, Run

-----------------------------------------------------------------------------
\* The last object of an answer, with nothing closing after it, is found by
\* whichever candidate comes first.
LEMMA LastWordIsSource ==
  ASSUME NEW a \in Seq(Pieces), NEW p \in DOMAIN a, LastWord(a, p)
  PROVE  Source(a) = {p} /\ ~Raw(a)
<1>0. /\ p \in Nat /\ a[p] = "obj" /\ DOMAIN a \subseteq Nat
      /\ \A i \in DOMAIN a : i > p => a[i] \notin Closes \cup {"mark", "think"}
  BY DEF LastWord
<1>1. \A i \in Fenced(a) : i = p
  BY DEF LastWord, Fenced, InFence
<1>2. p \in Spoken(a)
  BY <1>0 DEF Spoken, At
<1>3. Embedded(a) = {p}
  <2>1. p \in Embedded(a)
    BY <1>0, <1>2 DEF Embedded, Spoken, At, Opens, Json
  <2>2. ASSUME NEW i \in Embedded(a) PROVE i = p
    <3>1. i \in DOMAIN a /\ a[i] \in Closes
      BY DEF Embedded, At, Opens, Json, Closes
    <3>2. p <= i
      BY <1>0, <1>2 DEF Embedded, At, Closes
    <3> QED
      BY <1>0, <3>1, <3>2
  <2> QED
    BY <2>1, <2>2
<1>4. a = <<"obj">> => p = 1
  OBVIOUS
<1>5. Source(a) = {p}
  BY <1>1, <1>3, <1>4 DEF Source, Extracted
<1> QED
  BY <1>0, <1>5 DEF Raw

\* Where no tag of the first kind occurs, nothing is read from the thoughts
\* but what a fence encloses.
LEMMA ThoughtsUnread ==
  ASSUME NEW a \in Seq(Pieces), At(a, {"mark"}) = {},
         NEW p \in Source(a), NEW e \in At(a, {"think"})
  PROVE  e < p \/ InFence(a, p)
<1>1. a # <<"obj">>
  BY DEF At
<1>2. CASE p \in Fenced(a)
  BY <1>2 DEF Fenced, InFence
<1>3. CASE p \in Embedded(a)
  BY <1>3 DEF Embedded, Spoken
<1> QED
  BY <1>1, <1>2, <1>3 DEF Source, Extracted

-----------------------------------------------------------------------------
\* What every analysis satisfies; the theorems below are parts of it
\* (pipeline.go:42-176, notify.go:55-81).
THEOREM ProcInvariance == ProcSpec => []PInv
BY ProcInitInv, StepInv, PTL DEF ProcSpec

\* A report that does not say it failed shows one attempt only, for any
\* number of retries (pipeline.go:101-117, 134-176).
THEOREM OneAttempt == ProcSpec => []SuccessIsOfOneAttempt
<1>1. PInv => SuccessIsOfOneAttempt
  BY DEF PInv
<1> QED
  BY <1>1, ProcInvariance, PTL

\* When Send returns every configured channel was tried and exactly the failed
\* ones are in its result, for any channels (notify.go:55-81).
THEOREM ChannelsTried == ProcSpec => []EveryChannelTried
<1>1. PInv => EveryChannelTried
  BY DEF PInv
<1> QED
  BY <1>1, ProcInvariance, PTL

\* The model is asked at most once per attempt (pipeline.go:101-117).
THEOREM Asked == ProcSpec => []AskedWithinLimit
<1>1. PInv => AskedWithinLimit
  BY DEF PInv, AskedInv, AskedWithinLimit
<1> QED
  BY <1>1, ProcInvariance, PTL

\* Whatever pieces an answer is made of, the object that ends it is the
\* opinion, and no unfenced draft is (llm.go:119-174).
THEOREM Understood == ProcSpec => []AnswerIsUnderstood
<1>1. PInv => AnswerIsUnderstood
  <2> SUFFICES ASSUME PInv PROVE AnswerIsUnderstood
    OBVIOUS
  <2>0. <<>> \in Seq(Pieces)
    OBVIOUS
  <2>1. answer \in Seq(Pieces)
    BY <2>0, ProcessorAssumption DEF PInv, ProcTypeOK
  <2> QED
    BY <2>1, LastWordIsSource, ThoughtsUnread DEF AnswerIsUnderstood
<1> QED
  BY <1>1, ProcInvariance, PTL

\* The analysis keeps its types: whatever the back ends answer, no attempt is
\* counted beyond the limit and the report stays one.
THEOREM ProcTypeCorrect == ProcSpec => []ProcTypeOK
<1>1. PInv => ProcTypeOK
  BY DEF PInv
<1> QED
  BY <1>1, ProcInvariance, PTL

\* Whatever numbers the file holds, each call of the agent or of the model has
\* a client with a timeout: the fairness HandleEnds needs is justified
\* (config.go:120-126, app.go:47-54).
THEOREM CallsBounded == ProcSpec => []Bounded
<1> DEFINE Limited == cfg.num["llmTimeout"] \in Nat \ {0} /\ cfg.num["agentTimeout"] \in Nat \ {0}
<1>1. ProcInit => Limited
  <2> SUFFICES ASSUME ProcInit PROVE Limited
    OBVIOUS
  <2>1. PICK file \in Files, env \in Envs : cfg \in Loaded(file, env)
    BY DEF ProcInit
  <2>2. file \in ConfigFiles
    BY ProcessorAssumption
  <2> QED
    BY <2>1, <2>2, LimitsHold DEF Numbers
<1>2. Limited /\ [ProcNext]_procVars => Limited'
  <2> SUFFICES ASSUME Limited, [ProcNext]_procVars PROVE cfg' = cfg
    OBVIOUS
  <2> QED
    BY DEF ProcNext, Run, procVars, Start, RunAgent, Resolve, Search, Analyze, Panics,
           Finish, ChannelEnds, Joins
<1>3. Limited => Bounded
  BY DEF Bounded, AgentTimeout
<1> QED
  BY <1>1, <1>2, <1>3, PTL DEF ProcSpec
=============================================================================
