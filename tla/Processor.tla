------------------------------ MODULE Processor ------------------------------
(***************************************************************************)
(* One analysis of the linkage service: Processor.Handle with the report   *)
(* it fills (src/linkage/internal/pipeline/pipeline.go) and the fan-out to *)
(* the notification channels (src/linkage/internal/notify/notify.go).      *)
(*                                                                         *)
(* In process the analysis is tried up to three times, locating the host,  *)
(* searching its log and asking the model; with an agent it is one call.   *)
(* All attempts write into the same report, so a field may stem from an    *)
(* earlier attempt: the report holds, for each field, the attempt that     *)
(* set it.                                                                 *)
(***************************************************************************)
EXTENDS Config, Answer, FiniteSets

CONSTANTS
  Files,     \* configuration files
  Envs,      \* the secrets the environment sets
  Answers,   \* what the model may answer
  Channels,  \* notification channels
  SettingOf, \* the text of the configuration that switches each channel on
  Stuck,     \* channels whose Send may never return (fairness only)
  Retries    \* attempts, 3 in the code

ASSUME ProcessorAssumption ==
  /\ Files \subseteq ConfigFiles
  /\ Answers \subseteq Seq(Pieces)
  /\ SettingOf \in [Channels -> Texts]
  /\ Stuck \subseteq Channels
  /\ Retries \in Nat \ {0}

VARIABLES
  cfg,     \* the configuration the service was started with
  pc,      \* where Handle is
  attempt, \* the current attempt, from 1
  report,  \* the fields of the report
  answer,  \* the text the report's opinion was decoded from
  chan,    \* each channel's Send, "off" if not configured
  errs,    \* the channels Send returns an error of
  asked    \* history: calls of the model or of the agent

procVars == <<cfg, pc, attempt, report, answer, chan, errs, asked>>

Stages == {"start", "agent", "resolve", "search", "analyze", "finish", "send",
           "done", "panicked"}

\* 0 is "not set"; a number the attempt that set the field.
Reports == [ip : 0 .. Retries, lines : 0 .. Retries, llm : 0 .. Retries,
            failed : BOOLEAN,
            err : {"none", "backend", "no ip", "no hits", "agent"}]

Blank == [ip |-> 0, lines |-> 0, llm |-> 0, failed |-> FALSE, err |-> "none"]

ProcTypeOK ==
  /\ cfg \in Settings
  /\ pc \in Stages
  /\ attempt \in 1 .. Retries
  /\ report \in Reports
  /\ answer \in Answers \cup {<<>>}
  /\ chan \in [Channels -> {"off", "idle", "sending", "sent", "failed"}]
  /\ errs \subseteq Channels
  /\ asked \in Nat

\* NewMulti: a channel is used if its address is configured.
Multi(c) == [ch \in Channels |-> IF SettingOf[ch] \in c.texts THEN "idle" ELSE "off"]

ProcInit ==
  /\ \E file \in Files, env \in Envs : cfg \in Loaded(file, env)
  /\ pc = "start"
  /\ attempt = 1
  /\ report = Blank
  /\ answer = <<>>
  /\ chan = Multi(cfg)
  /\ errs = {}
  /\ asked = 0

-----------------------------------------------------------------------------
Goto(stage) == pc' = stage

Start ==
  /\ pc = "start"
  /\ Goto(IF cfg.agent THEN "agent" ELSE "resolve")
  /\ UNCHANGED <<cfg, attempt, report, answer, chan, errs, asked>>

\* What HTTPInvoker.Run gives when it gives no error: any report at all.
AgentReports ==
  {[ip |-> found, lines |-> found, llm |-> 1, failed |-> f, err |-> "none"] :
     found \in {0, 1}, f \in BOOLEAN}

\* runAgent: the agent's report replaces the local one, whatever it says.
RunAgent ==
  /\ pc = "agent"
  /\ asked' = asked + 1
  /\ \/ report' = [report EXCEPT !.failed = TRUE, !.err = "agent"]
     \/ report' \in AgentReports
  /\ Goto("finish")
  /\ UNCHANGED <<cfg, attempt, answer, chan, errs>>

\* A retry loop that runs once too often.
MoreAttemptsByOne == attempt <= Retries

MoreAttempts == attempt < Retries

\* run returned an error: sleep and try again, or give up after the last.
TryAgain ==
  \/ /\ MoreAttempts
     /\ attempt' = attempt + 1
     /\ Goto("resolve")
     /\ UNCHANGED report
  \/ /\ ~MoreAttempts
     /\ report' = [report EXCEPT !.failed = TRUE, !.err = "backend"]
     /\ Goto("finish")
     /\ UNCHANGED attempt

\* run returned nil with the reason in the report.
EndWith(reason) ==
  /\ report' = [report EXCEPT !.failed = TRUE, !.err = reason]
  /\ Goto("finish")
  /\ UNCHANGED attempt

\* The inventory, else a reverse search for the host name.
Resolve ==
  /\ pc = "resolve"
  /\ \/ TryAgain
     \/ EndWith("no ip")
     \/ /\ report' = [report EXCEPT !.ip = attempt]
        /\ Goto("search")
        /\ UNCHANGED attempt
  /\ UNCHANGED <<cfg, answer, chan, errs, asked>>

\* An empty result taken for a reason to go on.
NoHitsGoesOn == Goto("analyze") /\ UNCHANGED <<report, attempt>>

NoHits == EndWith("no hits")

Search ==
  /\ pc = "search"
  /\ \/ TryAgain
     \/ NoHits
     \/ /\ report' = [report EXCEPT !.lines = attempt]
        /\ Goto("analyze")
        /\ UNCHANGED attempt
  /\ UNCHANGED <<cfg, answer, chan, errs, asked>>

\* A failed call, a status other than 200 or no choice is an error; any text
\* is an answer, and what it is decoded to replaces the whole opinion.
Answered ==
  /\ report' = [report EXCEPT !.llm = attempt]
  /\ answer' \in Answers

Analyze ==
  /\ pc = "analyze"
  /\ asked' = asked + 1
  /\ \/ TryAgain /\ UNCHANGED answer
     \/ Answered /\ Goto("finish") /\ UNCHANGED attempt
  /\ UNCHANGED <<cfg, chan, errs>>

\* recover: the log gets a line, the channels nothing.
Panics ==
  /\ pc \in {"agent", "resolve", "search", "analyze"}
  /\ Goto("panicked")
  /\ UNCHANGED <<cfg, attempt, report, answer, chan, errs, asked>>

-----------------------------------------------------------------------------
(* finish and Multi.Send: one goroutine per channel, then wait for all.    *)

Configured == {c \in Channels : chan[c] # "off"}

Finish ==
  /\ pc = "finish"
  /\ \/ Configured = {} /\ Goto("done") /\ UNCHANGED chan
     \/ /\ Configured # {}
        /\ chan' = [c \in Channels |-> IF c \in Configured THEN "sending" ELSE "off"]
        /\ Goto("send")
  /\ UNCHANGED <<cfg, attempt, report, answer, errs, asked>>

Sending == {c \in Channels : chan[c] = "sending"}

\* Sending to one channel after the other, in a fixed order, Stuck first.
MayEndInTurn(c) == c \in Sending /\ (Sending \cap Stuck # {} => c \in Stuck)

MayEnd(c) == c \in Sending

\* The list of errors appended to without the mutex.
CollectedRacing(c, result) == IF result = "failed" THEN {c} ELSE errs

Collected(c, result) == IF result = "failed" THEN errs \cup {c} ELSE errs

\* One attempt of a channel: WeCom, mail or UniPro ends it at the first
\* error or status it does not accept.  Mail may fail after delivery.
SendResults == {"sent", "failed"}

ChannelEnds(c) ==
  /\ pc = "send" /\ MayEnd(c)
  /\ \E result \in SendResults :
       /\ chan' = [chan EXCEPT ![c] = result]
       /\ errs' = Collected(c, result)
  /\ UNCHANGED <<cfg, pc, attempt, report, answer, asked>>

Joins ==
  /\ pc = "send"
  /\ Sending = {}
  /\ Goto("done")
  /\ UNCHANGED <<cfg, attempt, report, answer, chan, errs, asked>>

Run == Start \/ RunAgent \/ Resolve \/ Search \/ Analyze \/ Finish \/ Joins

ProcNext == Run \/ Panics \/ (\E c \in Channels : ChannelEnds(c))

ProcSpec == ProcInit /\ [][ProcNext]_procVars

\* app.New gives the agent 120 s where the configuration gives none.
AgentTimeout == IF cfg.num["agentTimeout"] > 0 THEN cfg.num["agentTimeout"] ELSE 120

\* A call of the agent or of the model ends if its client has a timeout; the
\* search has 5 s.
Bounded ==
  /\ pc = "agent" => AgentTimeout > 0
  /\ pc = "analyze" => cfg.num["llmTimeout"] > 0

(* Stages with a timeout end, and so does every Send, except that a        *)
(* channel of Stuck need not return.                                       *)
ProcFairness ==
  /\ WF_procVars(Bounded /\ Run)
  /\ \A c \in Channels \ Stuck : WF_procVars(ChannelEnds(c))

FairProcSpec == ProcSpec /\ ProcFairness

-----------------------------------------------------------------------------
(* Properties.                                                             *)

(* A report that does not say it failed has the address, the log lines and *)
(* the model's answer of one and the same attempt: although the attempts   *)
(* share the report, nothing of a failed one shows in a success            *)
(* (pipeline.go:101-117, 134-176).                                         *)
SuccessIsOfOneAttempt ==
  (~cfg.agent /\ pc \in {"finish", "send", "done"} /\ ~report.failed) =>
    /\ report.ip = attempt /\ report.lines = attempt /\ report.llm = attempt
    /\ report.err = "none"

(* Handle sends what it has: unless it panicked each channel is tried once,*)
(* and when Send returns all have answered and exactly the failed ones are *)
(* in its result (notify.go:64-81, pipeline.go:119-125).                   *)
EveryChannelTried ==
  pc = "done" =>
    /\ \A c \in Configured : chan[c] \in {"sent", "failed"}
    /\ errs = {c \in Channels : chan[c] = "failed"}

(* The model is asked at most once per attempt and no more than the retry  *)
(* limit, whichever back end failed before (pipeline.go:103-112).          *)
AskedWithinLimit == asked <= Retries

\* An object in a fence of its own, and the last words of an answer.
InFence(a, p) == {p - 1, p + 1} \subseteq At(a, {"fence"})
LastWord(a, p) ==
  /\ a[p] = "obj"
  /\ \A i \in DOMAIN a : i > p => a[i] \notin Closes \cup {"mark", "think"}
  /\ \A i \in At(a, Json) : InFence(a, i) => i = p

(* The object that ends an answer is its opinion, whatever braces, drafts  *)
(* and thoughts come before it; and no draft from the thoughts is shown as *)
(* the opinion unless the model put it into a fence (llm.go:119-174).      *)
AnswerIsUnderstood ==
  (~cfg.agent /\ pc \in {"finish", "send", "done"} /\ ~report.failed) =>
    /\ \A p \in DOMAIN answer : LastWord(answer, p) => Source(answer) = {p} /\ ~Raw(answer)
    /\ At(answer, {"mark"}) = {} =>
         \A p \in Source(answer), e \in At(answer, {"think"}) : e < p \/ InFence(answer, p)

(* A channel that hangs keeps no other channel from ending                 *)
(* (notify.go:62-63).                                                      *)
OthersNotBlocked ==
  \A c \in Channels \ Stuck : chan[c] = "sending" ~> chan[c] # "sending"

(* Handle ends, panicked or with every channel tried, and gives its slot   *)
(* back; only a channel that never answers could keep it (notify.go:62-80, *)
(* pipeline.go:44-53).                                                     *)
HandleEnds ==
  <>(pc \in {"done", "panicked"} \/ (Sending # {} /\ Sending \subseteq Stuck))
=============================================================================
