# Formal models of the kernel hardware log monitor and its linkage service

This directory holds TLA+ models of the two programs of the repository that keep state
and meet concurrency: the Go service `linkage/`, which turns alert webhooks into
diagnosed reports, and the shell script `kernel-hw-mon/kernel-hw-mon.sh`, which finds
hardware errors in the system log. Each module is translated from the source; `map` in
`PROJECT.json` names the lines behind every definition.

## 1. The system

A server runs `kernel-hw-mon.sh` every minute. The script reads what was appended to
`/var/log/messages`, and prints metrics. The alerting system (n9e) evaluates them and posts a
webhook per (host, hardware type) to the linkage service, repeating it while the alert
stands. The service suppresses copies, merges the types that arrive together for one host,
looks up the log lines in Elasticsearch, asks a language model for a diagnosis, and sends a
report to up to three channels. There is no storage behind the service: what it forgets is
gone.

### Inventory

| component (source) | state | operations | hard behaviour | what makes it correct |
|---|---|---|---|---|
| merge buffer (`internal/buffer`) | map of open entries, one timer each, running callbacks | `Add`, `fire`, `Drain` | timers never stopped, timer against `Drain`, late alerts of a key | each alert handed over once, with all merged types; no entry without a timer |
| dedup guard (`internal/dedup`) | map key -> expiry second | `Acquire` | clock read before the mutex, opportunistic sweep by other calls, exact second of expiry | one alert per ttl; none refused without cover; the map stays bounded |
| service (`internal/server`, `internal/app`, `cmd`) | open requests, running analyses, semaphore, shutdown phase | webhook handler, timer callback, `Stop` | two critical sections per alert, panic, shutdown with a timeout | a granted alert never vanishes; slots are exact; a graceful stop leaves nothing behind |
| analysis (`internal/pipeline`) | one report, attempt counter | `Handle`, `run`, `runAgent`, `finish` | three attempts fill one report; failure at every stage; panic | a success shows one attempt only; bounded calls; it ends |
| location and log search (`pipeline/resolve.go`, `internal/es`) | none of its own; the index changes between the two queries | `resolve`, `ReverseSearch`, `Search` | queries against a moving index | right host, newest lines |
| log aggregation (`internal/aggregate`) | list under construction | `Aggregate` | merging by truncated text, stable order, limit | evidence ranked, counts exact |
| notification (`internal/notify`) | one goroutine per channel, shared error list | `Send` and three protocols | hanging channel, concurrent append | every channel tried, each error kept, none held up by another |
| model client (`internal/llm`) | none | one call, decoding of its text | thoughts, drafts, fences, stray braces, wrong types | an error is an attempt, not a loss; the opinion is what the model ended with |
| agent client (`internal/agent`) | none | one call | any report, or none | one call with a timeout |
| configuration (`internal/config`) | the loaded settings | `Load`, `overrideFromEnv`, `sanitize` | missing, zero and negative values | no limit or timeout of zero, no empty token |
| payload (`internal/model`) | none | `Ident`, `Type`, `Time`, `Recovered` | two layouts, each perhaps half filled | copies are one alert, a recovery is none |
| log monitor (`kernel-hw-mon.sh`) | state file (inode, offset or journal second), lock file | one run: lock, read state, choose mode, stat, read, write state, print | overlapping runs, rotation, truncation, half lines, failing steps, kill | the cursor passes only reported lines; no line twice |
| patterns, alignment check, agent skill, ansible | none | - | - | - |

The components interact in four ways. The handler *calls* the guard and then the buffer,
each under its own mutex. The buffer *calls back* the analysis in the goroutine of a timer
or of `Drain`. Analyses *share* a semaphore. The monitor's runs *share* the state file and
a lock, and the log with a writer and a rotation that know nothing of them.

## 2. Modules

| module | models | state and actions against the code |
|---|---|---|
| `Aggregator` | `buffer.go` | `entries` is the map, `timers` the armed `time.AfterFunc`s (each remembers the alert that armed it; its closure knows only the key), `calls` the callbacks under way, `drain` where `Drain` is. `Add`, `TimerFires`, `DrainBegins` (the snapshot under the mutex), `DrainFires` (one key, waiting for the last callback), `DrainEnds`. `home`, `returned`, `atDrain` are history. |
| `BatchDelivery` | the promise of `buffer.go` | alerts are held; one atomic step hands over all that is held under a key, with its types. `Aggregator` implements it (`ImplementsDelivery`). |
| `Dedup` | `dedup.go` | `ReadClock` and `Lock` are the two halves of `Acquire`, before and under the mutex. `seen` is the map; `lockedAt` is history. |
| `Payload` | `model.go`, the first half of `handleWebhook` | operators on a delivery: which labels, host, type, time and recovery it means in either layout, its window, and whether the handler dismisses it |
| `Linkage` | `server.go`, `app.go`, `main.go`, and the frame of `Handle` | instances of `Dedup` and `Aggregator` on shared variables, one clock; keys and types come from the payloads. A request goes through `Arrive`, `Reject` or `ReadClock`, `Acquire`, `Enqueue`; a callback through `TakeSlot`, `Report` or `Panic`, `Return`; the process through `Signal`, `ShutdownReturns` or `ShutdownTimesOut`, `DrainStep`, `Exit`. |
| `AlertService` | the promise of the service | a delivery is accepted, skipped for an accepted copy, or dismissed if it reports nothing; what was accepted is analysed once, in sets of one host and window. `Linkage` implements it (`ImplementsService`). |
| `Config` | `config.go` | operators from a file and an environment to the loaded configuration: `Decoded` over the defaults, `Overridden`, `Clamped`, refused unless `Complete` |
| `Answer` | `Analyze`'s decoding and `extractJSON` in `llm.go` | an answer is a sequence of pieces (objects, braces, fences, ends of thoughts); `Fenced`, `Spoken`, `Embedded` are the three candidates, `Source` the piece the opinion is decoded from, `Raw` the fallback |
| `Processor` | `pipeline.go`, `notify.go`, the outcomes of `llm.go` and `agent.go` | starts from a configuration `Config` loads. `pc` is where `Handle` is; each field of `report` holds the number of the attempt that set it, `answer` the text of the model. `Start`, `RunAgent`, `Resolve`, `Search`, `Analyze`, `Panics`, `Finish`, `ChannelEnds`, `Joins`. |
| `LogSearch` | `resolve.go`, `es.go`, `aggregate.go` | `window` is what the index holds of the time window. `Ingest` (external) between `Resolve` and `Search`; `Keywords` is the filter the types of the alert make, `Buckets` the groups the reverse search returns; `Aggregate` counts, sorts and cuts in one step. |
| `HwMon` | `kernel-hw-mon.sh` | `files`, `path`, `writer` are the log and its writer (external: `LogWrites`, `Rename`, `Create`, `Reopen`, `Truncate`, `Corrupt`, `Tick`, `Kill`). A run is `Begin`, `TakeLock` or `Busy`, `ChooseMode`, `StatInode`, `StatSize`, `ReadLog` or `ReadJournal`, `WriteState`, `Emit`, with `SetupFails`, `ReadFails` and a failing `WriteState`. |
| `MC...` | TLC instances | values of the constants |
| `AggregatorProofs`, `DedupProofs`, `LinkageProofs`, `ConfigProofs`, `ProcessorProofs`, `LogSearchProofs`, `HwMonProofs` | - | theorems and proofs |

Operators introduced as faults ("Faults of the kind a change could introduce", or with a
comment naming the slip) are not part of any specification: they are the changed forms
that `PROJECT.json` lists under `mutants`, one per property, to show that the property
notices a plausible mistake in the code.

Abstractions that hold everywhere: a key is a model value, so `itoa`, `fmt.Sprintf` and the
truncated sha1 of the dedup key are taken to be injective; time is in ticks, one of which
is the wait, the ttl or a second as the module says; the wall clock does not step back; the
contents of queries, prompts, mails and metrics are left out.

## 3. What TLC checks

| run | question | result |
|---|---|---|
| `aggregator` | four alerts of two keys, adds, timers and `Drain` in any order: `HandedOverOnce`, `EntryArmed`, `DrainComplete`, `OwnTimerOnly`, `ImplementsDelivery`, `EventuallyHanded`, `DrainTerminates` | holds, 96,528 states |
| `dedup` | five calls of three keys with stale clocks around expiry and sweep: `SuppressedForTTL`, `RefusedOnlyIfCovered`, `NoGarbageBeyondLimit` | holds, 242,202 states |
| `linkage` | the whole service from payloads in both layouts, with a copy, a second type, panics and a stop at any point: `NoAlertLost`, `SlotsExact`, `GracefulStop`; `UsesGuard`, `UsesBuffer` (every step of the service is one the component's module allows); `ImplementsService` | holds, 637,723 states |
| `linkage_live` | `AcceptedIsAnalysed`, `StopTerminates` with one slot, a recovery and a request whose body may never come; `ImplementsService` | holds, 46,790 states |
| `linkage_stop_loses` | is all that was buffered at the stop analysed? (`BufferedAtStopIsAnalysed`) | **violated** |
| `processor` | configurations with missing and zero values, failures at every stage, agent or not, answers with thoughts, fences and braces, any set of channels, one of which may hang: `SuccessIsOfOneAttempt`, `EveryChannelTried`, `AskedWithinLimit`, `AnswerIsUnderstood`, `HandleEnds`, `OthersNotBlocked` | holds, 146,338 states |
| `log_search` | every window of four documents against a limit of three lines and two groups, with and without keywords: `EvidenceRanked` | holds, 3,261,698 states |
| `log_search_name` | does the reverse search find a file that names the host? (`LocatedByName`) | **violated** |
| `hwmon_cursor` | one run at a time against writer, rotation, damaged state, one fault; file and journal mode: `CursorPassesOnlyReported` | holds, 2,630,461 states |
| `hwmon_overlap` | two overlapping runs, a rotation, a truncation, a failing read or a kill: `NoLineTwice`, `ReportedUnlessLost` | holds, 146,776 states |
| `hwmon_rotation_loses` | is a line logged since the last read reported in the end? (`EventuallyReported`) | **violated** |
| `hwmon_kill_loses` | is what a killed run found still ahead of the cursor? (`KilledRunIsRetried`) | **violated** |

Each passing run also checks its module's type invariant. Deadlock is checked in the monitor's
runs, which go on for ever; elsewhere the system may stop (all requests served, the process exited), and
`CHECK_DEADLOCK FALSE` says so.

### The bounds and why they are enough

- `aggregator`: three alerts of one key allow an entry, an alert merged into it, and a
  younger entry that a stale timer of the first finds; the fourth makes `Drain`'s
  snapshot hold a second key. `Wait = 2` separates arming, waiting and expiry.
- `dedup`: three calls of one key are two grants and a refusal, or three grants; two
  further keys with `CleanupAt = 1` let other calls sweep. `TTL = 2`, `MaxNow = 3` put clocks before, at and after the expiry.
- `linkage`: a copy (same key and type) and a second type of the key, one slot, and a clock
  that saturates at 1: the guard can let the copy through again after the ttl, and a batch
  of the copy can wait for the slot while `Drain` fires another. The copies come in the two
  layouts, one with an empty `ident`, with different times of one window; the third delivery has no time. `linkage_live`
  replaces the second type by a recovery of another host.
- `processor`: the three attempts and three channels of the code; files that give no token, and zero for the two timeouts,
  either back end, some channels; answers of a beginning, a core and an end, among them a draft in the thoughts, a
  fenced draft, stray braces on both sides and an unclosed fence.
- `log_search`: two hosts and a file without an address; `m1` and `m2` differ only beyond the truncation; four documents
  against `MaxLines = 3` and `MaxBuckets = 2` give ties, merges, a line and a group the query cuts. A line names the host, has
  the keyword, or neither. The alert is merged of a type with and one without keywords, or is of the latter.
- `hwmon_*`: a line is two tokens, so that a size, an offset or a read can fall inside a line;
  two lines, at most one rotation (with the gap in which the path names no file) or
  truncation, at most one fault and one corruption. With `Reach = 1` and
  `MaxNow = 2` no journal cursor of `hwmon_cursor` grows older than `Reach`: the fallback of `Since` to a minute ago for a cursor that is too old is
  not reached by a run and is covered by the theorem `CursorSafe`, which holds for every value of both. Reports are counted up to 2, which means "more than once".

Symmetry is used in `dedup` and `linkage` over interchangeable copies and in `log_search` over the two hosts and the two texts of equal truncation, and in no run that checks liveness.

### Fairness

- `AggFairness`: the runtime runs expired timers, the clock advances, `Drain`'s goroutine
  goes on, and a callback returns, because each call it makes has a timeout. Nobody has
  to call `Add` or `Drain`.
- `Fairness` of `Linkage`: handlers and analyses progress; a channel serves its senders in
  order, hence strong fairness of the wait for a slot. Requests and the signal need not come. A request
  of `Slow` may keep its handler for ever (app.go:60 bounds the header only); `Stop` is then released by its 20 s context (main.go:48).
- `ProcFairness`: a stage ends if its call is `Bounded`, that is if the configuration in force gives its client a positive timeout (app.go:34-48),
  and so does each channel (HTTP timeouts, SMTP deadline), except that one of `Stuck` may hang for ever. That no loaded
  configuration leaves a call unbounded is not assumed: it is what `HandleEnds` tests and `CallsBounded` proves.
- `HwFairness`: runs are started again and again and go on, a rotation completes, the clock
  advances. Nothing has to be logged and no fault has to happen.

## 4. What is proved

TLAPS proves the following for every value of the constants that satisfies the modules' assumptions.

**`AggregatorProofs`** assumes only that each alert has a key and a type, that the wait is a natural number
and that the "no entry" value is not an alert.

- `TypeCorrect`: `AggSpec => []TypeOK`.
- `Invariance`: `AggSpec => []IInv`, the inductive strengthening. `HandedOverOnce` is not inductive: nothing
  in it stops two batches from being opened by one alert, or an entry from sitting under a foreign key. `IInv` adds
  that an open entry sits under its opening alert's key and has not been handed over (`EntryInv`); that `home` is
  idempotent and keeps keys (`HomeInv`); that batches are told apart by their opening alert and carry the types of their
  members (`BatchInv`); that an added alert is in the open entry of its key or in a batch (`PlaceInv`); that each
  alert arms at most one timer and, until `Drain` begins, the timer's entry is the open one (`TimerInv`); and which
  alerts of the snapshot may still be buffered (`DrainInv`). There is one lemma per action, and `FireStep` serves the
  timer and `Drain` alike. TLC checked `IInv` before it was proved.
- `HandedOver`, `Armed`, `Drained`: `HandedOverOnce`, `EntryArmed`, `DrainComplete` are invariants.
- `OwnTimer`: `AggSpec => OwnTimerOnly`, an action property, from `TimerInv`.
- `Refinement`: `AggSpec => ImplementsDelivery`. `Add` maps to `Accept`, a firing that finds an entry to `HandOver` of its key, all else to a
  stutter; that the batch holds *all* held alerts of the key is `HomeInv` and `PlaceInv`.

**`DedupProofs`** assumes a key per call and a positive ttl.

- `DedupInvariance`: `DedupSpec => []DInv`. `SuppressedForTTL` compares two grants between which a sweep may have removed the
  first one's entry. `CoverInv` bridges this: a grant's entry lasts a ttl from the clock it read, or, once it is gone or
  replaced, the wall clock is past that ttl. `SourceInv` says each entry is some grant's.
- `DedupTypeCorrect`, `Suppressed`, `Covered`, `Bounded`: `DedupTypeOK`, `SuppressedForTTL`, `RefusedOnlyIfCovered`,
  `NoGarbageBeyondLimit`.

**`ConfigProofs`** assumes nothing but that a file holds integers.

- `LimitsHold`: a loaded configuration has positive limits and timeouts, a lookback that is not negative, a token, and the back end of its mode.
  These are the assumptions the other modules make of their constants.

**`ProcessorProofs`** assumes a positive number of attempts, files and answers of their types.

- `ProcInvariance`: `ProcSpec => []PInv`. `SuccessIsOfOneAttempt` speaks of a finished report only; `AttemptInv` says what
  each stage knows before: no failure has been entered, and the fields of the stages this attempt has passed are its
  own, whatever an earlier attempt left. `AskedInv` bounds the calls by the attempt; `ChannelInv` keeps the channels untouched
  until `Finish` and the errors equal to the failed channels, also where channels end in parallel.
- `OneAttempt`, `ChannelsTried`, `Asked`, `ProcTypeCorrect`: `SuccessIsOfOneAttempt`, `EveryChannelTried`, `AskedWithinLimit`, `ProcTypeOK`.
- `Understood`: `AnswerIsUnderstood` for answers of any length. It rests on two lemmas about the extraction: `LastWordIsSource` (the last
  closing brace is the object's own, so the search from some opening brace can end nowhere else, and the only fence that could win is the object's) and
  `ThoughtsUnread` (what is taken lies behind the last end of thoughts or in a fence).
- `CallsBounded`: `ProcSpec => []Bounded`, from `LimitsHold`.

**`LinkageProofs`** assumes what the guard and the buffer assume, a positive limit of analyses, and nothing of the deliveries.

- `LinkageInvariance`: `Spec => []LInv`. `LInv` takes `DInv` and `IInv` over from the components: every step of the service is a step of the guard and a
  step of the buffer or leaves them alone (`GuardStep`, `BufferStep`), so their step lemmas are cited, not repeated. What neither component can know is
  added: how far a handler has come is what the guard and the buffer know of its alert (`HandlerInv`); an analysis belongs to one batch, running or
  returned (`JobInv`); the slots are counted (`SlotInv`); and once a stop that did not time out drains, no handler is open, so that every open entry is one that
  `Drain` has still to fire (`StopInv`). Without the last, an entry could come back under a key `Drain` has passed.
- `AlertsKept`, `SlotsCounted`, `StopIsGraceful`, `LinkageTypeCorrect`: `NoAlertLost`, `SlotsExact`, `GracefulStop`, `LinkageTypeOK`.
- `GuardUsed`, `BufferUsed`: `Spec => UsesGuard`, `Spec => UsesBuffer`, which carry the theorems of the components over to the service.
- `ServiceImplemented`: `Spec => ImplementsService` if the deliveries satisfy `DeliveriesRead`: an alert reports something exactly if it is not
  dismissed, and alerts of one key report one host and window, and one type if their types agree. `About` is what a delivery is *meant* to say, written down
  apart from `Payload`; that `Payload` reads it so is what `DeliveriesRead` says, and the `linkage` run tests it on deliveries of both layouts. It excludes
  no delivery: `ReadAsReported` shows that whatever the payloads are there is an `About` that satisfies it.

**`LogSearchProofs`** assumes positive limits and files, texts and keywords of their types; the index, the texts and the number of lines are arbitrary.

- `LogInvariance`: `LogSpec => []LogInv`. `EvidenceRanked` speaks of the positions of the index, the code of lists it has built; `LogInv` keeps the link: from the query
  on, the hits are the lines at the positions `Fetched`, the latest first (`Enumerates`), and the index is read no more.
- The lists are folds, one line after another. `FoldExists` shows that a fold of any length is well defined (by `Induction`, which is stated of a set of numbers, not of a
  predicate, so that the provers can use it); `NewestRuns`, `CountedRuns` and `RankedRuns` give the partial results of the three folds, of which the invariants of the loops are then
  proved: `EnumeratesNext` for the query, `TalliesNext` for the counting (each text once, with its number, in the order of first occurrence), `SortsNext` for the sort
  (in order, equals in the order of the list).
- `RankedEvidence` joins them: the first hit that reads a text is its latest line, there are no more texts than hits, so that the second cut never cuts.
- `EvidenceAccurate`, `LogTypeCorrect`: `EvidenceRanked`, `LogTypeOK`.

**`HwMonProofs`** assumes that the bounds are natural numbers and that "none" is no number, run or cursor. The number of runs is arbitrary.

- `HwTypeCorrect`: `HwTypeOK`, from `Typed`, which adds the shape of a run's variables and the bounds of the counters.
- `CursorInvariance`: as long as the log has not been truncated, `CursorInv` holds. `CursorPassesOnlyReported` speaks of the state file only;
  any run may overwrite that file later with a cursor it computed from a state read long before. So `CursorInv` says of *every* cursor, in the file, read by
  a run, or about to be written, that it is `Fit`: it is of a file created so far, within that file's length, and the lines before it are accounted
  for (or in the hands of the run about to write it); a journal cursor likewise for the lines older than it. A fit cursor stays fit (`FitStays`), since files
  are only appended to, a path that is given again names a newer file, and an accounted line stays so (`AccountedStays`). A line counts as passed from its first
  token on, because a size can fall inside it; `LogInv` says that its end follows next. No lock is needed.
- `CursorSafeUntilTruncated`, `CursorSafe`: `CursorPassesOnlyReported` in every state before the first truncation; always, where there is none (copytruncate is the documented exception).
- `OnceInvariance`: until a rotation begins or the state file is damaged, `OnceInv` holds, under the lock, in file mode and if the state can be written. It
  says that a run past its start holds the lock, so that the state it read is the state there is; that the offset it reads from and the cursor it writes are `Clear`: every line
  reported or in hand ends before it, within the file. After a truncation an offset may lie beyond the file, but then the file holds none of these lines: those
  it gets are new (`Fresh`).
- `LinesOnce`: `NoLineTwice` under these hypotheses and without damage. Each is needed: without `flock` two runs print the same lines, a state that cannot be written or is
  reset makes the next run print again, and a journal run reads a minute back.

Only model-checked: all liveness properties (`EventuallyHanded`, `DrainTerminates`, `AcceptedIsAnalysed`,
`StopTerminates`, `HandleEnds`, `OthersNotBlocked`, `ReportedUnlessLost`), which need fairness and ENABLED. Every other property of a passing run
is a theorem, under the hypotheses named above where there are any.

## 5. Where documents and code differ

Shown by a run (`findings` in `PROJECT.json`):

1. `linkage_stop_loses`: `Drain` (buffer.go:70-71) is meant to flush what is buffered, callbacks run synchronously, so that
   nothing is lost by a stop. A timer that takes an entry after the snapshot runs the analysis in its own
   goroutine; `Drain` passes over the key and `main` exits.
2. `log_search_name`: `ReverseSearch` (es.go:174) is described as matching messages that contain the host name *and*
   hit a keyword; the query joins both in one `should` (es.go:184), so a noisier neighbour wins.
3. `hwmon_rotation_loses`: "no missed reports" (kernel-hw-mon/README.md:5); what the old file got between the last read and a
   rotation is never read (kernel-hw-mon.sh:316-318). In the trace a run reads and prints line 1, line 2 is completed in the same file behind
   that read, the log is rotated before another run has read it, and the first run that finds the new inode starts the new file at 0 and leaves line 2
   unread for good. Wherever TLC's trace puts the rename, before or inside that next run, it passes this reset.
4. `hwmon_kill_loses`: "does not move the cursor, the next run retries" (kernel-hw-mon/README.md:183); the state is written before the metrics
   are printed (kernel-hw-mon.sh:348).

Met while reading, without a run of their own:

- buffer.go:66 says a merged alert refreshes the timer; it does not (`MergeInto` leaves `timers` alone).
- The linkage design (lines 99, 181) speaks of 30 minutes; the ttl is `dedup_minutes`, 10 by default (app.go:39).
- The design (lines 101, 119) merges alerts into one analysis; its search range ends at the first alert's trigger time (pipeline.go:54-61).
- notify.go:28 calls the channels serial; `Send` is concurrent.
- aggregate.go:18 applies `MaxLines` after merging; it is the query's size, too (pipeline.go:151).
- es.go:100 promises ascending time; the query sorts descending.
- kernel-hw-mon.sh:7 and the monitor design (line 51) put the cursor on a line boundary; the first run's is a size (sh:310).
- The monitor design (line 82) has a timestamp of the last success; it is printed on failure (sh:427).
- kernel-hw-mon/README.md:182 restarts at EOF after damage; a damaged offset becomes 0 (sh:127).
- es.go:81 says no types mean the keywords of all types; the code returns none (es.go:83), and a search without keywords takes every line (es.go:115).
- llm.go:149-151 name a think tag, but the first two texts looked for are two blanks and the word `response`; prose with these words loses what stands before them.
- llm_test.go:36 wants drafts inside the thoughts passed over; a draft in a fence of its own there wins if it is the last fence (llm.go:138-147), unless the opinion is fenced too.
- An answer of `{}`, `null` or a JSON object without the fields is a success with an empty opinion (llm.go:122).
- The design (line 155) retries once, (line 176) exponentially and also the write-back; the code tries three times after 5 s and 10 s (pipeline.go:103-110), an agent and a channel once.
- The design (line 155) reports every failed analysis; a panic sends nothing (pipeline.go:48-52), and the guard refuses copies for the ttl.
- The design (line 101) merges what arrives within the wait; windows are aligned to the clock (server.go:88), so that two alerts a second apart may be analysed apart.
- Labels under `event` hide the top-level ones even if they hold no host (model.go:24): a delivery that is half one layout, half the other is answered 400.
- The minutes of the configuration have no upper bound (config.go:102): beyond about 1.5e8 the duration overflows. `Config` takes integers without width.
- notify.go:131 gives WeCom's limit in bytes; the text is cut by characters (notify.go:133).
- `smtp.PlainAuth` refuses a connection without TLS to another host than localhost, and `Mail.Send` never starts TLS (notify.go:175-183): with a password set such mail always fails.
- sh:153 says the list of types is judged as the engine judges it; the engine strips a carriage return (sh:232) and `get_types` does not (sh:156), so that a rule with an empty expression in a file with CRLF counts as a rule.
- sh:8 and kernel-hw-mon/README.md:5 skip history on the first run only; a run that fell back to the journal makes the next file run start at EOF (sh:309, 382).

## 6. What is not modelled

- Elasticsearch, the model, the agent, SMTP, n9e: external; their answers are arbitrary.
- The order of equally large groups in the reverse search (taken to be arbitrary), and lines that enter the index out of the order of their times.
- JSON as text: an answer is made of whole objects, braces, fences and tags; arrays of objects and tags inside a string are left out, as are the formats of queries, prompts and reports.
- What a partly decoded answer leaves in the other fields beside a raw conclusion.
- Rendering, the protocols of the channels (one step that succeeds or fails), the prompt file, the rule name, logging.
- The width of integers in the configuration; a file that does not decode loads nothing and leads to no state.
- Scan mode, options, the monitor's own log, metric formats; gawk's regular expressions (a matching line is a line).
- Reuse of inode numbers (up to the file system), clock steps, several linkage instances (the guard is in-process by design).
- The alignment check, the skill and the ansible roles: no state.

## 7. Plan

The order followed the cost of a mistake: the buffer and the guard (an alert lost or a storm), their composition and
the shutdown, the monitor's cursor, the analysis, the evidence.

Done: the modules and runs above; the service and its buffer refine abstract specifications; the theorems of the buffer,
the guard, the service, the configuration, the analysis, the evidence and the monitor.

Next, models:

1. `HwMon` with overlapping runs *without* `flock`, and with journal and file mode alternating over two rotations.
2. An abstract specification of the monitor (each line reported, baselined or lost by a named event) that `HwMon` implements, as `BatchDelivery` is for the buffer.

Next, proofs: the refinement of item 2.
