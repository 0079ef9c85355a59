-------------------------------- MODULE HwMon --------------------------------
(***************************************************************************)
(* kernel-hw-mon.sh (src/kernel-hw-mon/kernel-hw-mon.sh) on one server:    *)
(* runs of the script, started every minute, read what was appended to the *)
(* log since the cursor in the state file, write the new cursor and then   *)
(* print the metrics.  Around them the log is written, rotated and         *)
(* truncated, and a run may be killed (Categraf's timeout) anywhere.       *)
(*                                                                         *)
(* Only lines that match a pattern are modelled.  A line is two tokens,    *)
(* the second of which ends it, so that a size or a cursor can fall inside *)
(* a line.  The path may name no file between rotation's rename and create;*)
(* the writer keeps its old file until it is told to reopen.               *)
(***************************************************************************)
EXTENDS Integers, Sequences, FiniteSets

CONSTANTS
  Runs,           \* processes that may run the script at the same time
  MaxLines,       \* bound: lines ever written
  MaxRotations,   \* bound: rotations (rename, create, reopen)
  MaxTruncations, \* bound: copytruncate rotations
  MaxCorruptions, \* bound: times the state file is damaged
  MaxFaults,      \* bound: faults of the kinds in Faults
  Faults,         \* which of "setup", "read", "write", "kill" may happen
  HasFlock,       \* flock is installed
  Journal,        \* values of the -j option runs are started with
  Reach,          \* how old a journal cursor may be: an hour
  MaxNow,         \* bound of the clock
  None

Lines  == 1 .. MaxLines
Inodes == 1 .. MaxRotations + 1
Token  == [line : Lines, end : BOOLEAN]
State  == [mode : {"file", "journal"}, ino : Nat, off : Nat, ts : Nat]

ASSUME HwMonAssumption ==
  /\ MaxLines \in Nat /\ MaxRotations \in Nat /\ MaxTruncations \in Nat
  /\ MaxCorruptions \in Nat /\ MaxFaults \in Nat /\ MaxNow \in Nat /\ Reach \in Nat
  /\ Faults \subseteq {"setup", "read", "write", "kill"}
  /\ HasFlock \in BOOLEAN /\ Journal \subseteq BOOLEAN
  /\ None \notin Runs \cup Nat \cup State

VARIABLES
  files,     \* inode -> its tokens
  path,      \* the inode the log's path names, or None
  writer,    \* the inode the log writer has open
  stamp,     \* when each line was completed, or None
  now,       \* the clock
  state,     \* the state file, parsed, or None
  lock,      \* the run that holds .lock, or None
  run,       \* each run's local variables
  reports,   \* history: how often each line was reported, 2 meaning more
  baseline,  \* history: lines skipped by a run that found no cursor
  skipped,   \* history: unreported lines a change of mode skipped
  dropped,   \* history: lines in the hands of a run killed before printing
  used       \* rotations, truncations, corruptions and faults so far

env   == <<files, path, writer, stamp, now>>
hist  == <<baseline, skipped, dropped>>
hwVars == <<env, state, lock, run, reports, hist, used>>

Idle == [pc |-> "idle", at |-> 0, st |-> None, ino |-> 0, off |-> 0,
         seen |-> {}, new |-> None]

Budget == [rotations |-> MaxRotations, truncations |-> MaxTruncations,
           corruptions |-> MaxCorruptions, faults |-> MaxFaults]

Spend(what) ==
  /\ used[what] < Budget[what]
  /\ used' = [used EXCEPT ![what] = @ + 1]

Fault(kind) == kind \in Faults /\ Spend("faults")

HwInit ==
  /\ files = [i \in Inodes |-> <<>>]
  /\ path = 1 /\ writer = 1
  /\ stamp = [l \in Lines |-> None]
  /\ now = 1
  /\ state = None /\ lock = None
  /\ run = [r \in Runs |-> Idle]
  /\ reports = [l \in Lines |-> 0]
  /\ baseline = {} /\ skipped = {} /\ dropped = {}
  /\ used = [w \in DOMAIN Budget |-> 0]

-----------------------------------------------------------------------------
(* The log and its writer: external to the script.                         *)

Complete(l) == stamp[l] # None
Started(l)  == \E i \in Inodes : \E j \in DOMAIN files[i] : files[i][j].line = l

(* Positions of a file; the whole lines among the tokens from+1 .. to.     *)
WholeLines(f, from, to) ==
  {f[j].line : j \in {j \in from + 2 .. to : f[j].end}}

MidLine == files[writer] # <<>> /\ ~files[writer][Len(files[writer])].end

AppendToken(l, end) ==
  /\ files' = [files EXCEPT ![writer] = Append(@, [line |-> l, end |-> end])]
  /\ stamp' = IF end THEN [stamp EXCEPT ![l] = now] ELSE stamp

LogWrites ==
  /\ \E l \in Lines :
       \/ ~MidLine /\ ~Complete(l) /\ (\A m \in 1 .. l - 1 : Complete(m)) /\ AppendToken(l, FALSE)
       \/ MidLine /\ l = files[writer][Len(files[writer])].line /\ AppendToken(l, TRUE)
  /\ UNCHANGED <<path, writer, now, state, lock, run, reports, hist, used>>

Rename ==
  /\ path # None /\ path = writer /\ Spend("rotations")
  /\ path' = None
  /\ UNCHANGED <<files, writer, stamp, now, state, lock, run, reports, hist>>

Create ==
  /\ path = None
  /\ path' = used.rotations + 1
  /\ UNCHANGED <<files, writer, stamp, now, state, lock, run, reports, hist, used>>

Reopen ==
  /\ path # None /\ path # writer /\ ~MidLine
  /\ writer' = path
  /\ UNCHANGED <<files, path, stamp, now, state, lock, run, reports, hist, used>>

Truncate ==
  /\ path # None /\ path = writer /\ ~MidLine /\ files[path] # <<>>
  /\ Spend("truncations")
  /\ files' = [files EXCEPT ![path] = <<>>]
  /\ UNCHANGED <<path, writer, stamp, now, state, lock, run, reports, hist>>

\* A damaged state file, as read_state takes it: a cursor whose offset is no
\* number is one at 0; without its inode or second it is no cursor.
Corrupt ==
  /\ state # None /\ Spend("corruptions")
  /\ \/ state.mode = "file" /\ state' = [state EXCEPT !.off = 0]
     \/ state' = None
  /\ UNCHANGED <<env, lock, run, reports, hist>>

Tick ==
  /\ now < MaxNow
  /\ now' = now + 1
  /\ UNCHANGED <<files, path, writer, stamp, state, lock, run, reports, hist, used>>

-----------------------------------------------------------------------------
(* One run of the script.                                                  *)

Step(r, pc, fields) == run' = [run EXCEPT ![r] = [fields EXCEPT !.pc = pc]]

Unlock(r) == lock' = IF lock = r THEN None ELSE lock

\* emit 0 1: the run ends with the failure metric only, the state untouched.
Fail(r) ==
  /\ run' = [run EXCEPT ![r] = Idle]
  /\ Unlock(r)
  /\ UNCHANGED <<env, state, reports, hist>>

Begin(r) ==
  /\ run[r].pc = "idle"
  /\ Step(r, "start", [Idle EXCEPT !.at = now])
  /\ UNCHANGED <<env, state, lock, reports, hist, used>>

\* No patterns, no gawk, no types, or a state directory it cannot use.
SetupFails(r) == run[r].pc = "start" /\ Fault("setup") /\ Fail(r)

\* flock -n, then read_state.
TakeLock(r) ==
  /\ run[r].pc = "start"
  /\ HasFlock => lock = None
  /\ lock' = IF HasFlock THEN r ELSE lock
  /\ Step(r, "mode", [run[r] EXCEPT !.st = state])
  /\ UNCHANGED <<env, state, reports, hist, used>>

Busy(r) ==
  /\ run[r].pc = "start" /\ HasFlock /\ lock # None
  /\ run' = [run EXCEPT ![r] = Idle]
  /\ UNCHANGED <<env, state, lock, reports, hist, used>>

ChooseMode(r) ==
  /\ run[r].pc = "mode"
  /\ \E j \in Journal : Step(r, IF j \/ path = None THEN "journal" ELSE "inode", run[r])
  /\ UNCHANGED <<env, state, lock, reports, hist, used>>

\* The two calls of stat, and all that follows from them.
StatInode(r) ==
  /\ run[r].pc = "inode"
  /\ \/ path = None /\ Fail(r) /\ UNCHANGED used
     \/ /\ path # None
        /\ Step(r, "size", [run[r] EXCEPT !.ino = path])
        /\ UNCHANGED <<env, state, lock, reports, hist, used>>

FileState(r, off) == [mode |-> "file", ino |-> run[r].ino, off |-> off, ts |-> run[r].at]

HasFileState(r) == run[r].st # None /\ run[r].st.mode = "file"

\* One byte before the cursor, to look for the line end there.
OffsetOneBack(r, size) ==
  IF run[r].st.ino # run[r].ino \/ run[r].st.off > size THEN 0 ELSE run[r].st.off - 1

Offset(r, size) ==
  IF run[r].st.ino # run[r].ino \/ run[r].st.off > size THEN 0 ELSE run[r].st.off

StartAtEOF(r, size) ==
  LET before == {files[path][j].line : j \in 1 .. size}
  IN  /\ ~HasFileState(r)
      /\ Step(r, "write", [run[r] EXCEPT !.new = FileState(r, size)])
      /\ IF run[r].st = None
         THEN baseline' = baseline \cup {l \in Lines : Started(l)} /\ UNCHANGED skipped
         ELSE /\ skipped' = skipped \cup {l \in before : reports[l] = 0}
              /\ UNCHANGED baseline

Unchanged(r, size) ==
  /\ HasFileState(r) /\ Offset(r, size) = size
  /\ Step(r, "write", [run[r] EXCEPT !.new = FileState(r, size)])
  /\ UNCHANGED <<baseline, skipped>>

Grown(r, size) ==
  /\ HasFileState(r) /\ Offset(r, size) # size
  /\ Step(r, "read", [run[r] EXCEPT !.off = Offset(r, size)])
  /\ UNCHANGED <<baseline, skipped>>

StatSize(r) ==
  /\ run[r].pc = "size"
  /\ \/ path = None /\ Fail(r) /\ UNCHANGED used
     \/ /\ path # None
        /\ LET size == Len(files[path])
           IN  StartAtEOF(r, size) \/ Unchanged(r, size) \/ Grown(r, size)
        /\ UNCHANGED <<env, state, lock, reports, dropped, used>>

\* tail -c | gawk: complete lines from the offset to the end of the file the
\* path names now.  A first line that lacks its head may match or not.
LastEnd(f, from) ==
  LET ends == {j \in from + 1 .. Len(f) : f[j].end}
  IN  IF ends = {} THEN from ELSE CHOOSE j \in ends : \A k \in ends : k <= j

Fragment(f, from) ==
  IF from > 0 /\ from < Len(f) /\ f[from + 1].end THEN {f[from + 1].line} ELSE {}

\* The cursor moved over an incomplete last line.
ConsumedToEnd(f, from) == IF Len(f) > from THEN Len(f) ELSE from

\* Bytes counted without the line end of the last line.
ConsumedShort(f, from) == IF LastEnd(f, from) > from THEN LastEnd(f, from) - 1 ELSE from

Consumed(f, from) == LastEnd(f, from)

ReadLog(r) ==
  /\ run[r].pc = "read" /\ path # None
  /\ LET f    == files[path]
         from == run[r].off
         to   == Consumed(f, from)
     IN  \E part \in SUBSET Fragment(f, from) :
           Step(r, "write", [run[r] EXCEPT !.new  = FileState(r, to),
                                           !.seen = WholeLines(f, from, to) \cup part])
  /\ UNCHANGED <<env, state, lock, reports, hist, used>>

ReadFails(r) ==
  /\ run[r].pc \in {"read", "journal"}
  /\ \/ run[r].pc = "read" /\ path = None /\ UNCHANGED used
     \/ Fault("read")
  /\ Fail(r)

\* journalctl --since: the last journal run's start, unless it is too old or
\* the last run was not a journal run; then a minute ago.
Continues(r) ==
  LET st == run[r].st
  IN  st # None /\ st.mode = "journal" /\ st.ts > 0 /\ st.ts <= run[r].at
        /\ run[r].at - st.ts <= Reach

Since(r) == IF Continues(r) THEN run[r].st.ts ELSE run[r].at - 1

JournalState(r) == [mode |-> "journal", ino |-> 0, off |-> 0, ts |-> run[r].at]

ReadJournal(r) ==
  /\ run[r].pc = "journal"
  /\ LET seen   == {l \in Lines : Complete(l) /\ stamp[l] >= Since(r)}
         missed == {l \in Lines : Complete(l) /\ stamp[l] < Since(r) /\ reports[l] = 0}
     IN  /\ Step(r, "write", [run[r] EXCEPT !.seen = seen, !.new = JournalState(r)])
         /\ baseline' = IF run[r].st = None THEN baseline \cup missed ELSE baseline
         /\ skipped' = IF run[r].st # None /\ ~Continues(r) THEN skipped \cup missed
                       ELSE skipped
  /\ UNCHANGED <<env, state, lock, reports, dropped, used>>

\* write_state: a temporary file and a rename; a failure goes unnoticed.
WriteState(r) ==
  /\ run[r].pc = "write"
  /\ \/ state' = run[r].new /\ UNCHANGED used
     \/ UNCHANGED state /\ Fault("write")
  /\ Step(r, "emit", run[r])
  /\ UNCHANGED <<env, lock, reports, hist>>

Emit(r) ==
  /\ run[r].pc = "emit"
  /\ reports' = [l \in Lines |-> IF l \in run[r].seen /\ reports[l] < 2
                                 THEN reports[l] + 1 ELSE reports[l]]
  /\ run' = [run EXCEPT ![r] = Idle]
  /\ Unlock(r)
  /\ UNCHANGED <<env, state, hist, used>>

Kill(r) ==
  /\ run[r].pc # "idle" /\ Fault("kill")
  /\ dropped' = IF run[r].pc = "emit" THEN dropped \cup run[r].seen ELSE dropped
  /\ run' = [run EXCEPT ![r] = Idle]
  /\ Unlock(r)
  /\ UNCHANGED <<env, state, reports, baseline, skipped>>

-----------------------------------------------------------------------------
Proceed(r) ==
  \/ TakeLock(r) \/ Busy(r) \/ ChooseMode(r) \/ StatInode(r) \/ StatSize(r)
  \/ ReadLog(r) \/ ReadFails(r) \/ ReadJournal(r) \/ WriteState(r) \/ Emit(r)

World == LogWrites \/ Rename \/ Create \/ Reopen \/ Truncate \/ Corrupt \/ Tick

HwNext ==
  \/ World
  \/ \E r \in Runs : Begin(r) \/ SetupFails(r) \/ Proceed(r) \/ Kill(r)

HwSpec == HwInit /\ [][HwNext]_hwVars

(* Runs are started again and again and go on until they end; a rotation   *)
(* completes and the clock advances.  Nothing has to be logged.            *)
HwFairness ==
  /\ \A r \in Runs : WF_hwVars(Begin(r)) /\ WF_hwVars(Proceed(r))
  /\ WF_hwVars(Create) /\ WF_hwVars(Reopen) /\ WF_hwVars(Tick)

FairHwSpec == HwSpec /\ HwFairness

-----------------------------------------------------------------------------
(* Properties.                                                             *)

HwTypeOK ==
  /\ files \in [Inodes -> Seq(Token)]
  /\ path \in Inodes \cup {None} /\ writer \in Inodes
  /\ stamp \in [Lines -> Nat \cup {None}] /\ now \in Nat
  /\ state \in State \cup {None} /\ lock \in Runs \cup {None}
  /\ \A r \in Runs :
       /\ run[r].pc \in {"idle", "start", "mode", "inode", "size", "read",
                        "journal", "write", "emit"}
       /\ run[r].st \in State \cup {None} /\ run[r].new \in State \cup {None}
       /\ run[r].ino \in Nat /\ run[r].off \in Nat /\ run[r].at \in Nat
       /\ run[r].seen \subseteq Lines
  /\ reports \in [Lines -> 0 .. 2]
  /\ baseline \cup skipped \cup dropped \subseteq Lines

InHand(l) == \E r \in Runs : run[r].pc = "emit" /\ l \in run[r].seen

\* The state file says that l need not be looked at again.
Passed(l) ==
  /\ state # None
  /\ CASE state.mode = "file" ->
            /\ state.ino = path
            /\ \E j \in DOMAIN files[path] :
                 j <= state.off /\ files[path][j] = [line |-> l, end |-> TRUE]
       [] OTHER -> Complete(l) /\ stamp[l] < state.ts

(* The cursor never passes a line that was not reported: whatever the      *)
(* interleaving of runs, writer, rotation, failing reads, failing state    *)
(* writes and kills, a line behind the cursor has been printed, is about   *)
(* to be, was in the hands of a run killed before printing, or was skipped *)
(* where the script starts at EOF or a minute ago (kernel-hw-mon.sh:297-   *)
(* 384).  Copytruncate is excepted, as README.md:181 says.                 *)
CursorPassesOnlyReported ==
  \A l \in Lines : Passed(l) =>
    reports[l] > 0 \/ l \in baseline \cup skipped \cup dropped \/ InHand(l)

(* Without rotation no line is reported twice: neither overlapping runs    *)
(* (the lock is taken before the state is read), nor half lines, failed    *)
(* reads, truncation or kills make a run print what another one printed    *)
(* (kernel-hw-mon.sh:451-463, 272-273).                                    *)
NoLineTwice == used.rotations = 0 => \A l \in Lines : reports[l] < 2

\* No run is under way; the cursor stands in the file the path names, behind
\* a line whose end the last read found and printed; l came to the file since.
LoggedSinceLastRead(l) ==
  /\ \A r \in Runs : run[r].pc = "idle"
  /\ state # None /\ state.mode = "file" /\ state.ino = path
  /\ LET f == files[path]
     IN  /\ state.off \in DOMAIN f /\ reports[f[state.off].line] > 0
         /\ l \in WholeLines(f, state.off, Len(f))

(* The README promises "no missed reports" (kernel-hw-mon/README.md:5): a  *)
(* line that a finished read has left behind its cursor is reported in the *)
(* end, whatever becomes of the file in between (kernel-hw-mon.sh:316).    *)
EventuallyReported ==
  \A l \in Lines : LoggedSinceLastRead(l) ~> reports[l] > 0

\* l can still be read: it is in the file the path names.
AtHand(l) == path # None /\ \E j \in DOMAIN files[path] : files[path][j].line = l

(* What does hold of it: failing reads, half lines, overlapping runs,      *)
(* rotations and kills delay a line and do not lose it, unless a rotation  *)
(* took its file away before it was read, the log was truncated, a run was *)
(* killed with the line in its hands, or the cursor changed its mode       *)
(* (kernel-hw-mon.sh:297-350).                                             *)
ReportedUnlessLost ==
  \A l \in Lines :
    Complete(l) ~> \/ reports[l] > 0
                   \/ l \in baseline \cup skipped \cup dropped
                   \/ ~AtHand(l)
                   \/ used.truncations > 0

(* README.md:183 says a script that ends abnormally does not move the      *)
(* cursor and the next run retries: what a killed run had found and not    *)
(* printed is still ahead of the cursor.                                   *)
KilledRunIsRetried ==
  \A l \in dropped : reports[l] = 0 => ~Passed(l)
=============================================================================
