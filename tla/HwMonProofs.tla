----------------------------- MODULE HwMonProofs -----------------------------
(***************************************************************************)
(* Proofs about the log monitor, for any number of overlapping runs,       *)
(* lines, rotations and faults.                                            *)
(***************************************************************************)
EXTENDS HwMon, WellFoundedInduction, TLAPS

\* A run's local variables.
Locals == [pc : {"idle", "start", "mode", "inode", "size", "read", "journal",
                 "write", "emit"},
           at : Nat, st : State \cup {None}, ino : Nat, off : Nat,
           seen : SUBSET Lines, new : State \cup {None}]

Kinds == {"rotations", "truncations", "corruptions", "faults"}

\* HwTypeOK, and what it leaves open: the shape of the locals and of used.
Typed ==
  /\ HwTypeOK
  /\ run \in [Runs -> Locals]
  /\ used \in [Kinds -> Nat]
  /\ \A w \in Kinds : used[w] <= Budget[w]

-----------------------------------------------------------------------------
(* Types.                                                                  *)

\* The initial state is typed.
LEMMA InitTyped ==
  HwInit => Typed
<1> SUFFICES ASSUME HwInit PROVE Typed
  OBVIOUS
<1>1. Idle \in Locals
  BY DEF Idle, Locals
<1>2. used = [w \in Kinds |-> 0] /\ \A w \in Kinds : Budget[w] \in Nat
  BY HwMonAssumption DEF HwInit, Budget, Kinds
<1> QED
  BY <1>1, <1>2, HwMonAssumption DEF HwInit, Typed, HwTypeOK, Inodes, Idle, Locals

\* Spending keeps a counter within its bound.
LEMMA SpendTyped ==
  ASSUME Typed, NEW w \in Kinds, Spend(w)
  PROVE  /\ used' \in [Kinds -> Nat]
         /\ \A v \in Kinds : used'[v] <= Budget[v]
         /\ \A v \in Kinds : v # w => used'[v] = used[v]
         /\ used'[w] = used[w] + 1
<1>1. \A v \in Kinds : Budget[v] \in Nat
  BY HwMonAssumption DEF Budget, Kinds
<1> QED
  BY <1>1 DEF Typed, Spend

\* The typing of the locals says all that HwTypeOK says of the runs.
LEMMA LocalsTyped ==
  ASSUME NEW x \in Locals
  PROVE  /\ x.pc \in {"idle", "start", "mode", "inode", "size", "read",
                      "journal", "write", "emit"}
         /\ x.st \in State \cup {None} /\ x.new \in State \cup {None}
         /\ x.ino \in Nat /\ x.off \in Nat /\ x.at \in Nat
         /\ x.seen \subseteq Lines
BY DEF Locals

\* A step of the log, its rotation, the clock or a damage keeps the types.
LEMMA WorldTyped ==
  ASSUME Typed, World
  PROVE  Typed'
<1>0. "rotations" \in Kinds /\ "truncations" \in Kinds /\ "corruptions" \in Kinds
  BY DEF Kinds
<1>1. CASE LogWrites
  <2>1. PICK l \in Lines, end \in BOOLEAN : AppendToken(l, end)
    BY <1>1 DEF LogWrites
  <2>2. [line |-> l, end |-> end] \in Token
    BY DEF Token
  <2>3. files' \in [Inodes -> Seq(Token)]
    BY <2>1, <2>2 DEF AppendToken, Typed, HwTypeOK
  <2>4. stamp' \in [Lines -> Nat \cup {None}]
    BY <2>1 DEF AppendToken, Typed, HwTypeOK
  <2> QED
    BY <1>1, <2>3, <2>4 DEF LogWrites, Typed, HwTypeOK, hist
<1>2. CASE Rename
  BY <1>0, <1>2, SpendTyped DEF Rename, Typed, HwTypeOK, hist
<1>3. CASE Create
  <2>1. used.rotations + 1 \in Inodes
    BY <1>0, HwMonAssumption DEF Typed, Kinds, Budget, Inodes
  <2> QED
    BY <1>3, <2>1 DEF Create, Typed, HwTypeOK, hist
<1>4. CASE Reopen
  BY <1>4 DEF Reopen, Typed, HwTypeOK, hist
<1>5. CASE Truncate
  BY <1>0, <1>5, SpendTyped DEF Truncate, Typed, HwTypeOK, hist
<1>6. CASE Corrupt
  <2>1. state' \in State \cup {None}
    BY <1>6 DEF Corrupt, Typed, HwTypeOK, State
  <2> QED
    BY <1>0, <1>6, <2>1, SpendTyped DEF Corrupt, Typed, HwTypeOK, env, hist
<1>7. CASE Tick
  BY <1>7 DEF Tick, Typed, HwTypeOK, hist
<1> QED
  BY <1>1, <1>2, <1>3, <1>4, <1>5, <1>6, <1>7 DEF World

\* Fail leaves a typed run; it is part of several actions.
LEMMA FailTyped ==
  ASSUME Typed, NEW r \in Runs, Fail(r), used' \in [Kinds -> Nat],
         \A w \in Kinds : used'[w] <= Budget[w]
  PROVE  Typed'
<1>1. Idle \in Locals
  BY DEF Idle, Locals
<1>2. run' \in [Runs -> Locals]
  BY <1>1 DEF Fail, Typed
<1> QED
  BY <1>2, LocalsTyped DEF Fail, Unlock, Typed, HwTypeOK, env, hist

\* A step that gives a run typed locals and keeps the lock a run's.
LEMMA StepTyped ==
  ASSUME Typed, NEW r \in Runs, NEW pc, NEW fields,
         [fields EXCEPT !.pc = pc] \in Locals, Step(r, pc, fields)
  PROVE  run' \in [Runs -> Locals]
BY DEF Step, Typed

\* A set of numbers that has a bound has a largest member.
LEMMA LargestOf ==
  ASSUME NEW S \in SUBSET Nat, S # {}, NEW n \in Nat, \A s \in S : s <= n
  PROVE  \E m \in S : \A s \in S : s <= m
<1> DEFINE R == OpToRel(<, Nat)
           T == {n - s : s \in S}
<1>1. \A x, y \in Nat : x < y => <<x, y>> \in R
  BY DEF OpToRel
<1>2. IsWellFoundedOn(R, Nat)
  BY NatLessThanWellFounded
<1> HIDE DEF R
<1>3. T \subseteq Nat
  OBVIOUS
<1>4. T # {}
  <2>1. PICK s \in S : TRUE
    OBVIOUS
  <2>2. n - s \in T
    OBVIOUS
  <2> QED
    BY <2>2
<1>5. PICK x \in T : \A y \in T : ~ (<<y, x>> \in R)
  <2> HIDE DEF T
  <2> QED
    BY <1>2, <1>3, <1>4, WFMin
<1>6. \A y \in T : ~(y < x)
  <2> HIDE DEF T
  <2> QED
    BY <1>1, <1>3, <1>5
<1>7. PICK m \in S : x = n - m
  OBVIOUS
<1>8. ASSUME NEW s \in S PROVE s <= m
  <2>1. n - s \in T
    OBVIOUS
  <2>2. ~(n - s < n - m)
    BY <1>6, <1>7, <2>1
  <2> QED
    BY <2>2
<1> QED
  BY <1>8

\* What a file holds at its positions.
LEMMA TokensTyped ==
  ASSUME NEW f \in Seq(Token), NEW j \in 1 .. Len(f)
  PROVE  f[j].line \in Lines /\ f[j].end \in BOOLEAN
<1>1. f[j] \in Token
  OBVIOUS
<1> QED
  BY <1>1 DEF Token

\* The last line end of a file after an offset: where the cursor goes.
LEMMA LastEndTyped ==
  ASSUME NEW f \in Seq(Token), NEW from \in Nat
  PROVE  /\ LastEnd(f, from) \in Nat
         /\ LastEnd(f, from) = from
              \/ (/\ LastEnd(f, from) \in from + 1 .. Len(f)
                  /\ f[LastEnd(f, from)].end)
         /\ \A j \in from + 1 .. Len(f) : f[j].end => j <= LastEnd(f, from)
<1> DEFINE ends == {j \in from + 1 .. Len(f) : f[j].end}
<1>1. CASE ends = {}
  BY <1>1 DEF LastEnd
<1>2. CASE ends # {}
  <2>1. \E j \in ends : \A k \in ends : k <= j
    <3>1. ends \subseteq Nat /\ (\A j \in ends : j <= Len(f)) /\ Len(f) \in Nat
      OBVIOUS
    <3> HIDE DEF ends
    <3> QED
      BY <1>2, <3>1, LargestOf
  <2>2. LastEnd(f, from) \in ends /\ \A k \in ends : k <= LastEnd(f, from)
    BY <1>2, <2>1 DEF LastEnd
  <2> QED
    BY <2>2
<1> QED
  BY <1>1, <1>2

\* Lines of a file are lines.
LEMMA LinesTyped ==
  ASSUME NEW f \in Seq(Token), NEW from \in Nat, NEW to \in Nat, to <= from \/ to <= Len(f)
  PROVE  /\ WholeLines(f, from, to) \subseteq Lines
         /\ Fragment(f, from) \subseteq Lines
<1>1. \A j \in 1 .. Len(f) : f[j].line \in Lines
  BY TokensTyped
<1>2. {j \in from + 2 .. to : f[j].end} \subseteq 1 .. Len(f)
  OBVIOUS
<1>3. WholeLines(f, from, to) \subseteq Lines
  BY <1>1, <1>2 DEF WholeLines
<1>4. Fragment(f, from) \subseteq Lines
  BY <1>1 DEF Fragment
<1> QED
  BY <1>3, <1>4

\* Every step of a run keeps the types.
LEMMA RunTyped ==
  ASSUME Typed, NEW r \in Runs, Begin(r) \/ SetupFails(r) \/ Proceed(r) \/ Kill(r)
  PROVE  Typed'
<1>0. "faults" \in Kinds /\ run[r] \in Locals
  BY DEF Kinds, Typed
<1>1. CASE Begin(r)
  <2>1. [[Idle EXCEPT !.at = now] EXCEPT !.pc = "start"] \in Locals
    BY DEF Idle, Locals, Typed, HwTypeOK
  <2>2. run' \in [Runs -> Locals]
    BY <1>1, <2>1, StepTyped DEF Begin
  <2> QED
    BY <1>1, <2>2, LocalsTyped DEF Begin, Typed, HwTypeOK, env, hist
<1>2. CASE SetupFails(r)
  BY <1>0, <1>2, FailTyped, SpendTyped DEF SetupFails, Fault
<1>3. CASE TakeLock(r)
  <2>1. [[run[r] EXCEPT !.st = state] EXCEPT !.pc = "mode"] \in Locals
    BY <1>0 DEF Locals, Typed, HwTypeOK
  <2>2. run' \in [Runs -> Locals]
    BY <1>3, <2>1, StepTyped DEF TakeLock
  <2> QED
    BY <1>3, <2>2, LocalsTyped DEF TakeLock, Typed, HwTypeOK, env, hist
<1>4. CASE Busy(r)
  <2>1. Idle \in Locals
    BY DEF Idle, Locals
  <2>2. run' \in [Runs -> Locals]
    BY <1>4, <2>1 DEF Busy, Typed
  <2> QED
    BY <1>4, <2>2, LocalsTyped DEF Busy, Typed, HwTypeOK, env, hist
<1>5. CASE ChooseMode(r)
  <2>1. \A pc \in {"journal", "inode"} : [run[r] EXCEPT !.pc = pc] \in Locals
    BY <1>0 DEF Locals
  <2>2. run' \in [Runs -> Locals]
    BY <1>5, <2>1, StepTyped DEF ChooseMode
  <2> QED
    BY <1>5, <2>2, LocalsTyped DEF ChooseMode, Typed, HwTypeOK, env, hist
<1>6. CASE StatInode(r)
  <2>1. CASE path = None /\ Fail(r) /\ UNCHANGED used
    BY <2>1, FailTyped DEF Typed
  <2>2. CASE path # None /\ Step(r, "size", [run[r] EXCEPT !.ino = path])
               /\ UNCHANGED <<env, state, lock, reports, hist, used>>
    <3>1. path \in Nat
      BY <2>2, HwMonAssumption DEF Typed, HwTypeOK, Inodes
    <3>2. [[run[r] EXCEPT !.ino = path] EXCEPT !.pc = "size"] \in Locals
      BY <1>0, <3>1 DEF Locals
    <3>3. run' \in [Runs -> Locals]
      BY <2>2, <3>2, StepTyped
    <3> QED
      BY <2>2, <3>3, LocalsTyped DEF Typed, HwTypeOK, env, hist
  <2> QED
    BY <1>6, <2>1, <2>2 DEF StatInode
<1>7. CASE StatSize(r)
  <2>1. CASE path = None /\ Fail(r) /\ UNCHANGED used
    BY <2>1, FailTyped DEF Typed
  <2>2. ASSUME path # None, NEW size, size = Len(files[path]),
               StartAtEOF(r, size) \/ Unchanged(r, size) \/ Grown(r, size),
               UNCHANGED <<env, state, lock, reports, dropped, used>>
        PROVE  Typed'
    <3>1. path \in Inodes /\ files[path] \in Seq(Token) /\ size \in Nat
      BY <2>2 DEF Typed, HwTypeOK
    <3>2. FileState(r, size) \in State
      BY <1>0, <3>1 DEF FileState, State, Locals
    <3>3. Offset(r, size) \in Nat \/ ~HasFileState(r)
      BY <1>0 DEF Offset, HasFileState, Locals, State
    <3>4. run' \in [Runs -> Locals]
      <4>1. [[run[r] EXCEPT !.new = FileState(r, size)] EXCEPT !.pc = "write"] \in Locals
        BY <1>0, <3>2 DEF Locals
      <4>2. CASE StartAtEOF(r, size) \/ Unchanged(r, size)
        BY <4>1, <4>2, StepTyped DEF StartAtEOF, Unchanged
      <4>3. CASE Grown(r, size)
        <5>1. [[run[r] EXCEPT !.off = Offset(r, size)] EXCEPT !.pc = "read"] \in Locals
          BY <1>0, <3>3, <4>3 DEF Locals, Grown
        <5> QED
          BY <4>3, <5>1, StepTyped DEF Grown
      <4> QED
        BY <2>2, <4>2, <4>3
    <3>5. (baseline \cup skipped)' \subseteq Lines
      <4>1. CASE StartAtEOF(r, size)
        <5>1. \A j \in 1 .. size : files[path][j].line \in Lines
          BY <2>2, <3>1, TokensTyped
        <5>2. {files[path][j].line : j \in 1 .. size} \subseteq Lines
          BY <5>1
        <5> QED
          BY <4>1, <5>2 DEF StartAtEOF, Typed, HwTypeOK
      <4>2. CASE Unchanged(r, size) \/ Grown(r, size)
        BY <4>2 DEF Unchanged, Grown, Typed, HwTypeOK
      <4> QED
        BY <2>2, <4>1, <4>2
    <3> QED
      BY <2>2, <3>4, <3>5, LocalsTyped DEF Typed, HwTypeOK, env
  <2> QED
    BY <1>7, <2>1, <2>2 DEF StatSize
<1>8. CASE ReadLog(r)
  <2>1. PICK to, part :
          /\ to = LastEnd(files[path], run[r].off)
          /\ part \subseteq Fragment(files[path], run[r].off)
          /\ Step(r, "write", [run[r] EXCEPT !.new = FileState(r, to),
                  !.seen = WholeLines(files[path], run[r].off, to) \cup part])
    BY <1>8 DEF ReadLog, Consumed
  <2>2. path \in Inodes /\ files[path] \in Seq(Token) /\ run[r].off \in Nat
    BY <1>0, <1>8 DEF ReadLog, Typed, HwTypeOK, Locals
  <2>3. to \in Nat
    BY <2>1, <2>2, LastEndTyped
  <2>4. FileState(r, to) \in State
    BY <1>0, <2>3 DEF FileState, State, Locals
  <2>5. WholeLines(files[path], run[r].off, to) \cup part \subseteq Lines
    <3>1. to <= run[r].off \/ to <= Len(files[path])
      BY <2>1, <2>2, LastEndTyped
    <3> QED
      BY <2>1, <2>2, <2>3, <3>1, LinesTyped
  <2>6. [[run[r] EXCEPT !.new = FileState(r, to),
             !.seen = WholeLines(files[path], run[r].off, to) \cup part]
           EXCEPT !.pc = "write"] \in Locals
    BY <1>0, <2>4, <2>5 DEF Locals
  <2>7. run' \in [Runs -> Locals]
    BY <2>1, <2>6, StepTyped
  <2> QED
    BY <1>8, <2>7, LocalsTyped DEF ReadLog, Typed, HwTypeOK, env, hist
<1>9. CASE ReadFails(r)
  BY <1>0, <1>9, FailTyped, SpendTyped DEF ReadFails, Fault, Typed
<1>10. CASE ReadJournal(r)
  <2>1. JournalState(r) \in State
    BY <1>0 DEF JournalState, State, Locals
  <2>2. \A seen \in SUBSET Lines :
          [[run[r] EXCEPT !.seen = seen, !.new = JournalState(r)] EXCEPT !.pc = "write"]
            \in Locals
    BY <1>0, <2>1 DEF Locals
  <2>3. run' \in [Runs -> Locals]
    <3> DEFINE seen == {l \in Lines : Complete(l) /\ stamp[l] >= Since(r)}
    <3>1. seen \in SUBSET Lines
      OBVIOUS
    <3>2. Step(r, "write", [run[r] EXCEPT !.seen = seen, !.new = JournalState(r)])
      BY <1>10 DEF ReadJournal
    <3> HIDE DEF seen
    <3> QED
      BY <2>2, <3>1, <3>2, StepTyped
  <2>4. (baseline \cup skipped)' \subseteq Lines
    BY <1>10 DEF ReadJournal, Typed, HwTypeOK
  <2> QED
    BY <1>10, <2>3, <2>4, LocalsTyped DEF ReadJournal, Typed, HwTypeOK, env
<1>11. CASE WriteState(r)
  <2>1. [run[r] EXCEPT !.pc = "emit"] \in Locals
    BY <1>0 DEF Locals
  <2>2. run' \in [Runs -> Locals]
    BY <1>11, <2>1, StepTyped DEF WriteState
  <2>3. state' \in State \cup {None}
    BY <1>0, <1>11 DEF WriteState, Typed, HwTypeOK, Locals
  <2>4. used' \in [Kinds -> Nat] /\ \A w \in Kinds : used'[w] <= Budget[w]
    BY <1>0, <1>11, SpendTyped DEF WriteState, Fault, Typed
  <2> QED
    BY <1>11, <2>2, <2>3, <2>4, LocalsTyped DEF WriteState, Typed, HwTypeOK, env, hist
<1>12. CASE Emit(r)
  <2>1. Idle \in Locals
    BY DEF Idle, Locals
  <2>2. run' \in [Runs -> Locals]
    BY <1>12, <2>1 DEF Emit, Typed
  <2>3. reports' \in [Lines -> 0 .. 2]
    BY <1>12 DEF Emit, Typed, HwTypeOK
  <2> QED
    BY <1>12, <2>2, <2>3, LocalsTyped DEF Emit, Unlock, Typed, HwTypeOK, env, hist
<1>13. CASE Kill(r)
  <2>1. Idle \in Locals
    BY DEF Idle, Locals
  <2>2. run' \in [Runs -> Locals]
    BY <1>13, <2>1 DEF Kill, Typed
  <2>3. dropped' \subseteq Lines
    BY <1>0, <1>13 DEF Kill, Typed, HwTypeOK, Locals
  <2>4. used' \in [Kinds -> Nat] /\ \A w \in Kinds : used'[w] <= Budget[w]
    BY <1>0, <1>13, SpendTyped DEF Kill, Fault
  <2> QED
    BY <1>13, <2>2, <2>3, <2>4, LocalsTyped DEF Kill, Unlock, Typed, HwTypeOK, env
<1> QED
  BY <1>1, <1>2, <1>3, <1>4, <1>5, <1>6, <1>7, <1>8, <1>9, <1>10, <1>11, <1>12, <1>13
     DEF Proceed

\* A stuttering step keeps the types.
LEMMA StutterTyped ==
  ASSUME Typed, UNCHANGED hwVars
  PROVE  Typed'
BY DEF Typed, HwTypeOK, hwVars, env, hist

\* The types are an invariant.
THEOREM HwTyped == HwSpec => []Typed
<1>1. Typed /\ [HwNext]_hwVars => Typed'
  BY WorldTyped, RunTyped, StutterTyped DEF HwNext
<1> QED
  BY <1>1, InitTyped, PTL DEF HwSpec

\* Every reachable state of the monitor is typed, for any number of runs,
\* lines, rotations and faults (kernel-hw-mon.sh:286-463).
THEOREM HwTypeCorrect == HwSpec => []HwTypeOK
<1>1. Typed => HwTypeOK
  BY DEF Typed
<1> QED
  BY <1>1, HwTyped, PTL

-----------------------------------------------------------------------------
(* The cursor passes only what was reported.                               *)

\* Files are numbered in the order of their creation: the newest so far.
Newest == used.rotations + (IF path = None THEN 0 ELSE 1)

\* The path names the newest file or none; a line is a start and its end,
\* next to each other in one file.
LogInv ==
  /\ path # None => path = Newest
  /\ \A i \in Inodes : \A j \in 1 .. Len(files[i]) :
       /\ files[i][j].end => j > 1 /\ ~files[i][j - 1].end
                               /\ files[i][j - 1].line = files[i][j].line
       /\ ~files[i][j].end /\ j < Len(files[i]) =>
            files[i][j + 1].end /\ files[i][j + 1].line = files[i][j].line

\* The lines that may lie behind the cursor.
Accounted ==
  {l \in Lines : reports[l] > 0 \/ l \in baseline \cup skipped \cup dropped \/ InHand(l)}

\* The cursors that pass no other lines than these and those in hand.  A file
\* cursor counts its line as passed from the line's first token on.
Fit == [hand \in SUBSET Lines |->
  {s \in State :
     /\ s.ino <= Newest
     /\ s.mode = "file" /\ s.ino = path =>
          /\ s.off <= Len(files[path])
          /\ \A j \in 1 .. s.off : files[path][j].line \in Accounted \cup hand
     /\ s.mode = "journal" =>
          /\ s.ts <= now
          /\ \A l \in Lines : Complete(l) /\ stamp[l] < s.ts => l \in Accounted \cup hand}]

\* The cursors a run holds are fit, the one it is about to write for the lines
\* that it prints next.
RunFit(r) ==
  /\ run[r].st \in Fit[{}] \cup {None}
  /\ run[r].ino <= Newest /\ run[r].at <= now
  /\ run[r].pc = "read" => FileState(r, run[r].off) \in Fit[{}]
  /\ run[r].pc = "write" => run[r].new \in Fit[run[r].seen]

\* Every cursor in the state file or in the hands of a run is fit.
CursorInv ==
  /\ state \in Fit[{}] \cup {None}
  /\ \A r \in Runs : RunFit(r)

\* Numbers of files are numbers.
LEMMA NewestTyped ==
  ASSUME Typed
  PROVE  Newest \in Nat /\ (path # None => path \in Nat /\ path \in Inodes)
BY DEF Typed, HwTypeOK, Kinds, Newest, Inodes

\* What every step that truncates nothing does to what cursors are about.
Grows ==
  /\ Accounted \subseteq Accounted'
  /\ Newest <= Newest'
  /\ path' # None => path' = path \/ path' > Newest
  /\ \A i \in Inodes : /\ Len(files[i]) <= Len(files'[i])
                       /\ \A j \in 1 .. Len(files[i]) : files'[i][j] = files[i][j]
  /\ now <= now'
  /\ \A l \in Lines : stamp'[l] = stamp[l] \/ (stamp'[l] # None /\ stamp'[l] >= now)

\* Such a step keeps every fit cursor fit.
LEMMA FitStays ==
  ASSUME Typed, Typed', Grows
  PROVE  \A hand \in SUBSET Lines : Fit[hand] \subseteq Fit'[hand]
<1> SUFFICES ASSUME NEW hand \in SUBSET Lines, NEW s \in Fit[hand]
             PROVE  s \in Fit'[hand]
  OBVIOUS
<1>1. /\ s \in State /\ s.ino \in Nat /\ s.off \in Nat /\ s.ts \in Nat /\ s.ino <= Newest
      /\ Newest \in Nat /\ Newest' \in Nat
      /\ now \in Nat /\ now' \in Nat
  <2>1. Newest' \in Nat
    BY DEF Typed, Newest, Kinds
  <2> QED
    BY <2>1, NewestTyped DEF Fit, State, Typed, HwTypeOK
<1>2. s.ino <= Newest'
  BY <1>1 DEF Grows
<1>3. ASSUME s.mode = "file", s.ino = path'
      PROVE  /\ s.off <= Len(files'[path'])
             /\ \A j \in 1 .. s.off : files'[path'][j].line \in Accounted' \cup hand
  <2>1. path' # None /\ path' = path /\ path \in Inodes
    BY <1>1, <1>3, HwMonAssumption, NewestTyped DEF Grows
  <2>2. /\ s.off <= Len(files[path])
        /\ \A j \in 1 .. s.off : files[path][j].line \in Accounted \cup hand
    BY <1>3, <2>1 DEF Fit
  <2>3. /\ Len(files[path]) \in Nat /\ Len(files'[path]) \in Nat
        /\ Len(files[path]) <= Len(files'[path])
        /\ \A j \in 1 .. Len(files[path]) : files'[path][j] = files[path][j]
    BY <2>1 DEF Grows, Typed, HwTypeOK
  <2>4. s.off <= Len(files'[path])
    BY <1>1, <2>2, <2>3
  <2>5. ASSUME NEW j \in 1 .. s.off
        PROVE  files'[path][j].line \in Accounted' \cup hand
    <3>1. files'[path][j] = files[path][j]
      BY <1>1, <2>2, <2>3
    <3>2. files[path][j].line \in Accounted \cup hand
      BY <2>2
    <3> QED
      BY <3>1, <3>2 DEF Grows
  <2> QED
    BY <2>1, <2>4, <2>5
<1>4. ASSUME s.mode = "journal"
      PROVE  /\ s.ts <= now'
             /\ \A l \in Lines : Complete(l)' /\ stamp'[l] < s.ts => l \in Accounted' \cup hand
  <2>1. /\ s.ts <= now
        /\ \A l \in Lines : Complete(l) /\ stamp[l] < s.ts => l \in Accounted \cup hand
    BY <1>4 DEF Fit
  <2>2. s.ts <= now'
    BY <1>1, <2>1 DEF Grows
  <2>3. ASSUME NEW l \in Lines, Complete(l)', stamp'[l] < s.ts
        PROVE  l \in Accounted' \cup hand
    <3>1. stamp'[l] \in Nat
      BY <2>3 DEF Complete, Typed, HwTypeOK
    <3>2. stamp'[l] = stamp[l]
      BY <1>1, <2>1, <2>3, <3>1 DEF Grows
    <3>3. l \in Accounted \cup hand
      BY <2>1, <2>3, <3>2 DEF Complete
    <3> QED
      BY <3>3 DEF Grows
  <2> QED
    BY <2>2, <2>3
<1> QED
  BY <1>1, <1>2, <1>3, <1>4 DEF Fit

\* A step of a run changes the locals of no other run, and what was reported
\* or skipped stays so.
LEMMA OthersStay ==
  ASSUME Typed, NEW r \in Runs, Begin(r) \/ SetupFails(r) \/ Proceed(r) \/ Kill(r)
  PROVE  /\ \A q \in Runs \ {r} : run'[q] = run[q]
         /\ \A l \in Lines : reports[l] > 0 => reports'[l] > 0
         /\ baseline \subseteq baseline' /\ skipped \subseteq skipped'
         /\ dropped \subseteq dropped'
<1> USE DEF Typed, HwTypeOK, hist
<1>1. CASE Begin(r) \/ SetupFails(r) \/ TakeLock(r) \/ Busy(r) \/ ChooseMode(r)
  BY <1>1 DEF Begin, SetupFails, TakeLock, Busy, ChooseMode, Fail, Step
<1>2. CASE StatInode(r) \/ ReadFails(r)
  BY <1>2 DEF StatInode, ReadFails, Fail, Step
<1>3. CASE StatSize(r)
  BY <1>3 DEF StatSize, StartAtEOF, Unchanged, Grown, Fail, Step
<1>4. CASE ReadLog(r)
  <2>1. \E fields : Step(r, "write", fields)
    BY <1>4 DEF ReadLog
  <2> QED
    BY <1>4, <2>1 DEF ReadLog, Step
<1>5. CASE ReadJournal(r) \/ WriteState(r)
  BY <1>5 DEF ReadJournal, WriteState, Step
<1>6. CASE Emit(r)
  <2>1. ASSUME NEW l \in Lines, reports[l] > 0 PROVE reports'[l] > 0
    <3>1. reports[l] \in 0 .. 2
      OBVIOUS
    <3> QED
      BY <1>6, <2>1, <3>1 DEF Emit
  <2>2. \A q \in Runs \ {r} : run'[q] = run[q]
    BY <1>6 DEF Emit
  <2> QED
    BY <1>6, <2>1, <2>2 DEF Emit
<1>7. CASE Kill(r)
  BY <1>7 DEF Kill
<1> QED
  BY <1>1, <1>2, <1>3, <1>4, <1>5, <1>6, <1>7 DEF Proceed

\* A line that is accounted for stays so: what a run has in hand is printed
\* or dropped when the run ends.
LEMMA AccountedStays ==
  ASSUME Typed, HwNext
  PROVE  Accounted \subseteq Accounted'
<1> SUFFICES ASSUME NEW l \in Accounted PROVE l \in Accounted'
  OBVIOUS
<1>0. l \in Lines /\ reports[l] \in 0 .. 2
  BY DEF Accounted, Typed, HwTypeOK
<1>1. CASE World
  BY <1>1 DEF World, LogWrites, Rename, Create, Reopen, Truncate, Corrupt, Tick, env, hist,
              Accounted, InHand
<1>2. ASSUME NEW r \in Runs, Begin(r) \/ SetupFails(r) \/ Proceed(r) \/ Kill(r)
      PROVE  l \in Accounted'
  <2>1. /\ reports[l] > 0 => reports'[l] > 0
        /\ baseline \subseteq baseline' /\ skipped \subseteq skipped'
        /\ dropped \subseteq dropped'
        /\ \A q \in Runs \ {r} : run'[q] = run[q]
    BY <1>0, <1>2, OthersStay
  <2>2. CASE reports[l] > 0 \/ l \in baseline \cup skipped \cup dropped
    BY <1>0, <2>1, <2>2 DEF Accounted
  <2>3. ASSUME NEW q \in Runs, run[q].pc = "emit", l \in run[q].seen
        PROVE  l \in Accounted'
    <3>1. CASE q # r
      <4>1. run'[q].pc = "emit" /\ l \in run'[q].seen
        BY <2>1, <2>3, <3>1
      <4> QED
        BY <1>0, <4>1 DEF Accounted, InHand
    <3>2. CASE q = r
      <4>1. Emit(r) \/ Kill(r)
        BY <1>2, <2>3, <3>2 DEF Begin, SetupFails, Proceed, TakeLock, Busy, ChooseMode,
             StatInode, StatSize, ReadLog, ReadFails, ReadJournal, WriteState
      <4>2. reports'[l] > 0 \/ l \in dropped'
        BY <1>0, <2>3, <3>2, <4>1 DEF Emit, Kill
      <4> QED
        BY <1>0, <4>2 DEF Accounted
    <3> QED
      BY <3>1, <3>2
  <2> QED
    BY <2>2, <2>3 DEF Accounted, InHand
<1> QED
  BY <1>1, <1>2 DEF HwNext

\* A run does not touch the log, nor its rotations and truncations.
LEMMA LogStays ==
  ASSUME Typed, NEW r \in Runs, Begin(r) \/ SetupFails(r) \/ Proceed(r) \/ Kill(r)
  PROVE  /\ UNCHANGED env
         /\ used'["rotations"] = used["rotations"]
         /\ used'["truncations"] = used["truncations"]
         /\ used'["corruptions"] = used["corruptions"]
<1>0. ASSUME NEW kind, Fault(kind)
      PROVE  \A w \in {"rotations", "truncations", "corruptions"} : used'[w] = used[w]
  BY <1>0, SpendTyped DEF Fault, Kinds
<1>1. CASE SetupFails(r) \/ ReadFails(r) \/ WriteState(r) \/ Kill(r)
  BY <1>0, <1>1 DEF SetupFails, ReadFails, WriteState, Kill, Fail
<1>2. CASE ~(SetupFails(r) \/ ReadFails(r) \/ WriteState(r) \/ Kill(r))
  BY <1>2 DEF Proceed, Begin, TakeLock, Busy, ChooseMode, StatInode, StatSize, ReadLog,
              ReadJournal, Emit, Fail
<1> QED
  BY <1>1, <1>2

\* The log's shape holds at first.
LEMMA InitLog ==
  HwInit => LogInv
BY HwMonAssumption DEF HwInit, LogInv, Newest, Inodes, Budget

\* Appending a token keeps the shape of the log.
LEMMA AppendKeepsShape ==
  ASSUME Typed, LogInv, LogWrites
  PROVE  LogInv' /\ Grows
<1>1. PICK l \in Lines, end \in BOOLEAN :
        /\ AppendToken(l, end)
        /\ end <=> MidLine
        /\ end => l = files[writer][Len(files[writer])].line
        /\ UNCHANGED <<path, writer, now, state, lock, run, reports, hist, used>>
  BY DEF LogWrites
<1> DEFINE f == files[writer]
<1>2. writer \in Inodes /\ f \in Seq(Token) /\ Len(f) \in Nat
  BY DEF Typed, HwTypeOK
<1>3. /\ files'[writer] = Append(f, [line |-> l, end |-> end])
      /\ \A i \in Inodes \ {writer} : files'[i] = files[i]
  BY <1>1, <1>2 DEF AppendToken, Typed, HwTypeOK
<1>4. /\ Len(files'[writer]) = Len(f) + 1
      /\ \A j \in 1 .. Len(f) : files'[writer][j] = f[j]
      /\ files'[writer][Len(f) + 1].line = l /\ files'[writer][Len(f) + 1].end = end
  <2> HIDE DEF f
  <2>1. [line |-> l, end |-> end] \in Token
    BY DEF Token
  <2>2. /\ Len(files'[writer]) = Len(f) + 1
        /\ \A j \in 1 .. Len(f) : files'[writer][j] = f[j]
        /\ files'[writer][Len(f) + 1] = [line |-> l, end |-> end]
    BY <1>2, <1>3, <2>1
  <2> QED
    BY <2>2
<1>5. end <=> (Len(f) > 0 /\ ~f[Len(f)].end)
  BY <1>1, <1>2 DEF MidLine
<1>6. ASSUME NEW i \in Inodes, NEW j \in 1 .. Len(files'[i])
      PROVE  /\ files'[i][j].end => j > 1 /\ ~files'[i][j - 1].end
                                      /\ files'[i][j - 1].line = files'[i][j].line
             /\ ~files'[i][j].end /\ j < Len(files'[i]) =>
                  files'[i][j + 1].end /\ files'[i][j + 1].line = files'[i][j].line
  <2>1. CASE i # writer
    BY <1>3, <1>6, <2>1 DEF LogInv
  <2>2. CASE i = writer /\ j < Len(f)
    <3> DEFINE g == files'[writer]
    <3>1. g[j] = f[j] /\ g[j + 1] = f[j + 1] /\ (j > 1 => g[j - 1] = f[j - 1]) /\ j \in 1 .. Len(f)
      <4> HIDE DEF f
      <4> QED
        BY <1>2, <1>4, <1>6, <2>2
    <3>2. /\ f[j].end => j > 1 /\ ~f[j - 1].end /\ f[j - 1].line = f[j].line
          /\ ~f[j].end => f[j + 1].end /\ f[j + 1].line = f[j].line
      BY <1>2, <2>2, <3>1 DEF LogInv
    <3> HIDE DEF f, g
    <3>3. /\ g[j].end => j > 1 /\ ~g[j - 1].end /\ g[j - 1].line = g[j].line
          /\ ~g[j].end => g[j + 1].end /\ g[j + 1].line = g[j].line
      BY <3>1, <3>2
    <3> QED
      BY <2>2, <3>3 DEF g
  <2>3. CASE i = writer /\ j = Len(f)
    <3> DEFINE g == files'[writer]
    <3>1. g[j] = f[j] /\ (j > 1 => g[j - 1] = f[j - 1]) /\ j \in 1 .. Len(f)
      <4> HIDE DEF f
      <4> QED
        BY <1>2, <1>4, <1>6, <2>3
    <3>2. f[j].end => j > 1 /\ ~f[j - 1].end /\ f[j - 1].line = f[j].line
      BY <1>2, <2>3, <3>1 DEF LogInv
    <3>3. ~f[j].end => g[j + 1].end /\ g[j + 1].line = f[j].line
      BY <1>1, <1>4, <1>5, <2>3, <3>1
    <3> HIDE DEF f, g
    <3>4. /\ g[j].end => j > 1 /\ ~g[j - 1].end /\ g[j - 1].line = g[j].line
          /\ ~g[j].end => g[j + 1].end /\ g[j + 1].line = g[j].line
      BY <3>1, <3>2, <3>3
    <3> QED
      BY <2>3, <3>4 DEF g
  <2>4. CASE i = writer /\ j = Len(f) + 1
    <3>1. files'[writer][j].end => Len(f) > 0 /\ files'[writer][Len(f)] = f[Len(f)]
      BY <1>2, <1>4, <1>5, <2>4
    <3>2. ~(j < Len(files'[i]))
      BY <1>2, <1>4, <2>4
    <3>3. files'[writer][j].end =>
            /\ j > 1 /\ j - 1 = Len(f)
            /\ ~files'[writer][Len(f)].end
            /\ files'[writer][Len(f)].line = files'[writer][j].line
      BY <1>1, <1>2, <1>4, <1>5, <2>4, <3>1
    <3> QED
      BY <2>4, <3>2, <3>3
  <2> QED
    BY <1>2, <1>4, <1>6, <2>1, <2>2, <2>3, <2>4
<1>7. path' # None => path' = Newest'
  BY <1>1 DEF LogInv, Newest
<1>8. LogInv'
  BY <1>6, <1>7 DEF LogInv
<1>9. Accounted \subseteq Accounted'
  BY AccountedStays DEF HwNext, World
<1>10. ASSUME NEW i \in Inodes
       PROVE  /\ Len(files[i]) <= Len(files'[i])
              /\ \A j \in 1 .. Len(files[i]) : files'[i][j] = files[i][j]
  <2>1. CASE i # writer
    BY <1>3, <2>1 DEF Typed, HwTypeOK
  <2>2. CASE i = writer
    BY <1>2, <1>4, <2>2
  <2> QED
    BY <2>1, <2>2
<1>11. /\ Newest <= Newest' /\ now <= now' /\ path' = path
  BY <1>1, NewestTyped DEF Newest, Typed, HwTypeOK
<1>12. ASSUME NEW m \in Lines
       PROVE  stamp'[m] = stamp[m] \/ (stamp'[m] # None /\ stamp'[m] >= now)
  BY <1>1, HwMonAssumption DEF AppendToken, Typed, HwTypeOK
<1> QED
  BY <1>8, <1>9, <1>10, <1>11, <1>12 DEF Grows

\* Steps that leave the files alone keep the shape of the log and grow it.
LEMMA SameFiles ==
  ASSUME Typed, LogInv, HwNext, UNCHANGED <<files, stamp>>, now' \in {now, now + 1},
         \/ UNCHANGED path /\ used'["rotations"] = used["rotations"]
         \/ Rename \/ Create
  PROVE  LogInv' /\ Grows
<1>1. Newest \in Nat /\ (path # None => path = Newest)
  BY NewestTyped DEF LogInv
<1>2. /\ Newest <= Newest'
      /\ path' # None => path' = Newest' /\ (path' = path \/ path' > Newest)
  <2>1. CASE UNCHANGED path /\ used'["rotations"] = used["rotations"]
    BY <1>1, <2>1 DEF Newest
  <2>2. CASE Rename
    <3>1. used'["rotations"] = used["rotations"] + 1 /\ used["rotations"] \in Nat
      BY <2>2, SpendTyped DEF Rename, Kinds, Typed
    <3> QED
      BY <1>1, <2>2, <3>1 DEF Rename, Newest
  <2>3. CASE Create
    <3>1. used["rotations"] \in Nat /\ used' = used
      BY <2>3 DEF Create, Kinds, Typed
    <3>2. used["rotations"] + 1 # None
      BY <3>1, HwMonAssumption
    <3> QED
      BY <1>1, <2>3, <3>1, <3>2 DEF Create, Newest
  <2> QED
    BY <2>1, <2>2, <2>3
<1>3. Accounted \subseteq Accounted'
  BY AccountedStays
<1>4. \A i \in Inodes : Len(files[i]) <= Len(files[i])
  BY DEF Typed, HwTypeOK
<1>5. now <= now'
  BY DEF Typed, HwTypeOK
<1>6. LogInv'
  BY <1>2 DEF LogInv
<1> QED
  BY <1>2, <1>3, <1>4, <1>5, <1>6 DEF Grows

\* Every step keeps the shape of the log, and but for a truncation it grows.
LEMMA StepLog ==
  ASSUME Typed, LogInv, HwNext
  PROVE  LogInv' /\ (used'["truncations"] = 0 => Grows)
<1>1. CASE LogWrites
  BY <1>1, AppendKeepsShape
<1>2. CASE Rename \/ Create
  BY <1>2, SameFiles DEF Rename, Create
<1>3. CASE Reopen \/ Tick
  BY <1>3, SameFiles DEF Reopen, Tick
<1>4. CASE Corrupt
  <2>1. used'["rotations"] = used["rotations"]
    BY <1>4, SpendTyped DEF Corrupt, Kinds
  <2> QED
    BY <1>4, <2>1, SameFiles DEF Corrupt, env
<1>5. CASE Truncate
  <2>1. /\ used'["truncations"] = used["truncations"] + 1
        /\ used'["rotations"] = used["rotations"]
        /\ used["truncations"] \in Nat
    BY <1>5, SpendTyped DEF Truncate, Kinds, Typed
  <2>2. \A i \in Inodes : files'[i] = files[i] \/ files'[i] = <<>>
    BY <1>5 DEF Truncate, Typed, HwTypeOK
  <2>3. path' # None => path' = Newest'
    BY <1>5, <2>1 DEF Truncate, LogInv, Newest
  <2> QED
    BY <2>1, <2>2, <2>3 DEF LogInv
<1>6. ASSUME NEW r \in Runs, Begin(r) \/ SetupFails(r) \/ Proceed(r) \/ Kill(r)
      PROVE  LogInv' /\ Grows
  BY <1>6, LogStays, SameFiles DEF env
<1> QED
  BY <1>1, <1>2, <1>3, <1>4, <1>5, <1>6 DEF HwNext, World

\* The shape of the log is an invariant.
LEMMA LogShape == HwSpec => []LogInv
<1>1. Typed /\ LogInv /\ [HwNext]_hwVars => LogInv'
  <2>1. ASSUME LogInv, UNCHANGED hwVars PROVE LogInv'
    BY <2>1 DEF LogInv, Newest, hwVars, env
  <2> QED
    BY <2>1, StepLog
<1> QED
  BY <1>1, InitLog, HwTyped, PTL DEF HwSpec

\* A file cursor is fit when the lines before it are accounted for or in hand.
LEMMA FileFit ==
  ASSUME Typed, NEW r \in Runs, NEW off \in Nat, NEW hand \in SUBSET Lines,
         run[r].ino <= Newest,
         run[r].ino = path =>
           /\ off <= Len(files[path])
           /\ \A j \in 1 .. off : files[path][j].line \in Accounted \cup hand
  PROVE  FileState(r, off) \in Fit[hand]
<1>1. FileState(r, off) \in State
  BY DEF FileState, State, Typed, HwTypeOK
<1>2. /\ FileState(r, off).ino = run[r].ino /\ FileState(r, off).off = off
      /\ FileState(r, off).mode = "file"
  BY DEF FileState
<1> QED
  BY <1>1, <1>2 DEF Fit

\* What is accounted for after a step need not be in hand.
LEMMA FitWithout ==
  ASSUME NEW hand \in SUBSET Lines, NEW rest \in SUBSET Lines,
         hand \subseteq Accounted' \cup rest, NEW s \in Fit'[hand]
  PROVE  s \in Fit'[rest]
BY DEF Fit

\* A run that does not move keeps its cursors fit.
LEMMA RunStaysFit ==
  ASSUME Typed, Typed', Grows, NEW q \in Runs, RunFit(q), run'[q] = run[q]
  PROVE  RunFit(q)'
<1>1. /\ Fit[{}] \subseteq Fit'[{}]
      /\ Fit[run[q].seen] \subseteq Fit'[run[q].seen]
  BY FitStays DEF Typed, HwTypeOK
<1>2. run[q].ino <= Newest' /\ run[q].at <= now'
  <2>1. /\ Newest \in Nat /\ now \in Nat /\ now' \in Nat
        /\ run[q].ino \in Nat /\ run[q].at \in Nat
    BY NewestTyped DEF Typed, HwTypeOK
  <2>2. Newest' \in Nat
    BY DEF Typed, Newest, Kinds
  <2> QED
    BY <2>1, <2>2 DEF RunFit, Grows
<1>3. run'[q].pc = "read" => FileState(q, run[q].off)' \in Fit'[{}]
  BY <1>1 DEF RunFit, FileState
<1> QED
  BY <1>1, <1>2, <1>3 DEF RunFit

\* Steps of the log, its rotation, the clock and damage to the state file.
LEMMA WorldCursor ==
  ASSUME Typed, Typed', Grows, CursorInv, World
  PROVE  CursorInv'
<1>1. run' = run
  BY DEF World, LogWrites, Rename, Create, Reopen, Truncate, Corrupt, Tick
<1>2. Fit[{}] \subseteq Fit'[{}]
  BY FitStays
<1>3. state' \in Fit'[{}] \cup {None}
  <2>1. CASE Corrupt /\ state' # None
    <3>1. state \in Fit[{}] /\ state' = [state EXCEPT !.off = 0] /\ state.mode = "file"
      BY <2>1 DEF Corrupt, CursorInv
    <3>2. /\ state' \in State /\ state'.ino = state.ino /\ state'.off = 0
          /\ state'.mode = "file"
      BY <3>1 DEF Fit, State
    <3>3. path \in Inodes => Len(files[path]) >= 0
      BY DEF Typed, HwTypeOK
    <3>4. state.ino \in Nat /\ state.ino <= Newest
      BY <3>1 DEF Fit, State
    <3>5. state.ino = path => path \in Inodes
      BY <3>4, HwMonAssumption DEF Typed, HwTypeOK
    <3>6. state' \in Fit[{}]
      BY <3>2, <3>3, <3>4, <3>5 DEF Fit
    <3> QED
      BY <1>2, <3>6
  <2>2. CASE ~Corrupt
    BY <1>2, <2>2 DEF CursorInv, World, LogWrites, Rename, Create, Reopen, Truncate, Tick
  <2> QED
    BY <2>1, <2>2
<1>4. \A q \in Runs : RunFit(q)'
  BY <1>1, RunStaysFit DEF CursorInv
<1> QED
  BY <1>3, <1>4 DEF CursorInv

\* A run that starts or has ended holds no cursor.
LEMMA IdleFit ==
  ASSUME Typed', NEW r \in Runs, run'[r].st = None, run'[r].ino = 0, run'[r].at <= now',
         run'[r].pc \in {"idle", "start"}
  PROVE  RunFit(r)'
<1>1. 0 <= Newest'
  BY DEF Typed, Newest, Kinds
<1> QED
  BY <1>1 DEF RunFit

\* The two calls of stat leave a run with a fit cursor.
LEMMA StatFit ==
  ASSUME Typed, Typed', Grows, NEW r \in Runs, RunFit(r), path # None, LogInv,
         run[r].ino <= Newest, NEW size, size = Len(files[path]),
         StartAtEOF(r, size) \/ Unchanged(r, size) \/ Grown(r, size),
         UNCHANGED <<env, used, reports, dropped>>
  PROVE  RunFit(r)'
<1>1. /\ path \in Inodes /\ files[path] \in Seq(Token) /\ size \in Nat
      /\ run[r] \in Locals /\ Newest' = Newest /\ now' = now
  BY DEF Typed, HwTypeOK, env, Newest
<1>2. \A hand \in SUBSET Lines : Fit[hand] \subseteq Fit'[hand]
  BY FitStays
<1>3. CASE StartAtEOF(r, size)
  <2> DEFINE before == {files[path][j].line : j \in 1 .. size}
  <2>1. before \in SUBSET Lines
    BY <1>1, TokensTyped
  <2>2. \A j \in 1 .. size : files[path][j].line \in Accounted \cup before
    OBVIOUS
  <2>3. before \subseteq Accounted'
    <3>1. ASSUME NEW l \in before, run[r].st = None PROVE l \in baseline'
      <4>1. Started(l) /\ l \in Lines
        BY <1>1, <2>1 DEF Started
      <4> QED
        BY <1>3, <3>1, <4>1 DEF StartAtEOF
    <3>2. ASSUME NEW l \in before, run[r].st # None PROVE l \in skipped' \/ reports[l] # 0
      BY <1>3, <3>2 DEF StartAtEOF
    <3>3. \A l \in Lines : reports'[l] \in 0 .. 2 /\ reports'[l] = reports[l]
      BY DEF Typed, HwTypeOK
    <3> HIDE DEF before
    <3> QED
      BY <2>1, <3>1, <3>2, <3>3 DEF Accounted
  <2> HIDE DEF before
  <2>4. FileState(r, size) \in Fit[before]
    BY <1>1, <2>1, <2>2, FileFit
  <2>5. run' = [run EXCEPT ![r] =
                  [[run[r] EXCEPT !.new = FileState(r, size)] EXCEPT !.pc = "write"]]
    BY <1>3 DEF StartAtEOF, Step
  <2>6. /\ run'[r].new = FileState(r, size) /\ run'[r].pc = "write"
        /\ run'[r].st = run[r].st /\ run'[r].ino = run[r].ino /\ run'[r].at = run[r].at
        /\ run'[r].seen \in SUBSET Lines
    BY <1>1, <2>5 DEF Typed, Locals
  <2>7. FileState(r, size) \in Fit'[run'[r].seen]
    BY <1>2, <2>1, <2>3, <2>4, <2>6, FitWithout
  <2> QED
    BY <1>1, <1>2, <2>6, <2>7 DEF RunFit
<1>4. ASSUME HasFileState(r), run[r].ino = path
      PROVE  /\ Offset(r, size) \in Nat /\ Offset(r, size) <= size
             /\ \A j \in 1 .. Offset(r, size) : files[path][j].line \in Accounted
  <2>1. /\ run[r].st \in Fit[{}] /\ run[r].st.mode = "file" /\ run[r].st.off \in Nat
    BY <1>4 DEF HasFileState, RunFit, Fit, State
  <2>2. CASE run[r].st.ino # run[r].ino \/ run[r].st.off > size
    BY <1>1, <2>2 DEF Offset
  <2>3. CASE ~(run[r].st.ino # run[r].ino \/ run[r].st.off > size)
    <3>1. Offset(r, size) = run[r].st.off
      BY <2>3 DEF Offset
    <3>2. \A j \in 1 .. run[r].st.off : files[path][j].line \in Accounted
      BY <1>4, <2>1, <2>3 DEF Fit
    <3> QED
      BY <1>1, <2>1, <2>3, <3>1, <3>2
  <2> QED
    BY <2>2, <2>3
<1>5. ASSUME HasFileState(r)
      PROVE  /\ Offset(r, size) \in Nat
             /\ FileState(r, Offset(r, size)) \in Fit[{}]
  <2>1. Offset(r, size) \in Nat
    BY <1>1, <1>5 DEF Offset, HasFileState, Locals, State
  <2>2. run[r].ino = path =>
           /\ Offset(r, size) <= Len(files[path])
           /\ \A j \in 1 .. Offset(r, size) : files[path][j].line \in Accounted \cup {}
    BY <1>4, <1>5
  <2>3. {} \in SUBSET Lines
    OBVIOUS
  <2> QED
    BY <2>1, <2>2, <2>3, FileFit
<1>6. CASE Unchanged(r, size)
  <2>1. run' = [run EXCEPT ![r] =
                  [[run[r] EXCEPT !.new = FileState(r, size)] EXCEPT !.pc = "write"]]
    BY <1>6 DEF Unchanged, Step
  <2>2. /\ run'[r].new = FileState(r, size) /\ run'[r].pc = "write"
        /\ run'[r].st = run[r].st /\ run'[r].ino = run[r].ino /\ run'[r].at = run[r].at
        /\ run'[r].seen \in SUBSET Lines
    BY <1>1, <2>1 DEF Typed, Locals
  <2>3. FileState(r, size) \in Fit[{}]
    BY <1>5, <1>6 DEF Unchanged
  <2>4. FileState(r, size) \in Fit'[run'[r].seen]
    BY <1>2, <2>2, <2>3, FitWithout
  <2> QED
    BY <1>1, <1>2, <2>2, <2>4 DEF RunFit
<1>7. CASE Grown(r, size)
  <2>1. run' = [run EXCEPT ![r] =
                  [[run[r] EXCEPT !.off = Offset(r, size)] EXCEPT !.pc = "read"]]
    BY <1>7 DEF Grown, Step
  <2>2. /\ run'[r].off = Offset(r, size) /\ run'[r].pc = "read"
        /\ run'[r].st = run[r].st /\ run'[r].ino = run[r].ino /\ run'[r].at = run[r].at
    BY <1>1, <2>1 DEF Typed, Locals
  <2>3. FileState(r, run[r].off)' = FileState(r, Offset(r, size))
    BY <2>2 DEF FileState
  <2>4. FileState(r, run[r].off)' \in Fit'[{}]
    BY <1>2, <1>5, <1>7, <2>3 DEF Grown
  <2> QED
    BY <1>1, <1>2, <2>2, <2>4 DEF RunFit
<1> QED
  BY <1>3, <1>6, <1>7

\* Reading the log moves the cursor over the lines that the run then has in
\* hand: a line that ends behind the cursor began behind it or is in hand.
LEMMA ReadFit ==
  ASSUME Typed, Typed', Grows, LogInv, NEW r \in Runs, RunFit(r), ReadLog(r)
  PROVE  RunFit(r)'
<1> DEFINE f == files[path]
           from == run[r].off
           to == LastEnd(f, from)
<1>1. PICK part :
        /\ part \subseteq Fragment(f, from)
        /\ Step(r, "write", [run[r] EXCEPT !.new = FileState(r, to),
                                           !.seen = WholeLines(f, from, to) \cup part])
  BY DEF ReadLog, Consumed
<1> DEFINE seen == WholeLines(f, from, to) \cup part
<1>2. /\ path \in Inodes /\ f \in Seq(Token) /\ from \in Nat /\ Len(f) \in Nat
      /\ run[r] \in Locals /\ run[r].pc = "read"
  <2>1. path # None /\ run[r].pc = "read"
    BY DEF ReadLog
  <2> QED
    BY <2>1 DEF Typed, HwTypeOK
<1>3. /\ to \in Nat
      /\ to = from \/ (to \in from + 1 .. Len(f) /\ f[to].end)
      /\ to <= from \/ to <= Len(f)
  <2>1. /\ to \in Nat
        /\ to = from \/ (to \in from + 1 .. Len(f) /\ f[to].end)
    BY <1>2, LastEndTyped
  <2> HIDE DEF to, f, from
  <2> QED
    BY <1>2, <2>1
<1> HIDE DEF to
<1>4. seen \in SUBSET Lines
  BY <1>1, <1>2, <1>3, LinesTyped
<1>5. ASSUME run[r].ino = path
      PROVE  /\ to <= Len(f)
             /\ \A j \in 1 .. to : f[j].line \in Accounted \cup seen
  <2>1. from <= Len(f) /\ \A j \in 1 .. from : f[j].line \in Accounted
    <3>1. FileState(r, from) \in Fit[{}] /\ FileState(r, from).mode = "file"
            /\ FileState(r, from).ino = path /\ FileState(r, from).off = from
      BY <1>2, <1>5 DEF RunFit, FileState
    <3> QED
      BY <3>1 DEF Fit
  <2>2. ASSUME NEW j \in from + 1 .. to PROVE f[j].line \in Accounted \cup seen
    <3>0. j \in 1 .. Len(f) /\ f[to].end /\ to \in from + 1 .. Len(f)
      BY <1>2, <1>3, <2>2
    <3>1. CASE f[j].end /\ j >= from + 2
      <4>1. j \in {k \in from + 2 .. to : f[k].end}
        BY <1>2, <1>3, <2>2, <3>1
      <4> QED
        BY <4>1 DEF WholeLines
    <3>2. CASE f[j].end /\ j = from + 1
      <4>1. j > 1 /\ f[j - 1].line = f[j].line
        BY <1>2, <3>0, <3>2 DEF LogInv
      <4>2. j - 1 = from /\ from \in 1 .. from
        BY <1>2, <3>2, <4>1
      <4> QED
        BY <2>1, <4>1, <4>2
    <3>3. CASE ~f[j].end
      <4>1. j < to /\ j < Len(f) /\ j + 1 \in from + 2 .. to
        BY <1>2, <3>0, <3>3, <2>2
      <4>2. f[j + 1].end /\ f[j + 1].line = f[j].line
        BY <1>2, <3>0, <3>3, <4>1 DEF LogInv
      <4>3. j + 1 \in {k \in from + 2 .. to : f[k].end}
        BY <4>1, <4>2
      <4>4. f[j + 1].line \in seen
        BY <4>3 DEF WholeLines
      <4> QED
        BY <4>2, <4>4
    <3>4. j = from + 1 \/ j >= from + 2
      BY <1>2, <1>3, <2>2
    <3> QED
      BY <3>1, <3>2, <3>3, <3>4
  <2>3. to <= Len(f)
    BY <1>2, <1>3, <2>1
  <2> HIDE DEF f, from, seen
  <2>4. ASSUME NEW j \in 1 .. to PROVE f[j].line \in Accounted \cup seen
    <3>1. j \in 1 .. from \/ j \in from + 1 .. to
      BY <1>2, <1>3, <2>4
    <3> QED
      BY <2>1, <2>2, <3>1
  <2> QED
    BY <2>3, <2>4
<1>6. FileState(r, to) \in Fit[seen]
  <2>1. run[r].ino <= Newest
    BY DEF RunFit
  <2> HIDE DEF seen, from
  <2> QED
    BY <1>3, <1>4, <1>5, <2>1, FileFit
<1>7. FileState(r, to) \in Fit'[seen]
  BY <1>4, <1>6, FitStays
<1> HIDE DEF seen
<1>8. run' = [run EXCEPT ![r] = [[run[r] EXCEPT !.new = FileState(r, to), !.seen = seen]
                                   EXCEPT !.pc = "write"]]
  BY <1>1 DEF Step, seen
<1>9. /\ run'[r].new = FileState(r, to) /\ run'[r].pc = "write" /\ run'[r].seen = seen
      /\ run'[r].st = run[r].st /\ run'[r].ino = run[r].ino /\ run'[r].at = run[r].at
  BY <1>2, <1>8 DEF Typed, Locals
<1>10. Newest' = Newest /\ now' = now
  BY DEF ReadLog, env, Newest
<1>11. Fit[{}] \subseteq Fit'[{}]
  BY FitStays
<1> QED
  BY <1>7, <1>9, <1>10, <1>11 DEF RunFit

\* Reading the journal leaves no older line that is neither accounted for, in
\* hand, nor skipped in this step.
LEMMA JournalFit ==
  ASSUME Typed, Typed', Grows, NEW r \in Runs, RunFit(r), ReadJournal(r)
  PROVE  RunFit(r)'
<1> DEFINE seen   == {l \in Lines : Complete(l) /\ stamp[l] >= Since(r)}
           missed == {l \in Lines : Complete(l) /\ stamp[l] < Since(r) /\ reports[l] = 0}
           hand   == IF run[r].st = None \/ ~Continues(r) THEN seen \cup missed ELSE seen
<1>1. /\ run[r] \in Locals /\ Since(r) \in Int /\ run[r].at \in Nat
      /\ JournalState(r) \in State /\ JournalState(r).ts = run[r].at
      /\ JournalState(r).ino = 0 /\ JournalState(r).mode = "journal"
  <2>1. run[r] \in Locals
    BY DEF Typed
  <2>2. Continues(r) => run[r].st \in State
    BY <2>1 DEF Continues, Locals
  <2> QED
    BY <2>1, <2>2 DEF Since, JournalState, Locals, State
<1>2. hand \in SUBSET Lines /\ seen \in SUBSET Lines
  OBVIOUS
<1>3. ASSUME NEW l \in Lines, Complete(l), stamp[l] < run[r].at
      PROVE  l \in Accounted \cup hand
  <2>1. stamp[l] \in Nat /\ reports[l] \in 0 .. 2
    BY <1>3 DEF Complete, Typed, HwTypeOK
  <2>2. CASE stamp[l] >= Since(r)
    BY <1>3, <2>2
  <2>3. CASE stamp[l] < Since(r) /\ (run[r].st = None \/ ~Continues(r))
    <3>1. CASE reports[l] = 0
      BY <1>3, <2>3, <3>1
    <3>2. CASE reports[l] # 0
      BY <2>1, <3>2 DEF Accounted
    <3> QED
      BY <3>1, <3>2
  <2>4. CASE stamp[l] < Since(r) /\ Continues(r)
    <3>1. run[r].st \in Fit[{}] /\ run[r].st.mode = "journal" /\ stamp[l] < run[r].st.ts
      BY <2>4 DEF Continues, Since, RunFit
    <3> QED
      BY <1>3, <3>1 DEF Fit
  <2> QED
    BY <1>1, <2>1, <2>2, <2>3, <2>4
<1>4. JournalState(r) \in Fit[hand]
  <2>1. 0 <= Newest /\ run[r].at <= now
    BY NewestTyped DEF RunFit
  <2> HIDE DEF hand
  <2> QED
    BY <1>1, <1>2, <1>3, <2>1 DEF Fit
<1>5. hand \subseteq Accounted' \cup seen
  <2>1. run[r].st = None => missed \subseteq baseline'
    BY DEF ReadJournal
  <2>2. run[r].st # None /\ ~Continues(r) => missed \subseteq skipped'
    BY DEF ReadJournal
  <2>3. missed \subseteq Lines
    OBVIOUS
  <2> HIDE DEF missed, seen
  <2> QED
    BY <2>1, <2>2, <2>3 DEF Accounted
<1> HIDE DEF hand
<1>6. JournalState(r) \in Fit'[seen]
  <2> HIDE DEF seen
  <2> QED
    BY <1>2, <1>4, <1>5, FitStays, FitWithout
<1>7. run' = [run EXCEPT ![r] = [[run[r] EXCEPT !.seen = seen, !.new = JournalState(r)]
                                   EXCEPT !.pc = "write"]]
  BY DEF ReadJournal, Step
<1> HIDE DEF seen, missed
<1>8. /\ run'[r].new = JournalState(r) /\ run'[r].pc = "write" /\ run'[r].seen = seen
      /\ run'[r].st = run[r].st /\ run'[r].ino = run[r].ino /\ run'[r].at = run[r].at
  BY <1>1, <1>7 DEF Typed, Locals
<1>9. Newest' = Newest /\ now' = now
  BY DEF ReadJournal, env, Newest
<1>10. Fit[{}] \subseteq Fit'[{}]
  BY FitStays
<1> QED
  BY <1>6, <1>8, <1>9, <1>10 DEF RunFit

\* A step of a run keeps every cursor fit: its own, those that others hold
\* and the one in the state file, which it may overwrite at any time.
LEMMA RunCursor ==
  ASSUME Typed, Typed', Grows, LogInv, CursorInv, NEW r \in Runs,
         Begin(r) \/ SetupFails(r) \/ Proceed(r) \/ Kill(r)
  PROVE  CursorInv'
<1>0. /\ run[r] \in Locals /\ RunFit(r) /\ Newest' = Newest /\ now' = now
      /\ Fit[{}] \subseteq Fit'[{}] /\ now \in Nat
  <2>1. Newest' = Newest /\ now' = now
    BY LogStays DEF env, Newest
  <2>2. Fit[{}] \subseteq Fit'[{}]
    BY FitStays
  <2> QED
    BY <2>1, <2>2 DEF CursorInv, Typed, HwTypeOK
<1> DEFINE Same == /\ run'[r].st = run[r].st /\ run'[r].ino = run[r].ino
                   /\ run'[r].at = run[r].at
<1>1. \A q \in Runs \ {r} : RunFit(q)'
  BY OthersStay, RunStaysFit DEF CursorInv
<1>2. ASSUME Fail(r) \/ run' = [run EXCEPT ![r] = Idle]
      PROVE  RunFit(r)'
  <2>1. run'[r] = Idle
    BY <1>2 DEF Fail, Typed
  <2> QED
    BY <1>0, <2>1, IdleFit DEF Idle
<1>3. CASE Begin(r)
  <2>1. run' = [run EXCEPT ![r] = [[Idle EXCEPT !.at = now] EXCEPT !.pc = "start"]]
    BY <1>3 DEF Begin, Step
  <2>2. /\ run'[r].st = None /\ run'[r].ino = 0 /\ run'[r].at = now
        /\ run'[r].pc = "start"
    BY <2>1 DEF Typed, Idle
  <2> QED
    BY <1>0, <1>1, <1>3, <2>2, IdleFit DEF CursorInv, Begin
<1>4. CASE SetupFails(r) \/ ReadFails(r) \/ Busy(r)
  <2>1. RunFit(r)' /\ state' = state
    BY <1>2, <1>4 DEF SetupFails, ReadFails, Busy, Fail
  <2> QED
    BY <1>0, <1>1, <2>1 DEF CursorInv
<1>5. CASE TakeLock(r)
  <2>1. run' = [run EXCEPT ![r] = [[run[r] EXCEPT !.st = state] EXCEPT !.pc = "mode"]]
    BY <1>5 DEF TakeLock, Step
  <2>2. /\ run'[r].st = state /\ run'[r].ino = run[r].ino /\ run'[r].at = run[r].at
        /\ run'[r].pc = "mode"
    BY <1>0, <2>1 DEF Typed, Locals
  <2>3. state' = state
    BY <1>5 DEF TakeLock
  <2> QED
    BY <1>0, <1>1, <2>2, <2>3 DEF CursorInv, RunFit
<1>6. CASE ChooseMode(r)
  <2>1. PICK pc \in {"journal", "inode"} :
          run' = [run EXCEPT ![r] = [run[r] EXCEPT !.pc = pc]]
    BY <1>6 DEF ChooseMode, Step
  <2>2. Same /\ run'[r].pc = pc
    BY <1>0, <2>1 DEF Typed, Locals
  <2>3. state' = state
    BY <1>6 DEF ChooseMode
  <2> QED
    BY <1>0, <1>1, <2>2, <2>3 DEF CursorInv, RunFit
<1>7. CASE StatInode(r)
  <2>1. CASE path = None /\ Fail(r) /\ UNCHANGED used
    BY <1>0, <1>1, <1>2, <2>1 DEF CursorInv, Fail
  <2>2. CASE path # None /\ Step(r, "size", [run[r] EXCEPT !.ino = path])
    <3>1. run' = [run EXCEPT ![r] = [[run[r] EXCEPT !.ino = path] EXCEPT !.pc = "size"]]
      BY <2>2 DEF Step
    <3>2. /\ run'[r].st = run[r].st /\ run'[r].ino = path /\ run'[r].at = run[r].at
          /\ run'[r].pc = "size"
      BY <1>0, <3>1 DEF Typed, Locals
    <3>3. path <= Newest
      BY <2>2, NewestTyped DEF LogInv
    <3>4. state' = state
      BY <1>7 DEF StatInode, Fail
    <3> QED
      BY <1>0, <1>1, <3>2, <3>3, <3>4 DEF CursorInv, RunFit
  <2> QED
    BY <1>7, <2>1, <2>2 DEF StatInode
<1>8. CASE StatSize(r)
  <2>1. state' = state
    BY <1>8 DEF StatSize, Fail
  <2>2. CASE path = None /\ Fail(r) /\ UNCHANGED used
    BY <1>0, <1>1, <1>2, <2>1, <2>2 DEF CursorInv
  <2>3. ASSUME path # None, NEW size, size = Len(files[path]),
               StartAtEOF(r, size) \/ Unchanged(r, size) \/ Grown(r, size),
               UNCHANGED <<env, state, lock, reports, dropped, used>>
        PROVE  RunFit(r)'
    <3>1. run[r].ino <= Newest
      BY <1>0 DEF RunFit
    <3> QED
      BY <1>0, <2>3, <3>1, StatFit
  <2> QED
    BY <1>0, <1>1, <1>8, <2>1, <2>2, <2>3 DEF CursorInv, StatSize
<1>9. CASE ReadLog(r) \/ ReadJournal(r)
  <2>1. state' = state
    BY <1>9 DEF ReadLog, ReadJournal
  <2> QED
    BY <1>0, <1>1, <1>9, <2>1, ReadFit, JournalFit DEF CursorInv
<1>10. CASE WriteState(r)
  <2>1. run' = [run EXCEPT ![r] = [run[r] EXCEPT !.pc = "emit"]]
    BY <1>10 DEF WriteState, Step
  <2>2. Same /\ run'[r].pc = "emit" /\ run'[r].seen = run[r].seen /\ run[r].seen \in SUBSET Lines
    BY <1>0, <2>1 DEF Typed, Locals
  <2>3. RunFit(r)'
    BY <1>0, <2>2 DEF RunFit
  <2>4. state' \in Fit'[{}] \cup {None}
    <3>1. run[r].new \in Fit[run[r].seen] /\ (state' = state \/ state' = run[r].new)
      BY <1>0, <1>10 DEF WriteState, RunFit
    <3>2. run[r].seen \subseteq Accounted'
      BY <2>2 DEF Accounted, InHand
    <3>3. run[r].new \in Fit'[{}]
      BY <2>2, <3>1, <3>2, FitStays, FitWithout
    <3> QED
      BY <1>0, <3>1, <3>3 DEF CursorInv
  <2> QED
    BY <1>1, <2>3, <2>4 DEF CursorInv
<1>11. CASE Emit(r) \/ Kill(r)
  <2>1. RunFit(r)' /\ state' = state
    BY <1>2, <1>11 DEF Emit, Kill
  <2> QED
    BY <1>0, <1>1, <2>1 DEF CursorInv
<1> QED
  BY <1>3, <1>4, <1>5, <1>6, <1>7, <1>8, <1>9, <1>10, <1>11 DEF Proceed

\* No cursor at first.
LEMMA InitCursor ==
  HwInit => CursorInv
BY HwMonAssumption DEF HwInit, CursorInv, RunFit, Idle, Newest, Budget

\* What fit cursors are for.
LEMMA FitPasses ==
  ASSUME Typed, CursorInv
  PROVE  CursorPassesOnlyReported
<1> SUFFICES ASSUME NEW l \in Lines, Passed(l) PROVE l \in Accounted
  BY DEF CursorPassesOnlyReported, Accounted
<1>1. state \in Fit[{}] /\ state \in State
  BY DEF Passed, CursorInv, Fit
<1>2. CASE state.mode = "file"
  <2>1. PICK j \in DOMAIN files[path] :
          /\ j <= state.off /\ files[path][j] = [line |-> l, end |-> TRUE]
          /\ state.ino = path
    BY <1>2 DEF Passed
  <2>2. path \in Inodes /\ files[path] \in Seq(Token) /\ state.off \in Nat
    BY <1>1, <2>1, HwMonAssumption DEF Typed, HwTypeOK, State
  <2>3. j \in 1 .. state.off
    BY <2>1, <2>2
  <2>4. files[path][j].line \in Accounted
    BY <1>1, <1>2, <2>1, <2>3 DEF Fit
  <2> QED
    BY <2>1, <2>4
<1>3. CASE state.mode = "journal"
  BY <1>1, <1>3 DEF Passed, Fit
<1> QED
  BY <1>1, <1>2, <1>3 DEF State

\* As long as the log is not truncated, every cursor is fit.
LEMMA CursorInvariance ==
  HwSpec => [](used["truncations"] = 0 => CursorInv)
<1> DEFINE Inv == used["truncations"] = 0 => CursorInv
<1>1. HwInit => Inv
  BY InitCursor
<1>2. ASSUME Typed, Typed', LogInv, Inv, [HwNext]_hwVars
      PROVE  Inv'
  <2>1. CASE UNCHANGED hwVars
    <3>1. Fit' = Fit
      BY <2>1 DEF hwVars, env, hist, Fit, Accounted, InHand, Complete, Newest
    <3> QED
      BY <1>2, <2>1, <3>1 DEF CursorInv, RunFit, FileState, Newest, hwVars, env
  <2>2. CASE HwNext /\ used'["truncations"] = 0
    <3>1. used["truncations"] = 0
      <4>1. used["truncations"] <= used'["truncations"] /\ used["truncations"] \in Nat
        <5>1. ASSUME NEW w \in Kinds, Spend(w)
              PROVE  used["truncations"] <= used'["truncations"]
          BY <1>2, <5>1, SpendTyped DEF Kinds, Typed
        <5>2. CASE World
          <6>1. Spend("rotations") \/ Spend("truncations") \/ Spend("corruptions") \/ used' = used
            BY <5>2 DEF World, LogWrites, Rename, Create, Reopen, Truncate, Corrupt, Tick
          <6> QED
            BY <1>2, <5>1, <6>1 DEF Typed, Kinds
        <5>3. CASE \E r \in Runs : Begin(r) \/ SetupFails(r) \/ Proceed(r) \/ Kill(r)
          BY <1>2, <5>3, LogStays DEF Typed, Kinds
        <5> QED
          BY <1>2, <2>2, <5>2, <5>3 DEF HwNext, Typed, Kinds
      <4> QED
        BY <2>2, <4>1
    <3>2. Grows
      BY <1>2, <2>2, StepLog
    <3> QED
      BY <1>2, <2>2, <3>1, <3>2, WorldCursor, RunCursor DEF HwNext
  <2> QED
    BY <1>2, <2>1, <2>2
<1> QED
  BY <1>1, <1>2, HwTyped, LogShape, PTL DEF HwSpec

\* The cursor passes only lines that were reported, are about to be, were in
\* the hands of a killed run or were skipped on purpose, for any number of
\* overlapping runs, with the lock or without it, and any failures, as long
\* as the log has not been truncated (kernel-hw-mon.sh:286-463).
THEOREM CursorSafeUntilTruncated ==
  HwSpec => [](used["truncations"] = 0 => CursorPassesOnlyReported)
<1>1. Typed /\ (used["truncations"] = 0 => CursorInv) =>
        (used["truncations"] = 0 => CursorPassesOnlyReported)
  BY FitPasses
<1> QED
  BY <1>1, HwTyped, CursorInvariance, PTL

\* Where the log is rotated by renaming, and copytruncate is not used, the
\* cursor is always safe.
THEOREM CursorSafe ==
  ASSUME MaxTruncations = 0
  PROVE  HwSpec => []CursorPassesOnlyReported
<1>1. Typed => used["truncations"] = 0
  BY DEF Typed, Kinds, Budget
<1> QED
  BY <1>1, HwTyped, CursorSafeUntilTruncated, PTL

-----------------------------------------------------------------------------
(* Without rotation no line is reported twice.                             *)

\* No rotation has begun and the state file was not damaged.
Quiet == used["rotations"] = 0 /\ used["corruptions"] = 0

\* How far a cursor has moved in the one file there is.
Past(s) == IF s # None /\ s.mode = "file" /\ s.ino = 1 THEN s.off ELSE 0

\* The offsets behind which every reported line and every line in hand ends.
\* An offset beyond the end of the file, left by a truncation, is one of them
\* only if the file holds no such line.
Clear == [hand \in SUBSET Lines |->
  {off \in Nat :
     \A j \in 1 .. Len(files[1]) :
       files[1][j].end /\ (reports[files[1][j].line] > 0 \/ files[1][j].line \in hand) =>
         j <= off /\ off <= Len(files[1])}]

\* Ended lines are complete, and one that is being written is not.
Fresh ==
  /\ path = 1 /\ writer = 1
  /\ \A j \in 1 .. Len(files[1]) : files[1][j].end => Complete(files[1][j].line)
  /\ MidLine => ~Complete(files[1][Len(files[1])].line)

\* A run past its start holds the lock, so that the state it read is the state
\* there is until it writes its own; what it has in hand is new.
Turn(r) ==
  /\ run[r].pc \notin {"idle", "start"} => lock = r
  /\ run[r].pc \in {"mode", "inode", "size", "read"} => run[r].st = state
  /\ run[r].pc # "journal"
  /\ run[r].pc \in {"size", "read"} => run[r].ino = 1
  /\ run[r].pc \notin {"write", "emit"} => run[r].seen = {}
  /\ \A l \in run[r].seen : Complete(l) /\ reports[l] = 0
  /\ run[r].pc = "read" => run[r].off \in Clear[{}]
  /\ run[r].pc = "write" => Past(run[r].new) \in Clear[run[r].seen]
  /\ run[r].pc = "emit" => Past(state) \in Clear[run[r].seen]

OnceInv ==
  /\ Fresh
  /\ \A l \in Lines : reports[l] < 2 /\ (reports[l] > 0 => Complete(l))
  /\ Past(state) \in Clear[{}]
  /\ \A r \in Runs : Turn(r)

\* The log stays one file, and its lines fresh, while it is quiet.
LEMMA FreshStays ==
  ASSUME Typed, Typed', Fresh, LogWrites \/ Truncate \/ UNCHANGED <<files, path, writer, stamp>>
  PROVE  /\ Fresh'
         /\ \A l \in Lines : Complete(l) => Complete(l)'
<1>1. CASE LogWrites
  <2>1. PICK l \in Lines, end \in BOOLEAN :
          /\ AppendToken(l, end) /\ ~Complete(l) /\ (end <=> MidLine)
          /\ UNCHANGED <<path, writer>>
    <3>1. MidLine => ~Complete(files[1][Len(files[1])].line)
      BY DEF Fresh
    <3> QED
      BY <1>1, <3>1 DEF LogWrites, Fresh
  <2> DEFINE f == files[1]
             g == files'[1]
  <2>2. /\ 1 \in Inodes /\ f \in Seq(Token) /\ writer = 1 /\ path = 1 /\ Len(f) \in Nat
        /\ g = Append(f, [line |-> l, end |-> end])
    BY <2>1 DEF AppendToken, Fresh, Typed, HwTypeOK
  <2>3. /\ Len(g) = Len(f) + 1
        /\ \A j \in 1 .. Len(f) : g[j] = f[j]
        /\ g[Len(f) + 1].line = l /\ g[Len(f) + 1].end = end
    <3> HIDE DEF f
    <3>1. [line |-> l, end |-> end] \in Token
      BY DEF Token
    <3>2. /\ Len(g) = Len(f) + 1
          /\ \A j \in 1 .. Len(f) : g[j] = f[j]
          /\ g[Len(f) + 1] = [line |-> l, end |-> end]
      BY <2>2, <3>1
    <3> QED
      BY <3>2
  <2>4. /\ \A m \in Lines : stamp[m] # None => stamp'[m] # None
        /\ end => stamp'[l] # None
        /\ ~end => stamp'[l] = None
    BY <2>1, HwMonAssumption DEF AppendToken, Complete, Typed, HwTypeOK
  <2>5. ASSUME NEW j \in 1 .. Len(g), g[j].end PROVE stamp'[g[j].line] # None
    <3>1. CASE j \in 1 .. Len(f)
      <4>1. stamp[f[j].line] # None /\ g[j] = f[j] /\ f[j].line \in Lines
        BY <2>2, <2>3, <2>5, <3>1, TokensTyped DEF Fresh, Complete
      <4> QED
        BY <2>4, <4>1
    <3>2. CASE j = Len(f) + 1
      BY <2>3, <2>4, <2>5, <3>2
    <3> QED
      BY <2>2, <2>3, <3>1, <3>2
  <2>6. MidLine' => stamp'[g[Len(g)].line] = None
    BY <2>1, <2>2, <2>3, <2>4 DEF MidLine
  <2>7. path' = 1 /\ writer' = 1
    BY <2>1, <2>2
  <2> QED
    BY <2>4, <2>5, <2>6, <2>7 DEF Fresh, Complete
<1>2. CASE Truncate
  <2>1. /\ files'[1] = <<>> /\ path' = 1 /\ writer' = 1 /\ stamp' = stamp
    BY <1>2 DEF Truncate, Fresh, Typed, HwTypeOK
  <2> QED
    BY <2>1 DEF Fresh, MidLine, Complete
<1>3. CASE UNCHANGED <<files, path, writer, stamp>>
  BY <1>3 DEF Fresh, MidLine, Complete
<1> QED
  BY <1>1, <1>2, <1>3

\* What the writer and truncation do to the offsets that are clear.
LEMMA ClearStays ==
  ASSUME Typed, Fresh, LogWrites \/ Truncate \/ UNCHANGED files, reports' = reports,
         \A l \in Lines : reports[l] > 0 => Complete(l),
         NEW hand \in SUBSET Lines, \A l \in hand : Complete(l)
  PROVE  Clear[hand] \subseteq Clear'[hand]
<1> SUFFICES ASSUME NEW off \in Clear[hand] PROVE off \in Clear'[hand]
  OBVIOUS
<1> DEFINE f == files[1]
           g == files'[1]
<1>1. /\ 1 \in Inodes /\ f \in Seq(Token) /\ writer = 1 /\ Len(f) \in Nat /\ off \in Nat
  BY DEF Fresh, Typed, HwTypeOK, Clear
<1>2. \A j \in 1 .. Len(f) :
        f[j].end /\ (reports[f[j].line] > 0 \/ f[j].line \in hand) => j <= off /\ off <= Len(f)
  BY DEF Clear
<1>3. CASE LogWrites
  <2>1. PICK l \in Lines, end \in BOOLEAN : AppendToken(l, end) /\ ~Complete(l)
    <3>1. MidLine => ~Complete(f[Len(f)].line)
      BY DEF Fresh
    <3> QED
      BY <1>1, <1>3, <3>1 DEF LogWrites
  <2>2. g = Append(f, [line |-> l, end |-> end])
    BY <1>1, <2>1 DEF AppendToken, Typed, HwTypeOK
  <2>3. /\ Len(g) = Len(f) + 1
        /\ \A j \in 1 .. Len(f) : g[j] = f[j]
        /\ g[Len(f) + 1].line = l
    <3> HIDE DEF f
    <3>1. [line |-> l, end |-> end] \in Token
      BY DEF Token
    <3>2. /\ Len(g) = Len(f) + 1
          /\ \A j \in 1 .. Len(f) : g[j] = f[j]
          /\ g[Len(f) + 1] = [line |-> l, end |-> end]
      BY <1>1, <2>2, <3>1
    <3> QED
      BY <3>2
  <2>4. ~(reports[l] > 0) /\ l \notin hand
    BY <2>1
  <2>5. ASSUME NEW j \in 1 .. Len(g), g[j].end, reports[g[j].line] > 0 \/ g[j].line \in hand
        PROVE  j <= off /\ off <= Len(g)
    <3>1. j # Len(f) + 1
      BY <2>3, <2>4, <2>5
    <3>2. j \in 1 .. Len(f) /\ g[j] = f[j]
      BY <1>1, <2>3, <3>1
    <3> QED
      BY <1>1, <1>2, <2>3, <2>5, <3>2
  <2> HIDE DEF f
  <2> QED
    BY <1>1, <2>5 DEF Clear
<1>4. CASE Truncate
  <2>1. files'[1] = <<>>
    BY <1>4 DEF Truncate, Fresh, Typed, HwTypeOK
  <2> QED
    BY <1>1, <2>1 DEF Clear
<1>5. CASE UNCHANGED files
  BY <1>5 DEF Clear
<1> QED
  BY <1>3, <1>4, <1>5

\* Until a rotation begins or the state file is damaged it was quiet before.
LEMMA QuietBefore ==
  ASSUME Typed, HwNext, Quiet'
  PROVE  Quiet /\ ~Rename /\ ~Corrupt
<1>0. used["rotations"] \in Nat /\ used["corruptions"] \in Nat
  BY DEF Typed, Kinds
<1>1. ~Rename /\ ~Corrupt
  BY <1>0, SpendTyped DEF Rename, Corrupt, Quiet, Kinds
<1>2. CASE World
  <2>1. Spend("truncations") \/ used' = used
    BY <1>1, <1>2 DEF World, LogWrites, Create, Reopen, Truncate, Tick
  <2> QED
    BY <1>1, <2>1, SpendTyped DEF Quiet, Kinds
<1>3. CASE \E r \in Runs : Begin(r) \/ SetupFails(r) \/ Proceed(r) \/ Kill(r)
  BY <1>1, <1>3, LogStays DEF Quiet
<1> QED
  BY <1>2, <1>3 DEF HwNext

\* The writer, truncation and the clock.
LEMMA WorldOnce ==
  ASSUME Typed, Typed', OnceInv, Quiet', World
  PROVE  OnceInv'
<1>1. LogWrites \/ Truncate \/ Tick
  BY QuietBefore, HwMonAssumption DEF World, HwNext, Create, Reopen, OnceInv, Fresh
<1>2. /\ UNCHANGED <<state, lock, run, reports>>
      /\ LogWrites \/ Truncate \/ UNCHANGED <<files, path, writer, stamp>>
  BY <1>1 DEF LogWrites, Truncate, Tick
<1>3. Fresh' /\ \A l \in Lines : Complete(l) => Complete(l)'
  BY <1>2, FreshStays DEF OnceInv
<1>4. \A hand \in SUBSET Lines :
        (\A l \in hand : Complete(l)) => Clear[hand] \subseteq Clear'[hand]
  BY <1>2, ClearStays DEF OnceInv
<1>5. Past(state') \in Clear'[{}]
  BY <1>2, <1>4 DEF OnceInv
<1>6. ASSUME NEW r \in Runs PROVE Turn(r)'
  <2>1. Turn(r) /\ run[r].seen \in SUBSET Lines
    BY DEF OnceInv, Typed, HwTypeOK
  <2>2. \A l \in run[r].seen : Complete(l) /\ reports[l] = 0
    BY <2>1 DEF Turn
  <2>3. Clear[run[r].seen] \subseteq Clear'[run[r].seen] /\ Clear[{}] \subseteq Clear'[{}]
    BY <1>4, <2>1, <2>2
  <2>4. \A l \in run'[r].seen : Complete(l)' /\ reports'[l] = 0
    BY <1>2, <1>3, <2>1, <2>2
  <2> QED
    BY <1>2, <2>1, <2>3, <2>4 DEF Turn
<1>7. \A l \in Lines : reports'[l] < 2 /\ (reports'[l] > 0 => Complete(l)')
  BY <1>2, <1>3 DEF OnceInv
<1> QED
  BY <1>3, <1>5, <1>6, <1>7 DEF OnceInv

\* A run that another one does not overtake: it is idle, at its start, or it
\* holds the lock, and then the other one can only begin or end.
LEMMA OthersTurn ==
  ASSUME HasFlock, Typed, OnceInv, NEW r \in Runs,
         Begin(r) \/ SetupFails(r) \/ Proceed(r) \/ Kill(r),
         NEW q \in Runs \ {r}
  PROVE  Turn(q)'
<1>1. /\ run'[q] = run[q] /\ UNCHANGED env /\ Turn(q) /\ Turn(r) /\ q \in Runs
      /\ lock # None => lock \in Runs
  BY OthersStay, LogStays DEF OnceInv, Typed, HwTypeOK
<1>2. CASE run[q].pc \in {"idle", "start"}
  BY <1>1, <1>2 DEF Turn
<1>3. CASE run[q].pc \notin {"idle", "start"}
  <2>1. lock = q /\ lock # r /\ lock # None
    BY <1>1, <1>3, HwMonAssumption DEF Turn
  <2>2. run[r].pc \in {"idle", "start"}
    BY <1>1, <2>1 DEF Turn
  <2>3. Begin(r) \/ SetupFails(r) \/ Busy(r) \/ Kill(r)
    BY <2>1, <2>2 DEF Proceed, TakeLock, ChooseMode, StatInode, StatSize, ReadLog, ReadFails,
                      ReadJournal, WriteState, Emit
  <2>4. UNCHANGED <<state, lock, reports>>
    BY <2>1, <2>3 DEF Begin, SetupFails, Busy, Kill, Fail, Unlock
  <2>5. Clear' = Clear
    BY <1>1, <2>4 DEF Clear, env
  <2> QED
    BY <1>1, <2>4, <2>5 DEF Turn, env, Complete
<1> QED
  BY <1>2, <1>3

\* A run that starts or has ended has nothing in hand.
LEMMA IdleTurn ==
  ASSUME NEW r \in Runs, run'[r].seen = {}, run'[r].pc \in {"idle", "start"}
  PROVE  Turn(r)'
BY DEF Turn

\* The offset from which a run reads is clear, and so is the one it keeps.
LEMMA OffsetClear ==
  ASSUME Typed, OnceInv, NEW r \in Runs, run[r].pc = "size", HasFileState(r),
         NEW size, size = Len(files[path])
  PROVE  Offset(r, size) \in Clear[{}]
<1>1. /\ run[r].st = state /\ run[r].ino = 1 /\ Past(state) \in Clear[{}]
      /\ path = 1 /\ state # None /\ state.mode = "file" /\ state \in State
  BY DEF OnceInv, Turn, Fresh, HasFileState, Typed, HwTypeOK
<1>2. state.off \in Nat /\ size \in Nat
  BY <1>1, HwMonAssumption DEF State, Typed, HwTypeOK, Inodes
<1>3. CASE state.ino # 1
  BY <1>1, <1>3 DEF Offset, Past
<1>4. CASE state.ino = 1 /\ state.off > size
  <2>1. state.off \in Clear[{}] /\ Offset(r, size) = 0
    BY <1>1, <1>4 DEF Offset, Past
  <2>2. 0 \in Clear[{}]
    BY <1>1, <1>2, <1>4, <2>1 DEF Clear
  <2> QED
    BY <2>1, <2>2
<1>5. CASE state.ino = 1 /\ ~(state.off > size)
  BY <1>1, <1>5 DEF Offset, Past
<1> QED
  BY <1>3, <1>4, <1>5

\* A file cursor is a cursor.
LEMMA FileStateIs ==
  ASSUME Typed, NEW r \in Runs, NEW off \in Nat
  PROVE  /\ FileState(r, off) \in State /\ FileState(r, off) # None
         /\ FileState(r, off).mode = "file" /\ FileState(r, off).ino = run[r].ino
         /\ FileState(r, off).off = off
<1>1. FileState(r, off) \in State
  BY DEF FileState, State, Typed, HwTypeOK
<1>2. FileState(r, off) # None
  BY <1>1, HwMonAssumption
<1> QED
  BY <1>1, <1>2 DEF FileState

\* The two calls of stat.
LEMMA StatTurn ==
  ASSUME Typed, Typed', OnceInv, NEW r \in Runs, StatSize(r)
  PROVE  Turn(r)' /\ UNCHANGED <<state, reports>>
<1>1. /\ path = 1 /\ run[r] \in Locals /\ Turn(r) /\ run[r].pc = "size"
      /\ 1 \in Inodes /\ Len(files[1]) \in Nat /\ 1 # None
  <2>1. path = 1 /\ Turn(r) /\ run[r].pc = "size"
    BY DEF OnceInv, Fresh, StatSize
  <2> QED
    BY <2>1, HwMonAssumption DEF Typed, HwTypeOK, Inodes
<1> DEFINE size == Len(files[path])
<1>2. /\ StartAtEOF(r, size) \/ Unchanged(r, size) \/ Grown(r, size)
      /\ UNCHANGED <<env, state, lock, reports>>
  BY <1>1 DEF StatSize
<1>3. Clear' = Clear
  BY <1>2 DEF Clear, env
<1>4. /\ run[r].st = state /\ run[r].ino = 1 /\ run[r].seen = {} /\ lock = r
      /\ Past(state) \in Clear[{}]
  BY <1>1 DEF Turn, OnceInv
<1>5. CASE StartAtEOF(r, size) \/ Unchanged(r, size)
  <2>1. run' = [run EXCEPT ![r] =
                  [[run[r] EXCEPT !.new = FileState(r, size)] EXCEPT !.pc = "write"]]
    BY <1>5 DEF StartAtEOF, Unchanged, Step
  <2>2. /\ run'[r].new = FileState(r, size) /\ run'[r].pc = "write" /\ run'[r].seen = {}
    BY <1>1, <1>4, <2>1 DEF Typed, Locals
  <2>3. Past(FileState(r, size)) = size
    BY <1>1, <1>4, FileStateIs DEF Past
  <2>4. size \in Clear[{}]
    <3>1. CASE Unchanged(r, size)
      BY <1>1, <3>1, OffsetClear DEF Unchanged
    <3>2. CASE StartAtEOF(r, size)
      <4>1. Past(state) = 0
        BY <1>4, <3>2 DEF StartAtEOF, HasFileState, Past
      <4> QED
        BY <1>1, <1>4, <4>1 DEF Clear
    <3> QED
      BY <1>5, <3>1, <3>2
  <2> QED
    BY <1>2, <1>3, <1>4, <2>2, <2>3, <2>4 DEF Turn
<1>6. CASE Grown(r, size)
  <2>1. run' = [run EXCEPT ![r] =
                  [[run[r] EXCEPT !.off = Offset(r, size)] EXCEPT !.pc = "read"]]
    BY <1>6 DEF Grown, Step
  <2>2. /\ run'[r].off = Offset(r, size) /\ run'[r].pc = "read" /\ run'[r].seen = {}
        /\ run'[r].st = state /\ run'[r].ino = 1
    BY <1>1, <1>4, <2>1 DEF Typed, Locals
  <2>3. Offset(r, size) \in Clear[{}]
    BY <1>1, <1>6, OffsetClear DEF Grown
  <2> QED
    BY <1>2, <1>3, <1>4, <2>2, <2>3 DEF Turn
<1> QED
  BY <1>2, <1>5, <1>6

\* Reading reports no line again: those it finds end behind the offset it
\* reads from, and the new cursor is behind all of them.
LEMMA ReadTurn ==
  ASSUME Typed, Typed', OnceInv, NEW r \in Runs, ReadLog(r)
  PROVE  Turn(r)' /\ UNCHANGED <<state, reports>>
<1> DEFINE f == files[1]
           from == run[r].off
           to == LastEnd(f, from)
<1>1. /\ path = 1 /\ run[r] \in Locals /\ Turn(r) /\ run[r].pc = "read"
      /\ 1 \in Inodes /\ f \in Seq(Token) /\ Len(f) \in Nat /\ from \in Nat
  <2>1. path = 1 /\ Turn(r) /\ run[r].pc = "read"
    BY DEF OnceInv, Fresh, ReadLog
  <2> QED
    BY <2>1, HwMonAssumption DEF Typed, HwTypeOK, Inodes
<1>2. /\ run[r].ino = 1 /\ lock = r /\ from \in Clear[{}]
      /\ UNCHANGED <<env, state, lock, reports>>
  BY <1>1 DEF Turn, ReadLog
<1>3. Clear' = Clear
  BY <1>2 DEF Clear, env
<1>4. PICK part :
        /\ part \subseteq Fragment(f, from)
        /\ Step(r, "write", [run[r] EXCEPT !.new = FileState(r, to),
                                           !.seen = WholeLines(f, from, to) \cup part])
  BY <1>1 DEF ReadLog, Consumed
<1> DEFINE seen == WholeLines(f, from, to) \cup part
<1>5. /\ to \in Nat
      /\ to = from \/ (to \in from + 1 .. Len(f) /\ f[to].end)
      /\ \A j \in from + 1 .. Len(f) : f[j].end => j <= to
  BY <1>1, LastEndTyped
<1> HIDE DEF to
<1>6. seen \in SUBSET Lines
  <2>1. to <= from \/ to <= Len(f)
    <3> HIDE DEF f, from
    <3> QED
      BY <1>1, <1>5
  <2> QED
    BY <1>1, <1>4, <1>5, <2>1, LinesTyped
<1>7. \A l \in seen : \E j \in from + 1 .. to : j <= Len(f) /\ f[j].end /\ f[j].line = l
  <2>1. ASSUME NEW l \in WholeLines(f, from, to)
        PROVE  \E j \in from + 1 .. to : j <= Len(f) /\ f[j].end /\ f[j].line = l
    <3>1. PICK j \in from + 2 .. to : f[j].end /\ f[j].line = l
      BY <2>1 DEF WholeLines
    <3> HIDE DEF f, from
    <3> QED
      BY <1>1, <1>5, <3>1
  <2>2. ASSUME NEW l \in part
        PROVE  \E j \in from + 1 .. to : j <= Len(f) /\ f[j].end /\ f[j].line = l
    <3>1. from < Len(f) /\ f[from + 1].end /\ f[from + 1].line = l
      BY <1>4, <2>2 DEF Fragment
    <3> HIDE DEF f, from
    <3> QED
      BY <1>1, <1>5, <3>1
  <2> QED
    BY <2>1, <2>2
<1> HIDE DEF seen
<1>8. ASSUME NEW l \in seen PROVE Complete(l) /\ reports[l] = 0
  <2>1. PICK j \in from + 1 .. to : j <= Len(f) /\ f[j].end /\ f[j].line = l
    BY <1>7
  <2>2. j \in 1 .. Len(f) /\ ~(j <= from)
    BY <1>1, <1>5, <2>1
  <2>3. ~(reports[l] > 0)
    BY <1>2, <2>1, <2>2 DEF Clear
  <2>4. l \in Lines /\ reports[l] \in 0 .. 2
    BY <1>6 DEF Typed, HwTypeOK
  <2>5. Complete(l)
    BY <2>1, <2>2 DEF OnceInv, Fresh
  <2> QED
    BY <2>3, <2>4, <2>5
<1>9. to \in Clear[seen]
  <2>1. ASSUME NEW j \in 1 .. Len(f), f[j].end, reports[f[j].line] > 0 \/ f[j].line \in seen
        PROVE  j <= to /\ to <= Len(f)
    <3>1. CASE reports[f[j].line] > 0
      <4>1. j <= from /\ from <= Len(f)
        BY <1>2, <2>1, <3>1 DEF Clear
      <4> HIDE DEF f, from
      <4> QED
        BY <1>1, <1>5, <4>1
    <3>2. CASE f[j].line \in seen
      <4>1. \E k \in from + 1 .. to : k <= Len(f)
        BY <1>7, <3>2
      <4> HIDE DEF f, from
      <4> QED
        BY <1>1, <1>5, <2>1, <4>1
    <3> QED
      BY <2>1, <3>1, <3>2
  <2> QED
    BY <1>5, <1>6, <2>1 DEF Clear
<1>10. Past(FileState(r, to)) = to
  BY <1>1, <1>2, <1>5, FileStateIs DEF Past
<1>11. run' = [run EXCEPT ![r] = [[run[r] EXCEPT !.new = FileState(r, to), !.seen = seen]
                                    EXCEPT !.pc = "write"]]
  BY <1>4 DEF Step, seen
<1>12. run'[r].new = FileState(r, to) /\ run'[r].pc = "write" /\ run'[r].seen = seen
  BY <1>1, <1>11 DEF Typed, Locals
<1>13. \A l \in run'[r].seen : Complete(l)' /\ reports'[l] = 0
  BY <1>2, <1>8, <1>12 DEF env, Complete
<1> QED
  BY <1>2, <1>3, <1>9, <1>10, <1>12, <1>13 DEF Turn

\* Every step of a run, when runs hold the lock and read the file, and the
\* state file can be written.
LEMMA RunOnce ==
  ASSUME HasFlock, TRUE \notin Journal, "write" \notin Faults,
         Typed, Typed', OnceInv, NEW r \in Runs,
         Begin(r) \/ SetupFails(r) \/ Proceed(r) \/ Kill(r)
  PROVE  OnceInv'
<1>1. \A q \in Runs \ {r} : Turn(q)'
  BY OthersTurn
<1>2. /\ run[r] \in Locals /\ Turn(r) /\ UNCHANGED env /\ path = 1 /\ 1 # None
      /\ Past(state) \in Clear[{}]
  BY LogStays, HwMonAssumption DEF OnceInv, Fresh, Typed
<1>3. Fresh' /\ \A l \in Lines : Complete(l) => Complete(l)'
  BY <1>2, FreshStays DEF env, OnceInv
<1>4. ASSUME UNCHANGED <<state, reports>>, Turn(r)' PROVE OnceInv'
  <2>1. Clear' = Clear
    BY <1>2, <1>4 DEF Clear, env
  <2> QED
    BY <1>1, <1>2, <1>3, <1>4, <2>1 DEF OnceInv
<1>5. ASSUME Fail(r) \/ run' = [run EXCEPT ![r] = Idle] PROVE Turn(r)'
  <2>1. run'[r] = Idle
    BY <1>5 DEF Fail, Typed
  <2> QED
    BY <2>1, IdleTurn DEF Idle
<1>6. CASE Begin(r)
  <2>1. run' = [run EXCEPT ![r] = [[Idle EXCEPT !.at = now] EXCEPT !.pc = "start"]]
    BY <1>6 DEF Begin, Step
  <2>2. run'[r].seen = {} /\ run'[r].pc = "start"
    BY <2>1 DEF Typed, Idle
  <2> QED
    BY <1>4, <1>6, <2>2, IdleTurn DEF Begin
<1>7. CASE SetupFails(r) \/ ReadFails(r) \/ Busy(r) \/ Kill(r)
  BY <1>4, <1>5, <1>7 DEF SetupFails, ReadFails, Busy, Kill, Fail
<1>8. CASE TakeLock(r)
  <2>1. run' = [run EXCEPT ![r] = [[run[r] EXCEPT !.st = state] EXCEPT !.pc = "mode"]]
    BY <1>8 DEF TakeLock, Step
  <2>2. run'[r].st = state /\ run'[r].pc = "mode" /\ run'[r].seen = run[r].seen /\ lock' = r
    BY <1>2, <1>8, <2>1 DEF Typed, Locals, TakeLock
  <2>3. run[r].seen = {}
    BY <1>2, <1>8 DEF Turn, TakeLock
  <2> QED
    BY <1>4, <1>8, <2>2, <2>3 DEF Turn, TakeLock
<1>9. CASE ChooseMode(r)
  <2>1. run' = [run EXCEPT ![r] = [run[r] EXCEPT !.pc = "inode"]]
    BY <1>2, <1>9, HwMonAssumption DEF ChooseMode, Step
  <2>2. run'[r].st = state /\ run'[r].pc = "inode" /\ run'[r].seen = {} /\ lock' = r
    BY <1>2, <1>9, <2>1 DEF Typed, Locals, ChooseMode, Turn
  <2> QED
    BY <1>4, <1>9, <2>2 DEF Turn, ChooseMode
<1>10. CASE StatInode(r)
  <2>1. Step(r, "size", [run[r] EXCEPT !.ino = path]) /\ UNCHANGED <<state, lock, reports>>
    BY <1>2, <1>10 DEF StatInode
  <2>2. run' = [run EXCEPT ![r] = [[run[r] EXCEPT !.ino = path] EXCEPT !.pc = "size"]]
    BY <2>1 DEF Step
  <2>3. /\ run'[r].st = state /\ run'[r].pc = "size" /\ run'[r].seen = {} /\ run'[r].ino = 1
        /\ lock' = r
    BY <1>2, <1>10, <2>1, <2>2 DEF Typed, Locals, StatInode, Turn
  <2> QED
    BY <1>4, <2>1, <2>3 DEF Turn
<1>11. CASE StatSize(r) \/ ReadLog(r)
  BY <1>4, <1>11, StatTurn, ReadTurn
<1>12. CASE ReadJournal(r)
  BY <1>2, <1>12 DEF ReadJournal, Turn
<1>13. CASE WriteState(r)
  <2>1. state' = run[r].new /\ UNCHANGED <<lock, reports>>
    BY <1>13 DEF WriteState, Fault
  <2>2. run' = [run EXCEPT ![r] = [run[r] EXCEPT !.pc = "emit"]]
    BY <1>13 DEF WriteState, Step
  <2>3. run'[r].pc = "emit" /\ run'[r].seen = run[r].seen /\ run[r].seen \in SUBSET Lines
    BY <1>2, <2>2 DEF Typed, Locals
  <2>4. /\ Past(state') \in Clear[run[r].seen] /\ lock = r
        /\ \A l \in run[r].seen : Complete(l) /\ reports[l] = 0
    BY <1>2, <1>13, <2>1 DEF Turn, WriteState
  <2>5. Clear' = Clear
    BY <1>2, <2>1 DEF Clear, env
  <2>6. Past(state') \in Clear[{}]
    BY <2>3, <2>4 DEF Clear
  <2>7. Turn(r)'
    BY <1>3, <2>1, <2>3, <2>4, <2>5 DEF Turn
  <2> QED
    BY <1>1, <1>3, <2>1, <2>5, <2>6, <2>7 DEF OnceInv
<1>14. CASE Emit(r)
  <2>1. /\ UNCHANGED state /\ run[r].seen \in SUBSET Lines
        /\ reports' = [l \in Lines |-> IF l \in run[r].seen /\ reports[l] < 2
                                       THEN reports[l] + 1 ELSE reports[l]]
    BY <1>2, <1>14 DEF Emit, Locals
  <2>2. /\ Past(state) \in Clear[run[r].seen]
        /\ \A l \in run[r].seen : Complete(l) /\ reports[l] = 0
    BY <1>2, <1>14 DEF Emit, Turn
  <2>3. /\ \A l \in run[r].seen : reports'[l] = 1
        /\ \A l \in Lines \ run[r].seen : reports'[l] = reports[l]
    BY <2>1, <2>2
  <2>4. \A l \in Lines : reports'[l] < 2 /\ (reports'[l] > 0 => Complete(l)')
    BY <1>3, <2>1, <2>2, <2>3 DEF OnceInv
  <2>5. Past(state) \in Clear'[{}]
    <3>1. \A j \in 1 .. Len(files[1]) : files[1][j].line \in Lines
      <4>1. 1 \in Inodes /\ files[1] \in Seq(Token)
        BY <1>2 DEF Typed, HwTypeOK
      <4> QED
        BY <4>1, TokensTyped
    <3>2. files' = files /\ Past(state) \in Nat
      BY <1>2 DEF env, Clear
    <3>3. \A j \in 1 .. Len(files[1]) : reports'[files[1][j].line] > 0 =>
            reports[files[1][j].line] > 0 \/ files[1][j].line \in run[r].seen
      BY <2>3, <3>1
    <3>4. \A j \in 1 .. Len(files[1]) :
            files[1][j].end /\ reports'[files[1][j].line] > 0 =>
              j <= Past(state) /\ Past(state) <= Len(files[1])
      BY <2>1, <2>2, <3>3 DEF Clear
    <3> QED
      BY <3>2, <3>4 DEF Clear
  <2>6. Turn(r)'
    BY <1>5, <1>14 DEF Emit
  <2> QED
    BY <1>1, <1>3, <2>1, <2>4, <2>5, <2>6 DEF OnceInv
<1> QED
  BY <1>6, <1>7, <1>8, <1>9, <1>10, <1>11, <1>12, <1>13, <1>14 DEF Proceed

\* Nothing is reported at first.
LEMMA InitOnce ==
  HwInit => OnceInv
BY HwMonAssumption DEF HwInit, OnceInv, Fresh, MidLine, Past, Clear, Turn, Idle, Lines, Inodes

\* Until a rotation begins or the state file is damaged, what a run has
\* reported lies behind the cursor that the next one reads.
LEMMA OnceInvariance ==
  ASSUME HasFlock, TRUE \notin Journal, "write" \notin Faults
  PROVE  HwSpec => [](Quiet => OnceInv)
<1>1. HwInit => OnceInv
  BY InitOnce
<1>2. ASSUME Typed, Typed', Quiet => OnceInv, [HwNext]_hwVars
      PROVE  (Quiet => OnceInv)'
  <2>1. CASE UNCHANGED hwVars
    <3>1. Clear' = Clear
      BY <2>1 DEF Clear, hwVars, env
    <3> QED
      BY <1>2, <2>1, <3>1 DEF OnceInv, Fresh, MidLine, Turn, Complete, Quiet, hwVars, env
  <2>2. CASE HwNext /\ Quiet'
    BY <1>2, <2>2, QuietBefore, WorldOnce, RunOnce DEF HwNext
  <2> QED
    BY <1>2, <2>1, <2>2
<1> QED
  BY <1>1, <1>2, HwTyped, PTL DEF HwSpec

\* Before the first rotation no line is reported twice, for any number of
\* overlapping runs, lines, kills, failed reads and truncations, where flock
\* is installed, the log file is read and the state file can be written and
\* stays undamaged (kernel-hw-mon.sh:286-463).
THEOREM LinesOnce ==
  ASSUME HasFlock, TRUE \notin Journal, "write" \notin Faults, MaxCorruptions = 0
  PROVE  HwSpec => []NoLineTwice
<1>1. Typed /\ (Quiet => OnceInv) => NoLineTwice
  BY DEF Typed, Kinds, Budget, Quiet, OnceInv, NoLineTwice
<1> QED
  BY <1>1, HwTyped, OnceInvariance, PTL
=============================================================================
