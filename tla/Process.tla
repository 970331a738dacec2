------------------------------ MODULE Process ------------------------------
(***************************************************************************)
(* One run of Context.Process: the scanner goroutine walks the directory   *)
(* tree and feeds WorkQueue, the workers index one directory at a time,    *)
(* the progress handler of the command line drains LogQueue and PerfQueue  *)
(* and turns control+c into an abort, and the main goroutine waits for the *)
(* workers, finishes the store and closes the log with a nil event.        *)
(*                                                                         *)
(* A goroutine is straight-line code between two decisions, so what it     *)
(* still has to do is a sequence of operations, todo[g]: a Status is a     *)
(* call of Context.log with that status, "perf" a send on PerfQueue,       *)
(* "save" a call of indexStore.Save, "add" a call of addWork.  The first   *)
(* operation of the sequence is the one the goroutine may be blocked in.   *)
(* The index store is not modelled here: Open and Finish succeed or fail,  *)
(* and Save records the directory.                                         *)
(***************************************************************************)
EXTENDS Naturals, Sequences, FiniteSets

CONSTANTS
  Workers,            \* the goroutines started by Process
  Scanner, Main,      \* the scanning goroutine and the caller of Process
  Nil,                \* the nil sent on WorkQueue and LogQueue
  Dirs,               \* every directory below the given paths
  Roots,              \* pathList
  Kids,               \* the subdirectories of a directory that are not ignored
  MaxDepth, SkipSubdirectories, UpdateIndex, UpdateSkipCheck, ShowIgnoredOnly,
  WorkCap, LogCap, PerfCap,    \* capacities of the three channels
  MaxSignals,         \* bound: how often the user presses control+c
  ScanLogs, LoadLogs, HashOps, FixLogs,  \* bounds: what one directory may log,
  SaveOps                                \* and what the end of an update may be

Status == {"PNC", "DMG", "ERX", "old", "upd", "new", "ok", "del", "ign", "xup"}
Op == Status \cup {"perf", "save", "add"}
Goroutine == Workers \cup {Scanner, Main}
Place == Dirs \cup {Nil}
Event == [from : Goroutine, dir : Place, stat : Status]
Pending == [dir : Dirs, depth : Nat]

ASSUME ProcessAssumption ==
  /\ IsFiniteSet(Workers) /\ Workers # {}
  /\ Scanner \notin Workers /\ Main \notin Workers /\ Scanner # Main
  /\ Nil \notin Goroutine /\ Nil \notin Dirs /\ Nil \notin Event
  /\ IsFiniteSet(Dirs) /\ Roots \in Seq(Dirs) /\ Kids \in [Dirs -> Seq(Dirs)]
  /\ MaxDepth \in Nat /\ SkipSubdirectories \in BOOLEAN
  /\ {UpdateIndex, UpdateSkipCheck, ShowIgnoredOnly} \subseteq BOOLEAN
  /\ {WorkCap, LogCap, PerfCap} \subseteq Nat \ {0}
  /\ MaxSignals \in Nat
  /\ ScanLogs \subseteq Seq({"PNC", "ign"})
  /\ LoadLogs \subseteq Seq({"PNC", "ERX"})
  /\ HashOps \subseteq Seq({"perf", "PNC", "ign"})
  /\ FixLogs \subseteq Seq({"DMG", "old", "upd", "new", "ok", "del"})
  /\ SaveOps \subseteq {<<>>, <<"save">>, <<"save", "xup">>, <<"PNC">>}

VARIABLES
  main,      \* where Process and the rest of runCmd are
  stack,     \* pending calls of scanDir, the next one first
  pills,     \* calls of endWork the scanner still has to make
  active,    \* workers that have not returned from runWorker
  todo,      \* todo[g]: operations goroutine g still has to do
  at,        \* at[g]: the directory g works on
  workQ, logQ, perfQ,          \* the channels; of PerfQueue only its length
  mutex,     \* holder of Context.mutex, or Nil
  count,     \* the counters NumTotal, NumIdxUpd, NumNew, NumUpd, NumDel
  doAbort,   \* Context.doAbort
  abortChan, \* interrupts delivered and not handled yet (buffer of one)
  handler,   \* whether handleProgress still runs
  handled,   \* events logStatus has seen
  (* history *)
  shown,     \* shown[stat]: how many events logStatus has seen
  signals,   \* how often control+c was pressed
  reported,  \* events whose Context.log call has completed
  unreadable,\* directories ReadDir failed for
  taken,     \* taken[d]: how often a worker took directory d
  saved      \* directories whose index was saved

scanVars == <<stack, pills, unreadable>>
logVars == <<logQ, mutex, count, reported>>
handlerVars == <<handler, handled, shown, doAbort, abortChan>>
vars == <<main, active, todo, at, workQ, perfQ, scanVars, logVars,
          handlerVars, signals, taken, saved>>

Counter == {"NumTotal", "NumIdxUpd", "NumNew", "NumUpd", "NumDel"}
NumWorkers == Cardinality(Workers)
Exited == main \in {"exit0", "exit1", "killed"}
DmgList == {e \in handled : e.stat = "DMG"}
ErrList == {e \in handled : e.stat = "PNC"}

Init ==
  /\ main = "open" /\ active = {} /\ stack = <<>> /\ pills = 0
  /\ todo = [g \in Goroutine |-> <<>>] /\ at = [g \in Goroutine |-> Nil]
  /\ workQ = <<>> /\ logQ = <<>> /\ perfQ = 0 /\ mutex = Nil
  /\ count = [c \in Counter |-> 0]
  /\ doAbort = FALSE /\ abortChan = 0 /\ signals = 0
  /\ handler = "run" /\ handled = {} /\ shown = [stat \in Status |-> 0] /\ reported = {}
  /\ unreadable = {} /\ taken = [d \in Dirs |-> 0] /\ saved = {}

-----------------------------------------------------------------------------
(* Operations any goroutine may be in                                      *)

\* doAbort is written by the handler and read by the other goroutines without
\* synchronisation: a read may still return the old value
AbortRead == {FALSE, doAbort}

Doing(g, op) == todo[g] # <<>> /\ Head(todo[g]) = op

\* (mutant) an updated file is not counted in the total
CountedWithoutUpdates(stat) ==
     (IF stat \in {"DMG", "old", "new"} THEN {"NumTotal"} ELSE {})
  \cup (IF stat = "ok" /\ ~UpdateSkipCheck THEN {"NumTotal"} ELSE {})
  \cup (IF stat = "xup" THEN {"NumIdxUpd"} ELSE {})
  \cup (IF stat = "new" THEN {"NumNew"} ELSE {})
  \cup (IF stat \in {"old", "upd"} THEN {"NumUpd"} ELSE {})
  \cup (IF stat = "del" THEN {"NumDel"} ELSE {})

\* the counters Context.log increments for a status
Counted(stat) ==
     (IF stat \in {"DMG", "old", "upd", "new"} THEN {"NumTotal"} ELSE {})
  \cup (IF stat = "ok" /\ ~UpdateSkipCheck THEN {"NumTotal"} ELSE {})
  \cup (IF stat = "xup" THEN {"NumIdxUpd"} ELSE {})
  \cup (IF stat = "new" THEN {"NumNew"} ELSE {})
  \cup (IF stat \in {"old", "upd"} THEN {"NumUpd"} ELSE {})
  \cup (IF stat = "del" THEN {"NumDel"} ELSE {})

\* Context.log up to the send: take the mutex, count
LogLock(g) ==
  /\ todo[g] # <<>> /\ Head(todo[g]) \in Status
  /\ mutex = Nil /\ mutex' = g
  /\ count' = [c \in Counter |-> IF c \in Counted(Head(todo[g]))
                                 THEN count[c] + 1 ELSE count[c]]
  /\ UNCHANGED <<main, active, todo, at, workQ, perfQ, scanVars, logQ,
                 reported, handlerVars, signals, taken, saved>>

\* the send on LogQueue, which blocks while the queue is full and keeps the
\* mutex meanwhile
LogSend(g) ==
  LET e == [from |-> g, dir |-> at[g], stat |-> Head(todo[g])] IN
  /\ mutex = g /\ Len(logQ) < LogCap
  /\ logQ' = Append(logQ, e) /\ reported' = reported \cup {e}
  /\ mutex' = Nil
  /\ todo' = [todo EXCEPT ![g] = Tail(@)]
  /\ UNCHANGED <<main, active, at, workQ, perfQ, scanVars, count,
                 handlerVars, signals, taken, saved>>

PerfSend(g) ==
  /\ Doing(g, "perf") /\ perfQ < PerfCap
  /\ perfQ' = perfQ + 1 /\ todo' = [todo EXCEPT ![g] = Tail(@)]
  /\ UNCHANGED <<main, active, at, workQ, scanVars, logVars, handlerVars,
                 signals, taken, saved>>

-----------------------------------------------------------------------------
(* The scanner                                                             *)

\* whether scanDir at this depth goes into the subdirectories
Descends(depth) == ~SkipSubdirectories /\ (MaxDepth = 0 \/ depth < MaxDepth)

\* (mutant) the depth is passed on as it is
SubDirsSameDepth(p) == [i \in 1..Len(Kids[p.dir]) |-> [dir |-> Kids[p.dir][i], depth |-> p.depth]]

SubDirs(p) ==
  [i \in 1..Len(Kids[p.dir]) |-> [dir |-> Kids[p.dir][i], depth |-> p.depth + 1]]

\* the entry of scanDir: give up after an abort, report a directory that
\* cannot be read, or report what is ignored, add the work and descend
ScanDir ==
  LET p == Head(stack) IN
  /\ todo[Scanner] = <<>> /\ stack # <<>>
  /\ at' = [at EXCEPT ![Scanner] = p.dir]
  /\ \/ /\ TRUE \in AbortRead
        /\ stack' = Tail(stack)
        /\ UNCHANGED <<todo, unreadable>>
     \/ /\ stack' = Tail(stack)
        /\ todo' = [todo EXCEPT ![Scanner] = <<"PNC">>]
        /\ unreadable' = unreadable \cup {p.dir}
     \/ /\ stack' = (IF Descends(p.depth) THEN SubDirs(p) ELSE <<>>) \o Tail(stack)
        /\ \E logs \in ScanLogs :
             todo' = [todo EXCEPT ![Scanner] = Append(logs, "add")]
        /\ UNCHANGED unreadable
  /\ UNCHANGED <<main, active, pills, workQ, perfQ, logVars, handlerVars,
                 signals, taken, saved>>

AddWork ==
  /\ Doing(Scanner, "add") /\ Len(workQ) < WorkCap
  /\ workQ' = Append(workQ, at[Scanner])
  /\ todo' = [todo EXCEPT ![Scanner] = Tail(@)]
  /\ UNCHANGED <<main, active, at, perfQ, scanVars, logVars, handlerVars,
                 signals, taken, saved>>

\* (mutant) one nil too many
EndWorkOnceMore ==
  /\ todo[Scanner] = <<>> /\ stack = <<>> /\ pills >= 0
  /\ Len(workQ) < WorkCap
  /\ workQ' = Append(workQ, Nil) /\ pills' = pills - 1
  /\ UNCHANGED <<main, active, todo, at, perfQ, stack, unreadable, logVars,
                 handlerVars, signals, taken, saved>>

\* (mutant) the nils are sent from outside the scanning goroutine
EndWorkBesideScan ==
  /\ pills > 0 /\ Len(workQ) < WorkCap
  /\ workQ' = Append(workQ, Nil) /\ pills' = pills - 1
  /\ UNCHANGED <<main, active, todo, at, perfQ, stack, unreadable, logVars,
                 handlerVars, signals, taken, saved>>

EndWork ==
  /\ todo[Scanner] = <<>> /\ stack = <<>> /\ pills > 0
  /\ Len(workQ) < WorkCap
  /\ workQ' = Append(workQ, Nil) /\ pills' = pills - 1
  /\ UNCHANGED <<main, active, todo, at, perfQ, stack, unreadable, logVars,
                 handlerVars, signals, taken, saved>>

ScannerNext ==
  ~Exited /\ (ScanDir \/ AddWork \/ EndWork \/ LogLock(Scanner) \/ LogSend(Scanner))

-----------------------------------------------------------------------------
(* A worker                                                                *)

\* What follows the indexing in runWorker: only in an update, and then nothing to
\* save, an index saved (and reported as updated if it was modified), or a failed save.
Saving == IF UpdateIndex THEN SaveOps ELSE {<<>>}

\* everything runWorker may do for one directory
Jobs ==
  IF ShowIgnoredOnly THEN {l \o i : l \in LoadLogs, i \in {<<>>, <<"ign">>}}
  ELSE {l \o h \o f \o s : l \in LoadLogs, h \in HashOps, f \in FixLogs, s \in Saving}

\* (mutant) the work queue is closed, which yields nil for ever, and the break
\* leaves only a switch around it
WorkerRecvSpins(w) ==
  LET item == Head(workQ) IN
  /\ w \in active /\ todo[w] = <<>> /\ workQ # <<>>
  /\ \/ /\ item = Nil
        /\ UNCHANGED <<workQ, active, todo, at, taken>>
     \/ /\ item # Nil /\ TRUE \in AbortRead
        /\ workQ' = Tail(workQ) /\ active' = active \ {w}
        /\ UNCHANGED <<todo, at, taken>>
     \/ /\ item # Nil /\ workQ' = Tail(workQ)
        /\ \E job \in Jobs : todo' = [todo EXCEPT ![w] = job]
        /\ at' = [at EXCEPT ![w] = item]
        /\ taken' = [taken EXCEPT ![item] = @ + 1]
        /\ UNCHANGED active
  /\ UNCHANGED <<main, perfQ, scanVars, logVars, handlerVars, signals, saved>>

\* the top of runWorker's loop
WorkerRecv(w) ==
  LET item == Head(workQ) IN
  /\ w \in active /\ todo[w] = <<>> /\ workQ # <<>>
  /\ workQ' = Tail(workQ)
  /\ \/ /\ item = Nil \/ TRUE \in AbortRead
        /\ active' = active \ {w}
        /\ UNCHANGED <<todo, at, taken>>
     \/ /\ item # Nil
        /\ \E job \in Jobs : todo' = [todo EXCEPT ![w] = job]
        /\ at' = [at EXCEPT ![w] = item]
        /\ taken' = [taken EXCEPT ![item] = @ + 1]
        /\ UNCHANGED active
  /\ UNCHANGED <<main, perfQ, scanVars, logVars, handlerVars, signals, saved>>

WorkerSave(w) ==
  /\ Doing(w, "save")
  /\ saved' = saved \cup {at[w]}
  /\ todo' = [todo EXCEPT ![w] = Tail(@)]
  /\ UNCHANGED <<main, active, at, workQ, perfQ, scanVars, logVars,
                 handlerVars, signals, taken>>

WorkerNext(w) ==
  ~Exited /\ (WorkerRecv(w) \/ WorkerSave(w) \/ PerfSend(w) \/ LogLock(w) \/ LogSend(w))

-----------------------------------------------------------------------------
(* Process itself, and what runCmd does around it                          *)

\* store.Open; when it succeeds the goroutines start
OpenStore ==
  /\ main = "open"
  /\ \/ /\ main' = "run" /\ active' = Workers /\ pills' = NumWorkers
        /\ stack' = [i \in 1..Len(Roots) |-> [dir |-> Roots[i], depth |-> 1]]
        /\ UNCHANGED todo
     \/ /\ main' = "close" /\ todo' = [todo EXCEPT ![Main] = <<"PNC">>]
        /\ UNCHANGED <<active, pills, stack>>
  /\ UNCHANGED <<at, workQ, perfQ, unreadable, logVars, handlerVars, signals,
                 taken, saved>>

\* (mutant) wg.Add in the goroutines, too late for wg.Wait
WaitWorkersEarly ==
  /\ main = "run" /\ main' = "finish"
  /\ UNCHANGED <<active, todo, at, workQ, perfQ, scanVars, logVars,
                 handlerVars, signals, taken, saved>>

\* wg.Wait()
WaitWorkers ==
  /\ main = "run" /\ active = {} /\ main' = "finish"
  /\ UNCHANGED <<active, todo, at, workQ, perfQ, scanVars, logVars,
                 handlerVars, signals, taken, saved>>

\* store.Finish; an error is logged
FinishStore ==
  /\ main = "finish" /\ main' = "close"
  /\ \E ops \in {<<>>, <<"PNC">>} : todo' = [todo EXCEPT ![Main] = ops]
  /\ UNCHANGED <<active, at, workQ, perfQ, scanVars, logVars, handlerVars,
                 signals, taken, saved>>

\* LogQueue <- nil, sent without the mutex
CloseLog ==
  /\ main = "close" /\ todo[Main] = <<>> /\ Len(logQ) < LogCap
  /\ logQ' = Append(logQ, Nil) /\ main' = "join"
  /\ UNCHANGED <<active, todo, at, workQ, perfQ, scanVars, mutex, count,
                 reported, handlerVars, signals, taken, saved>>

\* (mutant) errors do not count
ExitCodeDamageOnly ==
  /\ main = "join" /\ handler = "done"
  /\ main' = IF ~ShowIgnoredOnly /\ DmgList # {} THEN "exit1" ELSE "exit0"
  /\ UNCHANGED <<active, todo, at, workQ, perfQ, scanVars, logVars,
                 handlerVars, signals, taken, saved>>

\* runCmd joins the handler and derives the exit code
ExitCode ==
  /\ main = "join" /\ handler = "done"
  /\ main' = IF ~ShowIgnoredOnly /\ DmgList \cup ErrList # {} THEN "exit1" ELSE "exit0"
  /\ UNCHANGED <<active, todo, at, workQ, perfQ, scanVars, logVars,
                 handlerVars, signals, taken, saved>>

MainNext ==
  ~Exited /\ (\/ OpenStore \/ WaitWorkers \/ FinishStore \/ CloseLog \/ ExitCode
              \/ LogLock(Main) \/ LogSend(Main))

-----------------------------------------------------------------------------
(* handleProgress: one select over the interrupt, the log and the perf     *)
(* channel                                                                 *)

HandleLog ==
  /\ ~Exited /\ handler = "run" /\ logQ # <<>>
  /\ logQ' = Tail(logQ)
  /\ IF Head(logQ) = Nil
       THEN handler' = "done" /\ UNCHANGED <<handled, shown>>
       ELSE /\ handled' = handled \cup {Head(logQ)}
            /\ shown' = [shown EXCEPT ![Head(logQ).stat] = @ + 1]
            /\ UNCHANGED handler
  /\ UNCHANGED <<main, active, todo, at, workQ, perfQ, scanVars, mutex, count,
                 reported, doAbort, abortChan, signals, taken, saved>>

HandlePerf ==
  /\ ~Exited /\ handler = "run" /\ perfQ > 0
  /\ perfQ' = perfQ - 1
  /\ UNCHANGED <<main, active, todo, at, workQ, scanVars, logVars,
                 handlerVars, signals, taken, saved>>

\* (mutant) the handler stops listening once it has asked for an abort
HandleAbortReturns ==
  /\ ~Exited /\ handler = "run" /\ abortChan = 1
  /\ abortChan' = 0 /\ doAbort' = TRUE /\ handler' = "done"
  /\ UNCHANGED <<main, active, todo, at, workQ, perfQ, scanVars, logVars,
                 handled, shown, signals, taken, saved>>

\* the first interrupt asks for an abort, the second one ends the process
HandleAbort ==
  /\ ~Exited /\ handler = "run" /\ abortChan = 1
  /\ abortChan' = 0
  /\ IF doAbort THEN main' = "killed" /\ UNCHANGED doAbort
                ELSE doAbort' = TRUE /\ UNCHANGED main
  /\ UNCHANGED <<active, todo, at, workQ, perfQ, scanVars, logVars, handler,
                 handled, shown, signals, taken, saved>>

\* the user; signal.Notify drops an interrupt while the channel is full
Interrupt ==
  /\ ~Exited /\ signals < MaxSignals
  /\ signals' = signals + 1 /\ abortChan' = 1
  /\ UNCHANGED <<main, active, todo, at, workQ, perfQ, scanVars, logVars,
                 handler, handled, shown, doAbort, taken, saved>>

-----------------------------------------------------------------------------
Done == Exited /\ UNCHANGED vars

Next ==
  \/ ScannerNext
  \/ \E w \in Workers : WorkerNext(w)
  \/ MainNext
  \/ HandleLog \/ HandlePerf \/ HandleAbort
  \/ Interrupt
  \/ Done

(* The Go scheduler runs every goroutine that is not blocked, and a select *)
(* chooses at random among the channels that are ready.  The user is under *)
(* no obligation.                                                          *)
Fairness ==
  /\ WF_vars(ScannerNext)
  /\ \A w \in Workers : WF_vars(WorkerNext(w))
  /\ WF_vars(MainNext)
  /\ WF_vars(HandleLog) /\ WF_vars(HandlePerf) /\ WF_vars(HandleAbort)

Spec == Init /\ [][Next]_vars /\ Fairness

-----------------------------------------------------------------------------
(* Properties                                                              *)

\* The types of all variables; a channel never holds more than its capacity.
TypeOK ==
  /\ main \in {"open", "run", "finish", "close", "join", "exit0", "exit1", "killed"}
  /\ stack \in Seq(Pending) /\ pills \in Nat /\ active \subseteq Workers
  /\ todo \in [Goroutine -> Seq(Op)] /\ at \in [Goroutine -> Place]
  /\ workQ \in Seq(Place) /\ Len(workQ) <= WorkCap
  /\ logQ \in Seq(Event \cup {Nil}) /\ Len(logQ) <= LogCap
  /\ perfQ \in 0..PerfCap
  /\ mutex \in Goroutine \cup {Nil} /\ count \in [Counter -> Nat]
  /\ doAbort \in BOOLEAN /\ abortChan \in 0..1 /\ signals \in Nat
  /\ handler \in {"run", "done"}
  /\ handled \subseteq Event /\ shown \in [Status -> Nat] /\ reported \subseteq Event
  /\ unreadable \subseteq Dirs /\ taken \in [Dirs -> Nat] /\ saved \subseteq Place

\* When the handler has returned, it has seen every event that was logged, so
\* nothing is missing from the lists and the output: the nil event is the last one.
\* Only the scanner may still log behind it, after an abort.
NoEventLost ==
  handler = "done" =>
    \A e \in reported : e \in handled \/ (e.from = Scanner /\ doAbort)

\* The closing protocol of LogQueue, an inductive invariant behind NoEventLost:
\* nobody blocked in a log call gives up the mutex, a worker that returned has
\* nothing left to do, the nil is sent when the workers are gone and the main
\* goroutine has nothing left to log, only the scanner's events follow it, and
\* an event is in the queue until the handler has seen it.
MutexInv ==
  /\ mutex # Nil => todo[mutex] # <<>> /\ Head(todo[mutex]) \in Status
  /\ main \in {"open", "run", "finish", "join", "exit0", "exit1"} => todo[Main] = <<>>
JoinInv ==
  /\ \A w \in Workers : w \notin active => todo[w] = <<>>
  /\ main \notin {"run", "killed"} => active = {}
LogClosed == handler = "done" \/ \E i \in DOMAIN logQ : logQ[i] = Nil
CloseInv ==
  /\ LogClosed => /\ main \in {"join", "exit0", "exit1", "killed"}
                  /\ active = {} /\ todo[Main] = <<>>
  /\ handler = "done" =>
       \A j \in DOMAIN logQ : logQ[j] # Nil /\ logQ[j].from = Scanner
  /\ \A i, j \in DOMAIN logQ :
       i < j /\ logQ[i] = Nil => logQ[j] # Nil /\ logQ[j].from = Scanner
  /\ \A e \in reported : e \in handled \/ \E i \in DOMAIN logQ : logQ[i] = e
ExitInv ==
  /\ main \in {"exit0", "exit1"} => handler = "done"
  /\ main = "exit0" => ShowIgnoredOnly \/ DmgList \cup ErrList = {}
LogInv == MutexInv /\ JoinInv /\ CloseInv /\ ExitInv

\* The exit code is 0 only if no damage or error was logged, a directory that the
\* scanner could not read included; after an abort that one may be missed, and a run
\* that was interrupted twice is not covered.
ExitCodeIsHonest ==
  main = "exit0" /\ ~ShowIgnoredOnly =>
    \A e \in reported : e.stat \in {"DMG", "PNC"} => e.from = Scanner /\ doAbort

\* The directories n levels below the given paths are Level[n+1]: those above them
\* could be read.
Level[n \in Nat \ {0}] ==
  IF n = 1 THEN {Roots[i] : i \in DOMAIN Roots}
  ELSE UNION {{Kids[d][i] : i \in DOMAIN Kids[d]} : d \in Level[n-1] \ unreadable}
Within(n) == (UNION {Level[i] : i \in 1..n + 1}) \ unreadable

\* How many levels the help allows: N for --max-depth N.  The code stops one level
\* before (Tree.WalkDocumented shows it).
DepthLimit ==
  IF SkipSubdirectories THEN 0 ELSE IF MaxDepth = 0 THEN Cardinality(Dirs) ELSE MaxDepth
DepthReached == IF SkipSubdirectories \/ MaxDepth = 0 THEN DepthLimit ELSE DepthLimit - 1

\* The given paths do not overlap: no directory is given twice or is below two
\* directories, and none that is given is below another.
PathsDisjoint ==
  /\ \A i, j \in DOMAIN Roots : Roots[i] = Roots[j] => i = j
  /\ \A d, e \in Dirs : \A i \in DOMAIN Kids[d], j \in DOMAIN Kids[e] :
       Kids[d][i] = Kids[e][j] => d = e /\ i = j
  /\ \A d \in Dirs : \A i \in DOMAIN Kids[d], j \in DOMAIN Roots : Kids[d][i] # Roots[j]

\* A directory is handed to at most one worker, and only if it is readable and not
\* more levels below the given paths than the help allows, also when the run is
\* aborted.  When the workers are joined and nobody pressed control+c, every
\* readable directory on fewer levels than that was handed to one, whatever the
\* order of scanner and workers.  (For paths that do not overlap.)
FullCoverage ==
  /\ \A d \in Dirs : taken[d] <= IF d \in Within(DepthLimit) THEN 1 ELSE 0
  /\ main = "finish" /\ ~doAbort => \A d \in Within(DepthReached) : taken[d] = 1

\* When the workers are joined without an abort, the scanner is through and no
\* directory is left in the queue: finishing the store then misses nothing.
NothingLeftBehind ==
  main \in {"finish", "close", "join", "exit0", "exit1"} /\ ~doAbort =>
    stack = <<>> /\ todo[Scanner] = <<>> /\ pills = 0 /\ workQ = <<>>

\* The counters agree with the events the user was shown.
CountsShown ==
  /\ count["NumTotal"] = shown["DMG"] + shown["old"] + shown["upd"] + shown["new"]
                           + (IF UpdateSkipCheck THEN 0 ELSE shown["ok"])
  /\ count["NumNew"] = shown["new"]
  /\ count["NumUpd"] = shown["old"] + shown["upd"]
  /\ count["NumDel"] = shown["del"]
  /\ count["NumIdxUpd"] = shown["xup"]

\* The summary runCmd prints at the end agrees with the events the user was
\* shown, and, for paths that do not overlap, no more directories are called
\* updated than were saved.
SummaryAgrees ==
  main \in {"exit0", "exit1"} => CountsShown /\ count["NumIdxUpd"] <= Cardinality(saved)

\* Nothing is saved once the main goroutine has joined the workers: Finish
\* never runs beside a Save.
NoSaveAfterJoin == [][saved' # saved => main = "run"]_vars

\* Every run ends, also when it is aborted while the queues are full.
EveryRunEnds == <>Exited
=============================================================================
