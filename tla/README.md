# A TLA+ model of chkbit

chkbit keeps an index of hashes for the files of a directory tree and reports files whose content
changed while their modification time did not. This directory holds TLA+ modules for its concurrent
core, its index logic, its atom store, its deduplication down to the extents of two files, its ignore
rules and what its commands do to a tree of directories with several indexes, the TLC instances that
check them, and the theorems about them that TLAPS has checked.

## The system

| Part | State | Operations | Interacts with |
|---|---|---|---|
| `Context.Process` (`context.go`) | WorkQueue, LogQueue, PerfQueue, mutex and counters, doAbort | Process, scanDir, addWork, endWork, log | starts scanner and workers, opens and finishes the store, sends to the handler |
| worker (`worker.go`) | the directory it indexes | runWorker | receives from WorkQueue, logs, saves |
| progress handler, `runCmd` (`cmd/chkbit/main.go`) | dmgList, errList, abortChan | handleProgress, logStatus, summary, exit code | drains LogQueue and PerfQueue, sets doAbort |
| Index of a directory (`index.go`, `hashfile.go`) | cur, new, directory lists, modified | load, calcHashes, calcFile, checkFix, save | the file system, the store |
| indexStore (`indexstore.go`) | split: one file per directory; atom: one file, `.bak`, `.new`, one or two temporary databases, storeDbQueue | Open, Load, Save, storeDbWorker, Finish, import, export | called by Process and the workers |
| dedup (`dedup.go`, `cmd/chkbit/dedup.go`) | the dedup database (generation, a bag per hash), LogQueue | DetectDupes, Dedup, Show, handleDedupProgress | reads the atom file, asks the file system to share extents |
| extents (`os_linux.go`, `os_darwin.go`, `os.go`) | none | GetFileExtents, ExtentsMatch, DeduplicateFiles | the kernel |
| ignore rules (`ignore.go`) | the patterns of a directory and of its parents | GetIgnore, shouldIgnore | scanDir, calcHashes |
| locating and making an index (`indexstore.go`, `context.go`) | none | LocateIndex, UseAtomIndexStore, InitializeIndexStore | the command line |
| fuse (`fuse.go`) | a count | FuseIndexStore, fuseScanDir, fuseAtom, fuseSplit | indexStore in atom mode |
| flags, help, terminal (`cmd/chkbit`) | | | |

What makes it hard: one scanner, any number of workers, the main goroutine and the handler share
three bounded channels and a mutex that is held during a blocking send; an abort flag is read without
synchronisation; files change between the system calls that stat and hash them; an index outlives
many runs with different options; a run may be killed between any two writes; the atom file is
replaced by two renames; a database goroutine may fail while others send to it; deduplication changes
the disk at once but its database at the end of a transaction. PROJECT.json lists these hazards with
their lines and the properties aimed at them.

What makes the parts correct:

- Process: every directory in scope is indexed once; nothing logged is lost, so list, summary and exit
  code are honest; nothing is saved after the store is finished; every run ends.
- Index: an entry pairs the time and hash of one version; damage is reported until dealt with,
  never falsely and never silently forgotten; an update that found nothing saves nothing.
- Atom store: a run installs all of its saves or none, wherever it is killed; the atom file
  is never half written, but for the write error that exportCache loses.
- Dedup: what the database calls merged is merged on the disk; its sizes add up.
- Extents: a list of extents is complete, in however many pages it is read; success means that the two
  files share what nobody changed meanwhile; what is reported as reclaimed is neither too little nor
  more than was looked at.
- Ignore rules, walk: a line of an ignore file has the effect the help describes, with a split or an atom
  index, on all below its directory that a walk comes to through it (a walk that starts below sees the
  rules from its own start downwards, and the global ones); the walk goes through what the options and
  the rules leave, but for the last level of `--max-depth`.
- Indexes of a tree: no command changes an index it did not locate or entries it did not go through;
  none drops an entry without `--force`, a depth limit, a rule or an error, nor empties a split index
  without reporting it; fuse takes what check and update would have used.

## Modules

**Process** is one run. A goroutine is straight-line code between two decisions, so `todo[g]` is the
sequence of operations it still has to do; the head of it is the call it may be blocked in. `ScanDir`
is a call of scanDir up to its addWork, with the pending recursive calls on `stack`; `WorkerRecv` is
the top of runWorker's loop and chooses what the directory will log. `LogLock` and `LogSend` are the
two halves of `Context.log`: the mutex is taken before the send may block. `OpenStore`, `WaitWorkers`,
`FinishStore` and `CloseLog` are the rest of Process, `ExitCode` the end of runCmd, `HandleLog`,
`HandlePerf` and `HandleAbort` the cases of the select. A read of `doAbort` may return the old value.
What a directory can log is cut by `ScanLogs`, `LoadLogs`, `HashOps`, `FixLogs` and `SaveOps`.

**Index** is one directory over many runs. A step of a run is one system call of scanDir, load,
calcFile and save (`Begin`, `Load`, `Stat`, `Open`, `Read`, `Restat`, `SaveOpen`, `SaveWrite`), so
another program can act between any two; checkFix makes none and is one step. Files consist of
blocks, a hash is the blocks and the algorithm. The index file is missing, good, of an old version,
parseable with a wrong checksum, or unparseable. `Environment` writes, restores, damages, deletes,
hides and ignores files and damages the index. `truth` and `certified` are ghosts: what each version
contained, and for which version the right hash was saved.

**Transaction** says abstractly what the atom store promises; **AtomStore** is the code: `Import` and
`TestWrite` for Open, `WorkerLoad`/`WorkerSaves` for Load and Save, `DbPut`/`DbError`/`DbEnd` for
storeDbWorker, and one action per step of Finish. The index of a directory is the number of the run
that wrote it. `kind` is a check, an update of a part, or a refresh (an update of the whole root,
which writes a second database). `Store == INSTANCE Transaction WITH installed <- Installed, run <-
kind` is the refinement: `Installed` is the atom file or, while it is missing, `.bak`.

`init` and `fuse` are runs of AtomStore too: `InitStat`, `InitCreate` and `InitWrite` are the steps of
InitializeIndexStore (with `--force` the old index is removed before the new one is there), `FuseSaves`
saves an index that was found below. `spoiled` records that the promise of Transaction has been given
up: by `init --force`, or by the error of a key that exportCache loses.

**Dedup** is detect and dedup over several runs on one database, with the select loop of the command.
A file is one extent and a content state; sizes are counted in files, modulo `Word` like the unsigned
integers. The external file system shares only equal ranges, and whether it can is chosen at the start.
`Rewrite` is another program that replaces a file by the same or another content in another place,
lengthens, shortens, empties or deletes it. DeduplicateFiles goes by the size of its first file, so it
succeeds for every file that begins with the content of the leader (`Longer`), wherever the leader lies
by then. `touched` is a ghost: the files somebody changed since the database was told of their extents.

**Extents** is one call of DeduplicateFiles on Linux with the two lists it reads. `Stat` and `Page` are
getFileExtentsFp, for either file, with a page of `PageSize` extents per FIEMAP; `Loop`, `Skip`,
`Dedupe` and `DedupeError` are the loop over the source; `Change` is another program that writes,
defragments or empties a file between any two of these steps. The list of the source is read once, that
of the destination before every range. A file is a map of blocks to places, `ExtentsOf` gives its
extents; sizes and offsets count `Block` units to a block, so a file may end within one. A file within
the metadata has one block, the place of which is `Inline` (FIEMAP gives 0 for it): two of these match by
their place, but `Share` does not count them as shared. The kernel is external (`Answer`, `CanShare`).

**Ignore** has the rules as operators: `ShouldIgnore` follows shouldIgnore and shouldIgnore2 from level
to level, handing up a longer full name each time; `IsMeant` says without recursion what a line means.
Patterns and paths are sequences of names, with `Star` for a wildcard that matches any one name.

**Tree** is the commands check, update, init and fuse, one after the other, on a tree of directories
that changes in between, with the indexes of both modes lying in it. A command is one step: `Refuse`
and `Process` are runCmd (LocateIndex as `Locate`, UseAtomIndexStore as `Accepts` and `Refreshes`,
scanDir as `Scanned`, Index.save as `Saves`, the store as `Stored`), `Interrupt` is an update whose
user gave up, `InitIndex`, `RefuseInit` and `Fuse` are InitializeIndexStore and FuseIndexStore. A split
index that cannot be written keeps what it had or is lost (`SavedSplit`: os.WriteFile empties the file
first), the worker logs it and the run goes on. `Documented` is what the help says is gone through,
`Nearer` the same without the last level. It
composes what the other modules show step by step: a directory is a version, compared with the version
its index was made for (Index), a whole run reaches all of its walk (Process.FullCoverage), and a
run installs all of its saves or none (Transaction).

The MC modules only give constants their values. A definition marked `(mutant)` is the defective
version of the definition after it; it is not used by the specification, but shows which property
would notice that defect.

## Runs

| Run | Shows | Bounds |
|---|---|---|
| `Process_runs` | types, every directory in scope once, honest exit code, the summary is what was shown and saved, closing protocol, no event lost, nothing left in the queue, no save after the join, **every run ends** | 5 directories in 4 levels, MaxDepth 2, any of them unreadable, 2 workers, 2 interrupts, all channels of one place |
| `Index_runs` | hash and time belong together, no false damage, damage is reported, quiet repetition, no silent loss of the index | 3 runs of 8 command lines, 1 file of 1 or 2 blocks, 2 interchangeable subdirectories (symmetry), 2 algorithms, 3 events, 1 of a kind (2 mkdir), also during a run; rewrites during a run change the size |
| `Index_same_size` | *violated*: a same-size rewrite while hashing | 1 run, 1 event |
| `Index_unreadable` | *violated*: `del` for a file that is still there | 2 runs |
| `AtomStore_runs` | the refinement of Transaction and the invariants around it, what survives a lost write error, termination | 2 directories, 2 workers, a queue of one place, 3 runs, 1 kill, every fault |
| `AtomStore_abort` | *violated*: "No changes were made" | 1 run, no fault |
| `Dedup_runs` | merged files share space, sizes add up, nothing stale, all merged | 3 files of one hash, 3 runs, 1 change to any content or place, 2 interrupts or kills, a log of one place |
| `Dedup_space` | *violated*: actual space below the minimum | 4 files, 2 runs |
| `Dedup_abort` | *violated*: the handler waits for itself | 3 files, a log of two places |
| `Extents_runs` | lists complete, success means shared, what is reclaimed, nothing to do for files that match, **it ends** | files of up to 3 blocks of 2 units, sizes 1, 4 and 5, pages of 2 extents, 1 change, every fault |
| `Tree_runs` | the walk is the documented one but for the last level, no entry lost, nothing else touched, a check agrees with the update before, fuse collects | 4 directories in 3 levels and one beside them, 3 commands out of 10, 1 change before any of them or 1 split index that cannot be written, 4 sets of ignore files, 4 sets of indexes |
| `Tree_depth` | *violated*: `--max-depth N` reaches the directories N levels below | 1 command |

The bounds are the smallest at which the interesting cases meet: two workers and one-place channels make
every goroutine find its channel full and somebody else holding the mutex; four levels with a limit of
two have a directory nearer than the limit, one at it and one beyond; an index that is lost takes one
run to certify, one to lose and one to notice; two directories let one save reach the database while the
other is still to be loaded; three runs let detect, dedup and another of them meet in one database, and
in AtomStore an index, its loss and what is built on it; a list of up to three extents and pages of two
make getFileExtentsFp ask again, a size of 1, 4 and 5 units with blocks of two ends within a block, at
one and in another; three commands are enough for init, an update and a check, or two updates and a
fuse, and one event between any two of them makes the second find something; three levels let an ignore
file act on its own directory, on one below and on one further down, and a nearer index hide another.
Symmetry is used for workers and for the files of Dedup, which no action tells apart, and only in runs
without liveness. Deadlock is checked, except in AtomStore (a run hangs when storeDbWorker has failed),
Dedup (the handler can wait for itself), which both really happen, and Tree (after the last command
nothing more is asked for).

The six violated runs are disagreements of the code with its own comments, help or messages;
PROJECT.json quotes them under "findings". What the passing runs except, because the code does not do it:

- In `Index_runs` a rewrite during a run changes the size (`LiveWrites`): HashMatchesMtime fails with others.
- `RunEnds` leaves out runs whose storeDbWorker has failed: these hang.
- `AtomReadable` and the refinement except an init and what follows a lost write error (`spoiled`).
- `MergedShare` speaks of bags of which nobody changed a file since its extents were read or it was
  merged. One changed file is enough to make the others, which nobody touched, differ from what the
  database says: when it is the leader and lies elsewhere by then, those merged from then on go to its
  new place; when it was shortened, they share no more than what is left of it, or nothing.
- `SuccessShares` excepts data within the metadata.
- `WalkComplete`, `IndexKept` and `FullCoverage` do not ask for the directories that are exactly as many
  levels below as `--max-depth` says; `Tree_depth` shows that these are left out. WalkComplete still
  requires that nothing beyond them is gone through.
- `FullCoverage`, NothingLeftBehind and AllMerged ask for nothing of an aborted run, and `AllMerged` for
  nothing of one that had an error.

**Fairness.** Weak fairness per goroutine and per case of a select: the Go scheduler runs every
goroutine that is not blocked, and a select with several ready cases picks one at random, so each is
taken sooner or later. In Extents it is the one goroutine in DeduplicateFiles; `Terminates` excepts a kernel
that answers for ever, without an error, that it shared nothing, which the loop does not notice. The
user, other programs, faults and kills have no fairness, and so Tree, where every step is theirs, has
none: that a command ends is what Process, AtomStore and Dedup show.

## Proofs

`ProcessProofs` proves, for any finite set of workers, tree, roots, capacities and bounds that satisfy
`ProcessAssumption`:

- `TypeCorrect`: `Spec => []TypeOK`. Types alone are not inductive, because a log call is executed
  from the head of `todo` under the mutex, so they are proved together with `MutexInv`.
- `LogProtocol`: `Spec => [](TypeOK /\ LogInv)`. `LogInv` is the inductive invariant: the holder of
  the mutex is in a log call (MutexInv), a worker that returned has nothing to do and after the join
  none is active (JoinInv), there is a nil only when nobody but the scanner can still log, only the
  scanner's events follow it, and every reported event is in the queue or handled (CloseInv), exit
  code 0 implies empty lists (ExitInv).
- `FinishAfterSaves` follows: only an active worker saves.
- `QueueDrained`: `Spec => []NothingLeftBehind`. Inductive with NilInv: unless the run was aborted,
  what is in WorkQueue ends with the pills that no worker has taken, so that workers gone and pills
  left add up to the pills sent, and once a worker is gone nothing but pills is left; and ScanInv: the
  pills are sent only after the scanner is through.
- `EveryEventSeen` and `ExitCodeTrustworthy`: NoEventLost because the handler ends on the nil, behind
  which there are only events of the scanner (LogInv), and, unless the run was aborted, not even these:
  the scanner is through when the workers are joined (NothingLeftBehind), so nothing comes after the nil
  (TailInv). ExitCodeIsHonest follows from that and ExitInv.

`CoverageProofs` and `SummaryProofs` go on from there, for the same constants:

- `Coverage`: `Spec => []FullCoverage`, for given paths that do not overlap (`PathsDisjoint`, which TLC
  evaluates for the instances). It is needed: a directory that is given twice, or below another one that
  is given, is indexed twice by the code. That a directory has at most one worker is OnceInv: it is in at
  most one place, on the stack of the scanner, found unreadable, about to be added, in WorkQueue or
  taken. PathInv says that what was met lies at the depth the stack says, on a path of readable
  directories, and that nothing below a directory on the stack has been met; KidsInv that the
  subdirectories of what was passed on were met, unless the limit forbids. A path to a directory is
  unique and never longer than there are directories (`OnePath`, `PathLength`), so `Level`, which the
  property counts the depth by, is what the scanner reaches (`LevelPaths`). At the join the queue and the
  stack are empty (QueueDrained), and every directory in scope is left with no place but a worker. The
  upper bound is the depth of the help, the lower one a level less, which is how far the code goes.
- `CountsAgree`: the counters of the summary are the numbers of the events shown, whatever the paths. The
  inductive invariant counts the events of a kind in the queue, in the hand of the goroutine that holds
  the mutex and already shown; nothing is left in the first two when runCmd prints the summary.
- `SummaryTrue`: `Spec => []SummaryAgrees`, with PathsDisjoint again: a worker logs that an index was
  updated after it saved it and while no other worker has that directory (SaveInv).

`AtomStoreProofs` proves, for any directories and workers, any capacity of the queue, any set of faults
and any number of runs and kills that satisfy `AtomAssumption`, every safety property of AtomStore's
passing run, by one inductive invariant, `IInv`:

- `TypeOK`; `PcInv`, which relates the place a run has come to with the command, the databases that are
  open and the goroutine; `DiskInv`: atom, .bak and .new at each step of init and of the swap, and that
  .new is the exported database unless the error of a key was lost; `FlowInv`: every directory is handed
  out once (HandInv), the queue and the transaction hold saves of this run and the pill is the last item
  (QueueInv), the database holds such saves or what it had at first, and a save that is neither in the
  database nor in the transaction nor in the queue means an error was reported (TargetInv), and at the
  end the queue and the transaction are empty (EndInv). None of them is inductive by itself: what a
  worker loads depends on what nobody has saved yet, and that the queue is empty in Finish on the pill.
- `TypeCorrect`, `AtomFileWhole`, `SwapLosesNothing`, `BackupStays`, `LoadsInstalled` and
  `AllSavesInstalled` are consequences.
- `KeepsPromise`: `Spec => Transactional`, the refinement. Begin and BeginInit are a Begin, WorkerSaves
  and FuseSaves a Save, RenameNew an Install of what has arrived, where nothing is lost unless the run
  has failed, Exit and Kill the End. The other steps are stutters or report an error; those that give
  up the old index (`spoiled`) are excepted.

`DedupProofs` proves, for any files, hashes, systems, capacities and bounds that satisfy
`DedupAssumption`, the safety properties of `Dedup_runs`. `IInv` has the types (TableInv), the nil of the
log as the last thing a job sends (NilInv), the generations (GenInv: what is stored has at most the
generation of the database, and in DetectDupes a bag of the new one belongs to a hash that was given),
the sizes (BagInv, WorkInv: the merged files of a bag are counted, those left are not merged yet) and
what a run without errors has merged already (MergedInv). From it follow `TypeCorrect`, `OnlyDetected`,
`SharedCounted` and `RunMergesAll`. `MergedFilesShare` adds ShareInv: in the database and in the
transaction, the merged files of a bag lie in one place if nobody changed any of them, what DetectDupes
found is so for the files that are still as it found them, and a bag of a transaction of Dedup calls at
least those files merged that it does in the database. It
supposes nothing of what others do to the files; a bag with a changed file is excepted by the property.

`IndexProofs` proves the safety properties of `Index_runs` for any files, subdirectories, contents,
options and bounds that satisfy `IndexAssumption`:

- `TypeCorrect`, `DamageIsReported` and `NothingForgotten`, for every choice of other programs. The
  inductive invariant `Reports` has the types, TimeInv (no time is later than the clock), OutcomeInv
  (what calcHashes has settled for a file nobody touches is what `Outcome` says), CertInv (what was
  certified is in the index file and in what was loaded from it, or the index does not verify and the
  log says so) and ReportInv (what checkFix has reported).
- `RepeatedUpdateIsQuiet`: with QuietInv, which says of what is about to be saved, of what was saved and
  of what the next run finds that an update with those options has nothing to do (`Settled`).
- `HashesMatch` and `DamageIsReal`: calcFile stats a file again after reading it and, if it changed,
  reads it once more. That is enough only if the second stat can see the change and the second reading
  is not disturbed as well, so both theorems suppose `SizesChange` (rewrites during a run change the
  size; `Index_same_size` shows what happens otherwise) and `RewrittenOnce` (calcFile meets at most one
  rewrite of the file it works on). MatchInv says how far what is read agrees with the version whose
  time was taken, DamageInv that a hash that differs belongs to a file that was damaged.
- `OneRewriteIsSafe`: with at most one rewrite during the runs the second condition always holds. This
  is the case that `Index_runs` checks.

`TreeProofs` proves every property of `Tree_runs`, and one about `Ignore` that no run states, for any
tree, ignore files, commands and bounds that satisfy `TreeAssumption`. That assumption says what the
trees of a file system are: finitely many directories, where any set of them has a highest and a lowest
one. Induction from the top down or from the bottom up (`TopDown`, `BottomUp`, `TreeRecursion`) follows
from it without the induction theorems of the library, and so what the recursive functions of the model
compute: each is shown to have a solution that is written down without recursion, and no other.

- `IgnoredIsMeant`: shouldIgnore, which asks level by level with a name that gets longer, ignores what
  the lines mean, for any levels and names.
- `TypeCorrect`, with `LocateFacts` (LocateIndex returns the nearest index on the path) and `FusedIs`
  (fuseScanDir, which saves what it finds in one directory after the other, comes to the entry of the
  deepest index it meets, in any order).
- `WalksAreComplete`: the recursion of scanDir reaches the trails of which every step is allowed
  (`ScannedIs`), and with IgnoredIsMeant these lead to the directories that are open and fewer levels
  below than the limit (`WalkedIs`), which are documented ones (`NearerIs`), and without a limit all.
- `RunsLeaveOthers` and `EntriesAreKept` follow from what each command does (`Steps`, and `SavedSplitIs`
  for the split indexes that cannot be written), the second one from WalkedIs as well: a rebuilt
  database has all of these.
- `CheckAfterUpdate`: `Agrees`, that what the last update went through is what its index says, is
  inductive with the types.
- `FuseCollectsAll`: the nearest index of a directory, if fuse comes to it, is the deepest source of its
  entry, because between the two there is none; FusedIs says that this is the one that is taken.

`ExtentsProofs` proves the safety properties of `Extents_runs`, for any numbers of blocks, units of a
block and extents of a page, any sizes, faults and number of changes that satisfy `ExtentsAssumption`:

- `Types` and `Success` (of what is not within the metadata: there the model, like the code, succeeds
  without sharing). The inductive invariant `Basics` has the types, OffsInv (where the offset may be
  at which step), ListInv (an extent of a list still says where its blocks lie, but for the blocks that
  somebody changed; the destination's list only until a range is shared, after which it is read
  again) and DoneInv (up to the offset the files share what nobody changed). DoneInv is not inductive
  without ListInv: passing over an extent is right only because the list of the source, however old, is
  true of the unchanged blocks.
- `Lists`: `Spec => []ListsComplete`. ReadInv says of a list that is being read that it is the beginning of
  the file's extents and that the next page starts where its last one ends (`PageFits`: so the page that
  comes is the next one; `NothingMissing`: so nothing is missing when no page comes, also when the rest of
  the size has wrapped because an extent goes beyond the end).
- `CountCovers`: `Spec => []ReclaimedCovers`. AloneInv: as long as nobody changes the files, a range begins
  with a block, and what is newly shared was counted; a range that ends within a block is the last one.
- `MatchReclaims`: `Spec => []MatchReclaimsNothing`. SameInv: for files that match, a range begins where an
  extent of the source ends, so both lists have the same extent there (`SameSkips`), unless the destination
  ends before, and then the kernel refuses the range.

The extents of a file are enumerated with a CHOOSE over the orders of a set of blocks; that there is one,
and that it leaves nothing out, is `InOrderIs`. The least-number principle (`Least`, `Greatest`) stands
in for induction.

Only model-checked: `EveryRunEnds`, `RunEnds`, `DedupEnds` and `Terminates`, which are liveness under
fairness and out of the prover's reach. Every safety property of a passing run is proved.

## Not modelled

- Flags, help, output, log file and terminal: text, with no state but the options.
- macOS: the loop over F_LOG2PHYS_EXT; sharing is not supported there. The other systems appear in
  Dedup as a file system that cannot show or cannot share extents.
- Symbolic links to directories, and loops of them, in isDir (`context.go:254`); errors of os.Stat in
  LocateIndex other than a missing file.
- Patterns within a name: path.Match is external and `Star` stands for a whole name.
- An inner atom index that is torn in the middle, when it is fused; entries of an atom index for
  directories that are not below it.
- Two processes on one atom file: nothing locks it and the later Finish wins.
- The util commands fileext and filededup are GetFileExtents and DeduplicateFiles with output.
- Modification times are distinct; in the code they are cut to milliseconds. JSON beyond the states an
  index file can be in; the memory of bbolt.

Seen while modelling, and not contradicted by any run:

- fuse never takes the index of its own directory (`fuse.go:70` looks only at the subdirectories), while
  `main.go:96` says that all indexes under the path are fused; its errors are logged but do not change
  the exit code.
- The split indexes that fuse leaves in place lie nearer than the atom index it made, and LocateIndex
  takes the nearest: a later check started in such a directory uses the old index.
- UseAtomIndexStore compares texts (`context.go:237`): `/data2` is taken to be below `/data`, and then
  indexed under the name of a path that is not below the root.
- An ignore file that cannot be read is reported, and what it would have ignored is indexed.
- `dedup run <path> <hashes>`: `cmd/chkbit/dedup.go:163` names only the first form of the command, so for
  the one with hashes the path stays empty and the index of the current directory is used.
- Two files within the metadata have place 0, so DeduplicateFiles takes them for shared and returns
  without an error (`os_linux.go:42-44`, `207-209`), while the help says of filededup that it makes all
  duplicate blocks point to the same space. By default dedup leaves out files that small.
- After another program moved or shortened the leader of a bag, dedup calls files merged that do not
  share their space, or not all of it (`MergedShare` says of which bags it is true).
- A split index that cannot be written is emptied first, so an error on a full disk loses it; the run
  reports the error, and the next one that the index does not parse.
- With `--max-depth` or an unreadable directory an update of the whole root forgets what it did not
  reach, also with `--keep-missing`; `IndexKept` says exactly when.

## Plan

1. Process and its proofs; Index; Transaction and AtomStore with the refinement; Dedup (done).
2. Ignore and Tree: the rules, LocateIndex, UseAtomIndexStore, the walk, what a refresh forgets, init
   and fuse; Extents (done).
3. Proofs of AtomStore and its refinement of Transaction (done).
4. Proofs of NothingLeftBehind, of Dedup and of Index (done).
5. Proofs of Tree, with the rules, the walk and fuse (done).
6. Proofs of FullCoverage and SummaryAgrees of Process, and of Extents (done).
