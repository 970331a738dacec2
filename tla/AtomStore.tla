------------------------------ MODULE AtomStore ------------------------------
(***************************************************************************)
(* indexStore in atom mode over several runs of the program: Open copies   *)
(* the atom file into a temporary database, the workers Load from it and   *)
(* Save through a bounded queue to the goroutine storeDbWorker, Finish     *)
(* exports the database and swaps the files.  init creates an empty atom   *)
(* file, fuse does too and then saves the indexes it finds below.  The     *)
(* process may be killed between any two steps, any operation in Faults    *)
(* may fail.                                                               *)
(*                                                                         *)
(* The index of a directory is a version number: the run that last changed *)
(* it, 0 for what was there first.  The databases are external (bbolt): a  *)
(* transaction is seen by readers once it is committed, one whose Commit   *)
(* fails is rolled back, and Close waits for a transaction that is open.   *)
(***************************************************************************)
EXTENDS Naturals, Sequences

CONSTANTS
  Dirs, Workers,
  QueueCap,     \* capacity of storeDbQueue
  Faults,       \* the operations that may fail
  MaxRuns, MaxKills,  \* bounds: runs of the program, kills among them
  None          \* no file, no database, no index, no work

Version == 0..MaxRuns
Data == [Dirs -> Version \cup {None}]
File == [whole : BOOLEAN, data : Data]  \* whole: importCache accepts it
Kind == {"check", "update", "refresh", "init", "fuse"}

ASSUME AtomAssumption ==
  /\ QueueCap \in Nat \ {0} /\ MaxRuns \in Nat /\ MaxKills \in Nat
  /\ None \notin Version \cup File \cup Data \cup Dirs \cup (Dirs \X Version) \cup Kind \cup {"key"}
  /\ Faults \subseteq {"import", "create", "begin", "put", "commit", "close",
                       "write", "key", "rename", "remove"}

VARIABLES
  (* on disk *)
  atom, bak, newFile,  \* the atom file, its .bak and its .new
  (* indexStore *)
  pc,        \* where Process, InitializeIndexStore, Open or Finish is
  kind,      \* the command, with readOnly and refresh
  cacheR, cacheW,  \* committed content of the databases connR and connW
  dirty,
  queue,     \* storeDbQueue: <<directory, version>>, or None for the pill
  tx,        \* the open transaction of storeDbWorker, or None
  dbWorker,  \* "none", "loop" or "done"
  aborted,   \* the argument of Finish
  (* its callers *)
  doAbort, todo,
  hand,      \* hand[w]: the directory worker w has loaded, or None
  seen,      \* seen[w]: the index it loaded
  (* history and bounds *)
  saved,     \* saved[d]: what was given to Save for d in this run, or None
  before,    \* what was installed when the run began
  failed,    \* whether the run has logged an error
  spoiled,   \* why no index is promised: "init" as long as there is none, and from
             \* the moment init gives up the old one until the new one is
             \* written, "key" after a lost error of exportCache, else None
  runs, kills

disk == <<atom, bak, newFile>>
caches == <<cacheR, cacheW>>
callers == <<doAbort, todo, hand, seen>>
vars == <<disk, pc, kind, caches, dirty, queue, tx, dbWorker, aborted, callers,
          saved, before, failed, spoiled, runs, kills>>

Nothing == [d \in Dirs |-> None]
Torn == [whole |-> FALSE, data |-> Nothing]
Whole(data) == [whole |-> TRUE, data |-> data]
Idle == [w \in Workers |-> None]

\* what the last run that finished installed
Installed == IF atom # None THEN atom.data ELSE IF bak # None THEN bak.data ELSE Nothing

\* connW is connR unless the whole index is rebuilt
Target == IF kind = "refresh" THEN cacheW ELSE cacheR
SetTarget(data) == IF kind = "refresh" THEN cacheW' = data /\ UNCHANGED cacheR
                   ELSE cacheR' = data /\ UNCHANGED cacheW

Init ==
  /\ atom \in {Whole(data) : data \in [Dirs -> {0, None}]} \cup {None}
  /\ bak = None /\ newFile = None
  /\ pc = "idle" /\ kind = None /\ cacheR = None /\ cacheW = None /\ dirty = FALSE
  /\ queue = <<>> /\ tx = None /\ dbWorker = "none" /\ aborted = FALSE
  /\ doAbort = FALSE /\ todo = {} /\ hand = Idle /\ seen = Idle
  /\ saved = Nothing /\ before = Nothing /\ failed = FALSE
  /\ spoiled = (IF atom = None THEN "init" ELSE None)
  /\ runs = 0 /\ kills = 0

-----------------------------------------------------------------------------
(* Process, InitializeIndexStore and Open                                  *)

BeginAs(kinds, at) ==
  /\ pc = "idle" /\ runs < MaxRuns
  /\ pc' = at /\ runs' = runs + 1
  /\ kind' \in kinds /\ todo' \in (IF kind' = "init" THEN {{}} ELSE SUBSET Dirs)
  /\ saved' = Nothing /\ before' = Installed /\ failed' = FALSE
  /\ dirty' = FALSE /\ doAbort' = FALSE /\ aborted' = FALSE
  /\ UNCHANGED <<disk, caches, queue, tx, dbWorker, hand, seen, kills>>

\* LocateIndex finds the atom file; the walk will find the directories todo
Begin ==
  /\ atom # None /\ BeginAs({"check", "update", "refresh"}, "import")
  /\ spoiled' = (IF atom.whole THEN None ELSE spoiled)

\* init or fuse, which will find the indexes of the directories todo
BeginInit == BeginAs({"init", "fuse"}, "init") /\ UNCHANGED spoiled

\* an operation fails: Open or Finish returns the error, which is logged
Error(op) ==
  /\ op \in Faults
  /\ pc' = "done" /\ failed' = TRUE

storeFrame == <<dirty, aborted, callers, saved, before, runs, kills, kind>>

\* InitializeIndexStore: an existing file is removed with --force, and an error
\* without
InitStat ==
  /\ pc = "init"
  /\ \/ atom = None /\ pc' = "create" /\ UNCHANGED <<atom, failed, spoiled>>
     \/ /\ atom # None /\ atom' = None /\ spoiled' = "init"
        /\ pc' = "create" /\ UNCHANGED failed
     \/ atom # None /\ pc' = "done" /\ failed' = TRUE /\ UNCHANGED <<atom, spoiled>>
     \/ atom # None /\ Error("remove") /\ UNCHANGED <<atom, spoiled>>
  /\ UNCHANGED <<storeFrame, bak, newFile, caches, queue, tx, dbWorker>>

InitCreate ==
  /\ pc = "create"
  /\ \/ atom' = Torn /\ spoiled' = "init" /\ pc' = "write" /\ UNCHANGED failed
     \/ Error("create") /\ UNCHANGED <<atom, spoiled>>
  /\ UNCHANGED <<storeFrame, bak, newFile, caches, queue, tx, dbWorker>>

\* The empty index is written; fuse goes on with Open.
InitWrite ==
  /\ pc = "write"
  /\ \/ /\ atom' = Whole(Nothing) /\ spoiled' = None /\ before' = Nothing
        /\ pc' = (IF kind = "fuse" THEN "import" ELSE "done") /\ UNCHANGED failed
     \/ Error("write") /\ UNCHANGED <<atom, spoiled, before>>
  /\ UNCHANGED <<dirty, aborted, callers, saved, runs, kills, kind, bak, newFile, caches,
                 queue, tx, dbWorker>>

\* (mutant) what precedes the syntax error is imported
ImportLenient ==
  /\ pc = "import" /\ cacheR' = atom.data
  /\ pc' = IF kind = "check" THEN "work" ELSE "test"
  /\ UNCHANGED <<failed, spoiled, storeFrame, disk, cacheW, queue, tx, dbWorker>>

\* importCache into a temporary database
Import ==
  /\ pc = "import"
  /\ \/ /\ atom.whole /\ cacheR' = atom.data
        /\ pc' = IF kind = "check" THEN "work" ELSE "test"
        /\ UNCHANGED failed
     \/ /\ Error("import") /\ UNCHANGED cacheR
     \/ /\ ~atom.whole /\ pc' = "done" /\ failed' = TRUE /\ UNCHANGED cacheR
  /\ UNCHANGED <<storeFrame, spoiled, disk, cacheW, queue, tx, dbWorker>>

\* the test that .new is writable, which leaves it empty; then connW and the
\* goroutine storeDbWorker
TestWrite ==
  /\ pc = "test"
  /\ \/ /\ newFile' = Torn /\ pc' = "work" /\ dbWorker' = "loop"
        /\ cacheW' = IF kind = "refresh" THEN Nothing ELSE None
        /\ UNCHANGED failed
     \/ Error("create") /\ UNCHANGED <<newFile, dbWorker, cacheW>>
  /\ UNCHANGED <<storeFrame, spoiled, atom, bak, cacheR, queue, tx>>

-----------------------------------------------------------------------------
(* The workers                                                             *)

\* (mutant) Load reads from the database that is written
LoadFromTarget(d) == Target[d]

\* Load reads what is committed in connR
LoadFrom(d) == cacheR[d]

\* a worker takes a directory and loads its index; it may have read doAbort
\* before it was set
WorkerLoad(w) ==
  /\ pc = "work" /\ kind # "fuse" /\ hand[w] = None
  /\ \E d \in todo :
       /\ todo' = todo \ {d}
       /\ hand' = [hand EXCEPT ![w] = d]
       /\ seen' = [seen EXCEPT ![w] = LoadFrom(d)]
  /\ UNCHANGED <<disk, pc, kind, caches, dirty, queue, tx, dbWorker, aborted,
                 doAbort, saved, before, failed, spoiled, runs, kills>>

\* Index.save finds nothing to save
WorkerKeeps(w) ==
  /\ hand[w] # None /\ kind # "refresh"
  /\ hand' = [hand EXCEPT ![w] = None] /\ seen' = [seen EXCEPT ![w] = None]
  /\ UNCHANGED <<disk, pc, kind, caches, dirty, queue, tx, dbWorker, aborted,
                 doAbort, todo, saved, before, failed, spoiled, runs, kills>>

\* Save: a changed index or, in a refresh, also the one that was loaded.  The
\* send waits while the queue is full.
WorkerSaves(w) ==
  /\ hand[w] # None /\ kind # "check" /\ Len(queue) < QueueCap
  /\ \E v \in {runs} \cup (IF kind = "refresh" THEN {seen[w]} \ {None} ELSE {}) :
       /\ queue' = Append(queue, <<hand[w], v>>)
       /\ saved' = [saved EXCEPT ![hand[w]] = v]
  /\ dirty' = TRUE
  /\ hand' = [hand EXCEPT ![w] = None] /\ seen' = [seen EXCEPT ![w] = None]
  /\ UNCHANGED <<disk, pc, kind, caches, tx, dbWorker, aborted, doAbort, todo,
                 before, failed, spoiled, runs, kills>>

\* fuseSplit and fuseAtom save the indexes found below; one that cannot be read
\* is logged and left out
FuseSaves ==
  /\ pc = "work" /\ kind = "fuse"
  /\ \E d \in todo :
       /\ todo' = todo \ {d}
       /\ \/ /\ Len(queue) < QueueCap /\ queue' = Append(queue, <<d, runs>>)
             /\ saved' = [saved EXCEPT ![d] = runs] /\ dirty' = TRUE /\ UNCHANGED failed
          \/ failed' = TRUE /\ UNCHANGED <<queue, saved, dirty>>
  /\ UNCHANGED <<disk, pc, kind, caches, tx, dbWorker, aborted, doAbort, hand, seen, before,
                 spoiled, runs, kills>>

-----------------------------------------------------------------------------
(* storeDbWorker                                                           *)

dbFrame == <<disk, pc, kind, dirty, aborted, callers, saved, before, spoiled, runs, kills>>

\* the content of the database after a successful Commit
Committed == [d \in Dirs |-> IF tx # None /\ tx[d] # None THEN tx[d] ELSE Target[d]]

\* one item: a transaction of more than 30 seconds is committed, one is begun if
\* there is none, and the item is put
DbPut ==
  LET put(t) == [t EXCEPT ![queue[1][1]] = queue[1][2]] IN
  /\ dbWorker = "loop" /\ queue # <<>> /\ queue[1] # None
  /\ queue' = Tail(queue)
  /\ \/ /\ tx' = put(IF tx = None THEN Nothing ELSE tx)
        /\ UNCHANGED caches
     \/ /\ tx # None
        /\ SetTarget(Committed) /\ tx' = put(Nothing)
  /\ UNCHANGED <<dbFrame, dbWorker, failed>>

\* an operation on the database fails: the goroutine logs the error and ends,
\* and nobody receives from the queue any more
DbError ==
  /\ dbWorker = "loop" /\ queue # <<>> /\ queue[1] # None
  /\ \/ "commit" \in Faults /\ tx # None /\ tx' = None /\ UNCHANGED caches
     \/ "begin" \in Faults /\ tx = None /\ UNCHANGED <<caches, tx>>
     \/ "begin" \in Faults /\ tx # None /\ SetTarget(Committed) /\ tx' = None
     \/ "put" \in Faults /\ tx' = (IF tx = None THEN Nothing ELSE tx) /\ UNCHANGED caches
     \/ "put" \in Faults /\ tx # None /\ SetTarget(Committed) /\ tx' = Nothing
  /\ queue' = Tail(queue) /\ dbWorker' = "done" /\ failed' = TRUE
  /\ UNCHANGED dbFrame

\* (mutant) the error of the last Commit is not logged
DbEndSilent ==
  /\ dbWorker = "loop" /\ queue # <<>> /\ queue[1] = None
  /\ queue' = Tail(queue) /\ dbWorker' = "done"
  /\ \/ SetTarget(Committed) /\ tx' = None /\ UNCHANGED failed
     \/ "commit" \in Faults /\ tx # None /\ tx' = None /\ UNCHANGED <<caches, failed>>
  /\ UNCHANGED dbFrame

\* (mutant) a pill that finds nothing to commit does not end the goroutine
DbEndIfDirty ==
  /\ dbWorker = "loop" /\ queue # <<>> /\ queue[1] = None
  /\ queue' = Tail(queue)
  /\ \/ tx # None /\ SetTarget(Committed) /\ tx' = None /\ dbWorker' = "done" /\ UNCHANGED failed
     \/ tx = None /\ UNCHANGED <<caches, tx, dbWorker, failed>>
  /\ UNCHANGED dbFrame

\* the pill: what is left is committed
DbEnd ==
  /\ dbWorker = "loop" /\ queue # <<>> /\ queue[1] = None
  /\ queue' = Tail(queue) /\ dbWorker' = "done"
  /\ \/ SetTarget(Committed) /\ tx' = None /\ UNCHANGED failed
     \/ "commit" \in Faults /\ tx # None /\ tx' = None /\ failed' = TRUE /\ UNCHANGED caches
  /\ UNCHANGED dbFrame

-----------------------------------------------------------------------------
(* Finish                                                                  *)

finishFrame == <<kind, dirty, callers, saved, before, runs, kills>>

\* (mutant) Finish does not wait for storeDbWorker
FinishEarly ==
  /\ pc = "work" /\ hand = Idle /\ (todo = {} \/ doAbort)
  /\ pc' = "close" /\ aborted' = doAbort
  /\ UNCHANGED <<finishFrame, spoiled, disk, caches, queue, tx, dbWorker, failed>>

\* All workers have ended, in a run that was not aborted because there is no
\* more work, and Finish is called with the abort flag of this moment.
Finish ==
  /\ pc = "work" /\ hand = Idle /\ (todo = {} \/ doAbort)
  /\ pc' = IF kind = "check" THEN "close" ELSE "pill"
  /\ aborted' = doAbort
  /\ UNCHANGED <<finishFrame, spoiled, disk, caches, queue, tx, dbWorker, failed>>

\* (mutant) the pill does not wait for a place in the queue
SendPillAtOnce ==
  /\ pc = "pill"
  /\ queue' = Append(queue, None) /\ pc' = "join"
  /\ UNCHANGED <<finishFrame, spoiled, disk, caches, tx, dbWorker, aborted, failed>>

SendPill ==
  /\ pc = "pill" /\ Len(queue) < QueueCap
  /\ queue' = Append(queue, None) /\ pc' = "join"
  /\ UNCHANGED <<finishFrame, spoiled, disk, caches, tx, dbWorker, aborted, failed>>

\* storeDbWg.Wait
Join ==
  /\ pc = "join" /\ dbWorker = "done" /\ pc' = "close"
  /\ UNCHANGED <<finishFrame, spoiled, disk, caches, queue, tx, dbWorker, aborted, failed>>

\* the databases are closed, which waits for an open transaction
Close ==
  /\ pc = "close"
  /\ \/ /\ tx = None
        /\ pc' = IF kind # "check" /\ dirty /\ ~aborted THEN "export" ELSE "clean"
        /\ UNCHANGED failed
     \/ tx = None /\ Error("close")
  /\ UNCHANGED <<finishFrame, spoiled, disk, caches, queue, tx, dbWorker, aborted>>

swapFrame == <<finishFrame, caches, queue, tx, dbWorker, aborted>>

\* exportCache creates .new
ExportOpen ==
  /\ pc = "export"
  /\ \/ newFile' = Torn /\ pc' = "exporting" /\ UNCHANGED failed
     \/ Error("create") /\ UNCHANGED newFile
  /\ UNCHANGED <<swapFrame, spoiled, atom, bak>>

\* the database that is exported
Exported == IF cacheW # None THEN cacheW ELSE cacheR

\* (mutant) the errors of all writes are lost
ExportWriteAll ==
  /\ pc = "exporting" /\ pc' = "rename" /\ UNCHANGED failed
  /\ \/ newFile' = Whole(Exported)
     \/ "write" \in Faults /\ UNCHANGED newFile
  /\ UNCHANGED <<swapFrame, spoiled, atom, bak>>

\* and writes it.  An error is returned, unless it comes from writing a key: the
\* ierr of the enclosing scope stays nil, the loop ends and only the suffix
\* follows, which gives a complete file if it was the first key.
ExportWrite ==
  /\ pc = "exporting"
  /\ \/ newFile' = Whole(Exported) /\ pc' = "rename" /\ UNCHANGED <<failed, spoiled>>
     \/ Error("write") /\ UNCHANGED <<newFile, spoiled>>
     \/ /\ "key" \in Faults /\ Exported # Nothing
        /\ newFile' \in {Torn, Whole(Nothing)} /\ spoiled' = "key"
        /\ pc' = "rename" /\ UNCHANGED failed
  /\ UNCHANGED <<swapFrame, atom, bak>>

\* (mutant) the old .bak is kept and the atom file is removed
RenameDrops == atom' = None /\ UNCHANGED bak

\* os.Rename of the atom file to .bak
RenameOld == bak' = atom /\ atom' = None

RenameAtom ==
  /\ pc = "rename"
  /\ \/ RenameOld /\ pc' = "install" /\ UNCHANGED failed
     \/ Error("rename") /\ UNCHANGED <<atom, bak>>
  /\ UNCHANGED <<swapFrame, spoiled, newFile>>

RenameNew ==
  /\ pc = "install"
  /\ \/ atom' = newFile /\ newFile' = None /\ pc' = "clean" /\ UNCHANGED failed
     \/ Error("rename") /\ UNCHANGED <<atom, newFile>>
  /\ UNCHANGED <<swapFrame, spoiled, bak>>

\* the temporary databases are removed
Clean ==
  /\ pc = "clean" /\ pc' = "done"
  /\ UNCHANGED <<swapFrame, spoiled, disk, failed>>

Reset ==
  /\ pc' = "idle" /\ kind' = None /\ cacheR' = None /\ cacheW' = None
  /\ queue' = <<>> /\ tx' = None /\ dbWorker' = "none"
  /\ todo' = {} /\ hand' = Idle /\ seen' = Idle

\* the program exits after the summary
Exit ==
  /\ pc = "done" /\ Reset
  /\ UNCHANGED <<disk, dirty, aborted, doAbort, saved, before, failed, spoiled, runs, kills>>

Kill ==
  /\ pc # "idle" /\ kills < MaxKills /\ kills' = kills + 1 /\ Reset
  /\ UNCHANGED <<disk, dirty, aborted, doAbort, saved, before, failed, spoiled, runs>>

\* control+c, as handled by handleProgress
Abort ==
  /\ kind \notin {"init", "fuse", None} /\ ~doAbort /\ doAbort' = TRUE
  /\ UNCHANGED <<disk, pc, kind, caches, dirty, queue, tx, dbWorker, aborted,
                 todo, hand, seen, saved, before, failed, spoiled, runs, kills>>

\* no run is active
Rest == pc = "idle" /\ UNCHANGED vars

Main == InitStat \/ InitCreate \/ InitWrite \/ Import \/ TestWrite \/ FuseSaves
        \/ Finish \/ SendPill \/ Join \/ Close \/ ExportOpen \/ ExportWrite \/ RenameAtom \/ RenameNew \/ Clean \/ Exit
Worker(w) == WorkerLoad(w) \/ WorkerKeeps(w) \/ WorkerSaves(w)
DbWorker == DbPut \/ DbError \/ DbEnd

Next == Begin \/ BeginInit \/ Main \/ DbWorker \/ (\E w \in Workers : Worker(w)) \/ Kill \/ Abort
        \/ Rest

Fairness == /\ WF_vars(Main) /\ WF_vars(DbWorker)
            /\ \A w \in Workers : WF_vars(Worker(w))

Spec == Init /\ [][Next]_vars /\ Fairness

-----------------------------------------------------------------------------
(* Properties                                                              *)

TypeOK ==
  /\ \A f \in {atom, bak, newFile} : f \in File \cup {None}
  /\ pc \in {"idle", "init", "create", "write", "import", "test", "work", "pill", "join", "close", "export",
            "exporting", "rename", "install", "clean", "done"}
  /\ kind \in Kind \cup {None} /\ (kind = None <=> pc = "idle")
  /\ \A c \in {cacheR, cacheW, tx} : c \in Data \cup {None}
  /\ queue \in Seq({None} \cup Dirs \X Version) /\ Len(queue) <= QueueCap
  /\ dbWorker \in {"none", "loop", "done"}
  /\ {dirty, aborted, doAbort, failed} \subseteq BOOLEAN
  /\ spoiled \in {"init", "key", None}
  /\ todo \subseteq Dirs /\ hand \in [Workers -> Dirs \cup {None}]
  /\ seen \in [Workers -> Version \cup {None}]
  /\ saved \in Data /\ before \in Data
  /\ runs \in 0..MaxRuns /\ kills \in 0..MaxKills

\* The store keeps the promise of Transaction: the saves of a run reach the atom
\* file all at once or not at all, wherever the process is killed, and only a
\* run that reported an error installs less than it saved.  Not promised once the
\* old index is given up with init --force, or an error of exportCache is lost.
Store == INSTANCE Transaction WITH installed <- Installed, run <- kind
Transactional == Store!Init /\ [][Store!Next \/ spoiled' # None]_(Store!vars)

\* The atom file is never half written, so that the next run can import it, except in an
\* init, and after the error of a key was lost (see spoiled).
AtomReadable == atom # None /\ spoiled = None => atom.whole

\* While the atom file is missing, between the two renames or after a run was
\* killed or failed there, the complete new index is in .new and .bak holds one.
NothingLostBySwap ==
  atom = None /\ spoiled = None => /\ newFile # None /\ newFile.whole
                                   /\ bak # None /\ bak.whole

\* What a worker loads is what was installed when the run began, also while
\* storeDbWorker commits the saves of the other workers to the same database.
LoadSeesInstalled == \A w \in Workers : hand[w] # None => seen[w] = before[hand[w]]

\* A run that was not aborted and reports no error has installed everything that
\* was saved: nothing is left in the queue or in a transaction.
Expected == [d \in Dirs |-> IF saved[d] # None THEN saved[d]
                            ELSE IF kind = "refresh" /\ dirty THEN None ELSE before[d]]
SavesInstalled ==
  pc = "done" /\ ~failed /\ ~aborted /\ spoiled # "key" => Installed = Expected

\* Every run ends by itself, unless storeDbWorker has failed.
RunEnds == (pc # "idle") ~> (pc = "idle" \/ (failed /\ dbWorker = "done"))

\* An atom file that cannot be imported is not built upon: .bak still holds the
\* index that was installed before, and no later run replaces it.
TornKeepsBackup ==
  spoiled = "key" /\ atom # None /\ ~atom.whole => bak # None /\ bak.whole

\* runCmd prints "No changes were made" for an aborted run on an atom index.
NoChangesWereMade == pc = "done" /\ doAbort /\ kind # "check" => Installed = before
=============================================================================
