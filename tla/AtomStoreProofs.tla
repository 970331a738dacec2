--------------------------- MODULE AtomStoreProofs ---------------------------
(***************************************************************************)
(* Theorems about AtomStore, for any directories and workers, any capacity *)
(* of the queue, any faults, runs and kills, and that it implements        *)
(* Transaction.  The inductive invariant has four parts: the types, what   *)
(* is true at each pc (PcInv), what is on the disk (DiskInv) and where the *)
(* saves of a run are on their way (FlowInv).                              *)
(***************************************************************************)
EXTENDS AtomStore, SequenceTheorems, TLAPS

\* before Open has made a database and the goroutine
Early == {"idle", "init", "create", "write", "import"}
\* with a database, before the swap
Opened == {"test", "work", "pill", "join", "close", "export", "exporting", "rename"}

PcInv ==
  /\ kind = "init" => pc \in {"init", "create", "write", "done"}
  /\ pc \in {"init", "create", "write"} => kind \in {"init", "fuse"}
  /\ pc \in {"test", "pill", "join", "export", "exporting", "rename", "install"} => kind # "check"
  /\ pc \in {"export", "exporting", "rename", "install"} => dirty /\ ~aborted
  /\ kind # None /\ pc \in Early \cup {"test"} => saved = Nothing
  /\ ~dirty => saved = Nothing
  /\ kind \in {"check", "init"} => saved = Nothing
  /\ pc \in Early \cup {"test"} \/ kind = "check" => queue = <<>> /\ tx = None /\ dbWorker = "none"
  /\ \A w \in Workers : hand[w] # None => pc = "work"
  /\ dbWorker = "loop" => pc \in {"work", "pill", "join"}
  /\ dbWorker = "done" /\ ~failed => pc \notin {"work", "pill"}
  /\ pc \in Early => cacheR = None
  /\ pc \in Opened \cup {"install", "clean"} => cacheR # None
  /\ cacheW # None => kind = "refresh" /\ pc \notin Early \cup {"test"}
  /\ pc \in (Opened \ {"test"}) \cup {"install", "clean"} /\ kind = "refresh" => cacheW # None

DiskInv ==
  /\ AtomReadable /\ NothingLostBySwap /\ TornKeepsBackup
  /\ pc = "create" => atom = None
  /\ pc = "write" => atom = Torn /\ spoiled = "init"
  /\ pc \in Opened \cup {"import"} => atom # None /\ atom.data = before
  /\ pc = "import" /\ atom.whole => spoiled = None
  /\ pc \in Opened => atom.whole
  /\ pc \in Opened \ {"rename"} => spoiled = None
  /\ pc = "install" => atom = None /\ bak # None /\ bak.whole /\ bak.data = before
  /\ pc \in {"rename", "install"} =>
       newFile # None /\ spoiled # "init" /\ (spoiled = None => newFile = Whole(Exported))

\* what the target database says of d before anything was saved for it
Base(d) == IF kind = "refresh" THEN None ELSE before[d]

\* Every directory is handed out once, and saved after that.
HandInv ==
  /\ \A d \in todo : saved[d] = None
  /\ \A w \in Workers : hand[w] # None =>
       /\ hand[w] \notin todo /\ saved[hand[w]] = None /\ seen[w] = before[hand[w]]
       /\ \A o \in Workers : hand[o] = hand[w] => o = w

\* The queue and the transaction hold saves of this run, and the pill is the last item.
QueueInv ==
  /\ \A i \in 1..Len(queue) :
       /\ queue[i] = None => i = Len(queue) /\ pc \notin {"work", "pill"}
       /\ queue[i] # None => saved[queue[i][1]] = queue[i][2]
  /\ tx # None => \A d \in Dirs : tx[d] \in {None, saved[d]}

\* whether the save of d is in the database, in the transaction or in the queue
OnItsWay(d) ==
  \/ Target[d] = saved[d]
  \/ tx # None /\ tx[d] = saved[d]
  \/ \E i \in 1..Len(queue) : queue[i] = <<d, saved[d]>>

\* The database has saves of this run and else what it had at first; none is lost
\* without an error.
TargetInv ==
  /\ kind = "refresh" /\ cacheR # None => cacheR = before
  /\ Target # None =>
       \A d \in Dirs : Target[d] = Base(d) \/ (saved[d] # None /\ Target[d] = saved[d])
  /\ ~failed /\ Target # None => \A d \in Dirs : saved[d] # None => OnItsWay(d)

EndInv ==
  /\ dbWorker = "done" /\ ~failed => queue = <<>> /\ tx = None
  /\ pc \in {"close", "export", "exporting", "rename", "install", "clean"} /\ ~failed =>
       queue = <<>> /\ tx = None
  /\ pc \in {"clean", "done"} /\ ~failed /\ ~aborted /\ spoiled # "key" => Installed = Expected

FlowInv == HandInv /\ QueueInv /\ TargetInv /\ EndInv

IInv == TypeOK /\ PcInv /\ DiskInv /\ FlowInv

-----------------------------------------------------------------------------
(* Lemmas about the operators                                              *)

\* None is no data, no file, no queue item and no version.
LEMMA Names ==
  /\ None \notin Data /\ None \notin File /\ None \notin Dirs /\ None \notin Version
  /\ None \notin Kind /\ None \notin {"init", "key"} /\ Nothing \in Data /\ Torn \in File
  /\ \A data \in Data : Whole(data) \in File
  /\ \A d \in Dirs : Nothing[d] = None
  /\ \A d \in Dirs, v \in Version : <<d, v>> # None
  /\ MaxRuns \in Nat /\ MaxKills \in Nat /\ QueueCap \in Nat
BY AtomAssumption DEF Data, File, Nothing, Torn, Whole, Kind

\* A transaction that is put to, or committed, is data again.
LEMMA CommittedType ==
  ASSUME Target \in Data, tx \in Data \cup {None}
  PROVE  Committed \in Data
BY DEF Committed, Data

LEMMA PutType ==
  ASSUME NEW t \in Data, NEW d \in Dirs, NEW v \in Version
  PROVE  [t EXCEPT ![d] = v] \in Data
BY DEF Data

\* The items of a queue.
LEMMA QueueOps ==
  ASSUME NEW S, NEW q \in Seq(S), NEW e \in S
  PROVE  /\ Append(q, e) \in Seq(S) /\ Len(Append(q, e)) = Len(q) + 1
         /\ Append(q, e)[Len(q) + 1] = e
         /\ \A i \in 1..Len(q) : Append(q, e)[i] = q[i]
         /\ q # <<>> => /\ Tail(q) \in Seq(S) /\ Len(Tail(q)) = Len(q) - 1 /\ q[1] \in S
                        /\ \A i \in 1..Len(q) - 1 : Tail(q)[i] = q[i + 1]
BY AppendProperties, HeadTailProperties

-----------------------------------------------------------------------------
(* Types                                                                   *)

\* What storeDbWorker receives is a save or the pill.
LEMMA TailType ==
  ASSUME TypeOK, queue # <<>>
  PROVE  /\ Tail(queue) \in Seq({None} \cup Dirs \X Version)
         /\ Len(Tail(queue)) <= QueueCap /\ Len(Tail(queue)) = Len(queue) - 1
         /\ queue[1] # None => queue[1] \in Dirs \X Version
<1> DEFINE Item == {None} \cup Dirs \X Version
<1>1. queue \in Seq(Item) /\ Len(queue) <= QueueCap /\ QueueCap \in Nat
  BY Names DEF TypeOK
<1>2. Tail(queue) \in Seq(Item) /\ Len(Tail(queue)) = Len(queue) - 1 /\ queue[1] \in Item
  BY <1>1, HeadTailProperties
<1>3. Len(queue) \in Nat
  BY <1>1
<1> QED
  BY <1>1, <1>2, <1>3

\* While storeDbWorker runs its database is open.
LEMMA TargetType ==
  ASSUME TypeOK, PcInv, dbWorker = "loop"
  PROVE  Target \in Data
BY DEF TypeOK, PcInv, Target, Opened

LEMMA InitType == Init => TypeOK
<1> SUFFICES ASSUME Init
             PROVE  TypeOK
  OBVIOUS
<1> USE Names DEF Init
<1>1. atom \in File \cup {None}
  <2>1. [Dirs -> {0, None}] \subseteq Data
    BY DEF Data, Version
  <2> QED
    BY <2>1
<1>2. hand \in [Workers -> Dirs \cup {None}] /\ seen \in [Workers -> Version \cup {None}]
  BY DEF Idle
<1>3. queue \in Seq({None} \cup Dirs \X Version) /\ Len(queue) = 0
  OBVIOUS
<1>4. spoiled \in {"init", "key", None}
  OBVIOUS
<1>5. saved \in Data /\ before \in Data /\ kind \notin Kind
  OBVIOUS
<1>6. Len(queue) <= QueueCap /\ runs \in 0..MaxRuns /\ kills \in 0..MaxKills
  BY <1>3
<1> QED
  BY <1>1, <1>2, <1>3, <1>4, <1>5, <1>6 DEF TypeOK

\* One step per action; the frame definitions are expanded where they are used.
LEMMA StepType ==
  ASSUME TypeOK, PcInv, DiskInv, [Next]_vars
  PROVE  TypeOK'
<1> USE Names DEF TypeOK
<1>1. CASE Begin
  <2>1. Installed \in Data
    BY DEF Installed, File
  <2>2. pc' # "idle" /\ kind' \in Kind /\ pc' \in {"import", "init"}
    BY <1>1 DEF Begin, BeginAs, Kind
  <2>3. runs' \in 0..MaxRuns /\ todo' \subseteq Dirs
    BY <1>1 DEF Begin, BeginAs
  <2>4. saved' \in Data /\ before' \in Data /\ spoiled' \in {"init", "key", None}
    BY <1>1, <2>1 DEF Begin, BeginAs
  <2>5. ~failed' /\ ~dirty' /\ ~doAbort' /\ ~aborted'
    BY <1>1 DEF Begin, BeginAs
  <2>6. UNCHANGED <<atom, bak, newFile, cacheR, cacheW, queue, tx, dbWorker, hand, seen, kills>>
    BY <1>1 DEF Begin, BeginAs, disk, caches
  <2> QED
    BY <1>1, <2>2, <2>3, <2>4, <2>5, <2>6 DEF Begin, BeginAs
<1>2. CASE BeginInit
  <2>1. Installed \in Data
    BY DEF Installed, File
  <2>2. pc' # "idle" /\ kind' \in Kind /\ pc' \in {"import", "init"}
    BY <1>2 DEF BeginInit, BeginAs, Kind
  <2>3. runs' \in 0..MaxRuns /\ todo' \subseteq Dirs
    BY <1>2 DEF BeginInit, BeginAs
  <2>4. saved' \in Data /\ before' \in Data /\ spoiled' \in {"init", "key", None}
    BY <1>2, <2>1 DEF BeginInit, BeginAs
  <2>5. ~failed' /\ ~dirty' /\ ~doAbort' /\ ~aborted'
    BY <1>2 DEF BeginInit, BeginAs
  <2>6. UNCHANGED <<atom, bak, newFile, cacheR, cacheW, queue, tx, dbWorker, hand, seen, kills>>
    BY <1>2 DEF BeginInit, BeginAs, disk, caches
  <2> QED
    BY <1>2, <2>2, <2>3, <2>4, <2>5, <2>6 DEF BeginInit, BeginAs
<1>3. CASE InitStat
  BY <1>3 DEF InitStat, Error, storeFrame, caches, callers
<1>4. CASE InitCreate
  BY <1>4 DEF InitCreate, Error, storeFrame, caches, callers
<1>5. CASE InitWrite
  BY <1>5 DEF InitWrite, Error, caches, callers
<1>6. CASE Import
  <2>1. atom # None
    BY <1>6 DEF Import, DiskInv
  <2>2. cacheR' \in Data \cup {None}
    BY <1>6, <2>1 DEF Import, Error, File
  <2> QED
    BY <1>6, <2>2 DEF Import, Error, storeFrame, disk, callers
<1>7. CASE TestWrite
  BY <1>7 DEF TestWrite, Error, storeFrame, callers
<1>8. CASE FuseSaves
  <2>1. PICK d \in todo :
          \/ Len(queue) < QueueCap /\ queue' = Append(queue, <<d, runs>>)
             /\ saved' = [saved EXCEPT ![d] = runs] /\ dirty' = TRUE /\ UNCHANGED failed
          \/ failed' = TRUE /\ UNCHANGED <<queue, saved, dirty>>
    BY <1>8 DEF FuseSaves
  <2>2. d \in Dirs /\ runs \in Version
    BY DEF Version
  <2>3. queue' \in Seq({None} \cup Dirs \X Version) /\ Len(queue') <= QueueCap
    <3>1. CASE queue' = Append(queue, <<d, runs>>) /\ Len(queue) < QueueCap
      BY <3>1, <2>2, AppendProperties, <<d, runs>> \in Dirs \X Version
    <3>2. CASE queue' = queue
      BY <3>2
    <3> QED
      BY <2>1, <3>1, <3>2
  <2>4. saved' \in Data /\ dirty' \in BOOLEAN /\ failed' \in BOOLEAN
    <3>1. [saved EXCEPT ![d] = runs] \in Data
      BY <2>2, PutType
    <3> QED
      BY <2>1, <3>1
  <2>5. todo' \subseteq Dirs
    BY <1>8 DEF FuseSaves
  <2> QED
    BY <1>8, <2>3, <2>4, <2>5 DEF FuseSaves, disk, caches
<1>9. CASE Finish
  BY <1>9 DEF Finish, finishFrame, disk, caches, callers
<1>10. CASE SendPill
  BY <1>10 DEF SendPill, finishFrame, disk, caches, callers
<1>11. CASE Join
  BY <1>11 DEF Join, finishFrame, disk, caches, callers
<1>12. CASE Close
  BY <1>12 DEF Close, Error, finishFrame, disk, caches, callers
<1>13. CASE ExportOpen
  BY <1>13 DEF ExportOpen, Error, swapFrame, finishFrame, caches, callers
<1>14. CASE ExportWrite
  <2>1. Exported \in Data
    BY <1>14 DEF ExportWrite, PcInv, Exported, Opened
  <2>2. newFile' \in File \cup {None}
    BY <1>14, <2>1 DEF ExportWrite, Error
  <2>3. pc' \in {"rename", "done"} /\ pc # "idle" /\ spoiled' \in {"init", "key", None}
        /\ failed' \in BOOLEAN
    BY <1>14 DEF ExportWrite, Error
  <2> QED
    BY <1>14, <2>2, <2>3 DEF ExportWrite, swapFrame, finishFrame, caches, callers
<1>15. CASE RenameAtom
  BY <1>15 DEF RenameAtom, RenameOld, Error, swapFrame, finishFrame, caches, callers
<1>16. CASE RenameNew
  BY <1>16 DEF RenameNew, Error, swapFrame, finishFrame, caches, callers
<1>17. CASE Clean
  BY <1>17 DEF Clean, swapFrame, finishFrame, disk, caches, callers
<1>18. CASE Exit
  BY <1>18 DEF Exit, Reset, Idle, disk
<1>19. CASE Kill
  BY <1>19 DEF Kill, Reset, Idle, disk
<1>20. CASE Abort
  BY <1>20 DEF Abort, disk, caches
<1>21. ASSUME NEW w \in Workers, WorkerLoad(w)
       PROVE  TypeOK'
  <2>1. PICK d \in todo : todo' = todo \ {d} /\ hand' = [hand EXCEPT ![w] = d]
                         /\ seen' = [seen EXCEPT ![w] = LoadFrom(d)]
    BY <1>21 DEF WorkerLoad
  <2>2. cacheR \in Data
    BY <1>21 DEF WorkerLoad, PcInv, Opened
  <2>3. LoadFrom(d) \in Version \cup {None}
    BY <2>2 DEF LoadFrom, Data
  <2>4. /\ todo' \subseteq Dirs /\ hand' \in [Workers -> Dirs \cup {None}]
        /\ seen' \in [Workers -> Version \cup {None}]
    BY <2>1, <2>3
  <2> QED
    BY <1>21, <2>4 DEF WorkerLoad, disk, caches
<1>22. ASSUME NEW w \in Workers, WorkerKeeps(w)
       PROVE  TypeOK'
  BY <1>22 DEF WorkerKeeps, disk, caches
<1>23. ASSUME NEW w \in Workers, WorkerSaves(w)
       PROVE  TypeOK'
  <2>1. PICK v \in Version : /\ queue' = Append(queue, <<hand[w], v>>)
                            /\ saved' = [saved EXCEPT ![hand[w]] = v]
    BY <1>23 DEF WorkerSaves, Version
  <2>2. hand[w] \in Dirs /\ Len(queue) < QueueCap
    BY <1>23 DEF WorkerSaves
  <2>3. queue' \in Seq({None} \cup Dirs \X Version) /\ Len(queue') <= QueueCap
    BY <2>1, <2>2, AppendProperties, <<hand[w], v>> \in Dirs \X Version
  <2>4. saved' \in Data
    BY <2>1, <2>2, PutType
  <2>5. hand' \in [Workers -> Dirs \cup {None}] /\ seen' \in [Workers -> Version \cup {None}]
    BY <1>23 DEF WorkerSaves
  <2> QED
    BY <1>23, <2>3, <2>4, <2>5 DEF WorkerSaves, disk, caches
<1>24. CASE DbPut
  <2>1. pc # "idle" /\ queue # <<>>
    BY <1>24 DEF DbPut, PcInv
  <2>2. queue' \in Seq({None} \cup Dirs \X Version) /\ Len(queue') <= QueueCap
    BY <1>24, TailType DEF DbPut
  <2>3. queue[1][1] \in Dirs /\ queue[1][2] \in Version
    BY <1>24, TailType DEF DbPut
  <2>4. Target \in Data /\ Committed \in Data
    BY <1>24, TargetType, CommittedType DEF DbPut
  <2>5. tx' \in Data
    BY <1>24, <2>3, PutType DEF DbPut
  <2>6. cacheR' \in Data \cup {None} /\ cacheW' \in Data \cup {None}
    BY <1>24, <2>4 DEF DbPut, SetTarget, caches
  <2> QED
    BY <1>24, <2>2, <2>5, <2>6 DEF DbPut, dbFrame, disk, callers
<1>25. CASE DbError
  <2>1. queue' \in Seq({None} \cup Dirs \X Version) /\ Len(queue') <= QueueCap
    BY <1>25, TailType DEF DbError
  <2>2. Target \in Data /\ Committed \in Data
    BY <1>25, TargetType, CommittedType DEF DbError
  <2>3. tx' \in Data \cup {None}
    BY <1>25 DEF DbError
  <2>4. cacheR' \in Data \cup {None} /\ cacheW' \in Data \cup {None}
    BY <1>25, <2>2 DEF DbError, SetTarget, caches
  <2> QED
    BY <1>25, <2>1, <2>3, <2>4 DEF DbError, dbFrame, disk, callers
<1>26. CASE DbEnd
  <2>1. queue' \in Seq({None} \cup Dirs \X Version) /\ Len(queue') <= QueueCap
    BY <1>26, TailType DEF DbEnd
  <2>2. Target \in Data /\ Committed \in Data
    BY <1>26, TargetType, CommittedType DEF DbEnd
  <2>3. tx' = None /\ dbWorker' = "done" /\ failed' \in BOOLEAN
    BY <1>26 DEF DbEnd
  <2>4. cacheR' \in Data \cup {None} /\ cacheW' \in Data \cup {None}
    BY <1>26, <2>2 DEF DbEnd, SetTarget, caches
  <2> QED
    BY <1>26, <2>1, <2>3, <2>4 DEF DbEnd, dbFrame, disk, callers
<1>27. CASE Rest \/ UNCHANGED vars
  BY <1>27 DEF Rest, vars, disk, caches, callers
<1> QED
  BY <1>1, <1>2, <1>3, <1>4, <1>5, <1>6, <1>7, <1>8, <1>9, <1>10, <1>11, <1>12, <1>13, <1>14,
     <1>15, <1>16, <1>17, <1>18, <1>19, <1>20, <1>21, <1>22, <1>23, <1>24, <1>25, <1>26, <1>27
  DEF Next, Main, Worker, DbWorker

-----------------------------------------------------------------------------
(* Where a run is                                                          *)

LEMMA InitPc == Init => PcInv
BY Names DEF Init, PcInv, Idle, Early, Opened, Kind

\* The goroutine ends without an error only by the pill, which is sent after the
\* last save.
LEMMA StepPc ==
  ASSUME TypeOK, PcInv, DiskInv, QueueInv, [Next]_vars
  PROVE  PcInv'
<1> USE Names DEF TypeOK, PcInv, Early, Opened, Kind
<1>1. CASE Begin
  BY <1>1 DEF Begin, BeginAs, disk, caches
<1>2. CASE BeginInit
  BY <1>2 DEF BeginInit, BeginAs, disk, caches
<1>3. CASE InitStat
  BY <1>3 DEF InitStat, Error, storeFrame, caches, callers
<1>4. CASE InitCreate
  BY <1>4 DEF InitCreate, Error, storeFrame, caches, callers
<1>5. CASE InitWrite
  BY <1>5 DEF InitWrite, Error, caches, callers
<1>6. CASE Import
  <2>1. pc' # "done" => cacheR' \in Data
    BY <1>6 DEF Import, Error, DiskInv, File
  <2> QED
    BY <1>6, <2>1 DEF Import, Error, storeFrame, disk, callers
<1>7. CASE TestWrite
  BY <1>7 DEF TestWrite, Error, storeFrame, callers
<1>8. CASE FuseSaves
  BY <1>8 DEF FuseSaves, disk, caches
<1>9. CASE Finish
  BY <1>9 DEF Finish, Idle, finishFrame, disk, caches, callers
<1>10. CASE SendPill
  BY <1>10 DEF SendPill, finishFrame, disk, caches, callers
<1>11. CASE Join
  BY <1>11 DEF Join, finishFrame, disk, caches, callers
<1>12. CASE Close
  BY <1>12 DEF Close, Error, finishFrame, disk, caches, callers
<1>13. CASE ExportOpen
  BY <1>13 DEF ExportOpen, Error, swapFrame, finishFrame, caches, callers
<1>14. CASE ExportWrite
  BY <1>14 DEF ExportWrite, Error, swapFrame, finishFrame, caches, callers
<1>15. CASE RenameAtom
  BY <1>15 DEF RenameAtom, RenameOld, Error, swapFrame, finishFrame, caches, callers
<1>16. CASE RenameNew
  BY <1>16 DEF RenameNew, Error, swapFrame, finishFrame, caches, callers
<1>17. CASE Clean
  BY <1>17 DEF Clean, swapFrame, finishFrame, disk, caches, callers
<1>18. CASE Exit
  BY <1>18 DEF Exit, Reset, Idle, disk
<1>19. CASE Kill
  BY <1>19 DEF Kill, Reset, Idle, disk
<1>20. CASE Abort
  BY <1>20 DEF Abort, disk, caches
<1>21. ASSUME NEW w \in Workers, WorkerLoad(w)
       PROVE  PcInv'
  BY <1>21 DEF WorkerLoad, disk, caches
<1>22. ASSUME NEW w \in Workers, WorkerKeeps(w)
       PROVE  PcInv'
  BY <1>22 DEF WorkerKeeps, disk, caches
<1>23. ASSUME NEW w \in Workers, WorkerSaves(w)
       PROVE  PcInv'
  BY <1>23 DEF WorkerSaves, disk, caches
<1>24. CASE DbPut
  <2>1. Target \in Data /\ Committed \in Data
    BY <1>24, TargetType, CommittedType DEF DbPut
  <2>2. (cacheR # None => cacheR' # None) /\ (cacheW # None <=> cacheW' # None)
    BY <1>24, <2>1 DEF DbPut, SetTarget, Target, caches
  <2> QED
    BY <1>24, <2>2 DEF DbPut, dbFrame, disk, callers
<1>25. CASE DbError
  <2>1. Target \in Data /\ Committed \in Data
    BY <1>25, TargetType, CommittedType DEF DbError
  <2>2. (cacheR # None => cacheR' # None) /\ (cacheW # None <=> cacheW' # None)
    BY <1>25, <2>1 DEF DbError, SetTarget, Target, caches
  <2> QED
    BY <1>25, <2>2 DEF DbError, dbFrame, disk, callers
<1>26. CASE DbEnd
  <2>1. Target \in Data /\ Committed \in Data
    BY <1>26, TargetType, CommittedType DEF DbEnd
  <2>2. (cacheR # None => cacheR' # None) /\ (cacheW # None <=> cacheW' # None)
    BY <1>26, <2>1 DEF DbEnd, SetTarget, Target, caches
  <2>3. pc \notin {"work", "pill"}
    <3>1. queue # <<>> /\ queue[1] = None /\ Len(queue) \in Nat
      BY <1>26 DEF DbEnd
    <3> QED
      BY <3>1 DEF QueueInv
  <2> QED
    BY <1>26, <2>2, <2>3 DEF DbEnd, dbFrame, disk, callers
<1>27. CASE Rest \/ UNCHANGED vars
  BY <1>27 DEF Rest, vars, disk, caches, callers
<1> QED
  BY <1>1, <1>2, <1>3, <1>4, <1>5, <1>6, <1>7, <1>8, <1>9, <1>10, <1>11, <1>12, <1>13, <1>14,
     <1>15, <1>16, <1>17, <1>18, <1>19, <1>20, <1>21, <1>22, <1>23, <1>24, <1>25, <1>26, <1>27
  DEF Next, Main, Worker, DbWorker

-----------------------------------------------------------------------------
(* What is on the disk                                                     *)

LEMMA InitDisk == Init => DiskInv
BY Names DEF Init, DiskInv, Opened, AtomReadable, NothingLostBySwap, TornKeepsBackup, Whole

\* The files change only in init and in the swap; what replaces the atom file there
\* is complete unless the error of a key was lost.
LEMMA StepDisk ==
  ASSUME TypeOK, PcInv, DiskInv, [Next]_vars
  PROVE  DiskInv'
<1> USE Names DEF TypeOK, DiskInv, Opened, AtomReadable, NothingLostBySwap, TornKeepsBackup
<1>1. CASE Begin
  <2>1. pc' = "import" /\ before' = atom.data /\ UNCHANGED <<atom, bak, newFile>>
    BY <1>1 DEF Begin, BeginAs, Installed, disk
  <2>2. spoiled' = IF atom.whole THEN None ELSE spoiled
    BY <1>1 DEF Begin
  <2>3. atom # None
    BY <1>1 DEF Begin
  <2> QED
    BY <2>1, <2>2, <2>3
<1>2. CASE BeginInit
  BY <1>2 DEF BeginInit, BeginAs, disk, caches
<1>3. CASE InitStat
  BY <1>3 DEF InitStat, Error, storeFrame, caches, callers
<1>4. CASE InitCreate
  BY <1>4 DEF InitCreate, Error, storeFrame, caches, callers
<1>5. CASE InitWrite
  <2>1. Whole(Nothing) # None /\ Whole(Nothing).whole /\ Whole(Nothing).data = Nothing
    BY DEF Whole
  <2> QED
    BY <1>5, <2>1 DEF InitWrite, Error, caches, callers
<1>6. CASE Import
  BY <1>6 DEF Import, Error, storeFrame, disk, callers
<1>7. CASE TestWrite
  BY <1>7 DEF TestWrite, Error, storeFrame, callers
<1>8. CASE FuseSaves
  BY <1>8 DEF FuseSaves, disk, caches
<1>9. CASE Finish
  BY <1>9 DEF Finish, finishFrame, disk, caches, callers
<1>10. CASE SendPill
  BY <1>10 DEF SendPill, finishFrame, disk, caches, callers
<1>11. CASE Join
  BY <1>11 DEF Join, finishFrame, disk, caches, callers
<1>12. CASE Close
  BY <1>12 DEF Close, Error, finishFrame, disk, caches, callers
<1>13. CASE ExportOpen
  BY <1>13 DEF ExportOpen, Error, swapFrame, finishFrame, caches, callers
<1>14. CASE ExportWrite
  <2>1. Exported \in Data
    BY <1>14 DEF ExportWrite, PcInv, Exported
  <2>2. Whole(Exported) # None /\ Whole(Nothing) # None /\ Torn # None
    BY <2>1
  <2>3. /\ UNCHANGED <<atom, bak, before>> /\ Exported' = Exported
        /\ pc = "exporting" /\ pc' \in {"rename", "done"}
    BY <1>14 DEF ExportWrite, Error, swapFrame, finishFrame, caches, Exported
  <2>4. pc' = "rename" =>
          /\ newFile' # None /\ spoiled' # "init"
          /\ spoiled' = None => newFile' = Whole(Exported)
    BY <1>14, <2>2 DEF ExportWrite, Error
  <2>5. spoiled' \in {spoiled, "key"}
    BY <1>14 DEF ExportWrite, Error
  <2> QED
    BY <2>3, <2>4, <2>5
<1>15. CASE RenameAtom
  <2>1. UNCHANGED <<newFile, spoiled, before>> /\ Exported' = Exported /\ pc = "rename"
    BY <1>15 DEF RenameAtom, swapFrame, finishFrame, caches, Exported
  <2>2. CASE RenameOld /\ pc' = "install"
    BY <2>1, <2>2 DEF RenameOld, Whole
  <2>3. CASE pc' = "done" /\ UNCHANGED <<atom, bak>>
    BY <2>1, <2>3
  <2> QED
    BY <1>15, <2>2, <2>3 DEF RenameAtom, Error
<1>16. CASE RenameNew
  BY <1>16 DEF RenameNew, Error, swapFrame, finishFrame, caches, callers
<1>17. CASE Clean
  BY <1>17 DEF Clean, swapFrame, finishFrame, disk, caches, callers
<1>18. CASE Exit
  BY <1>18 DEF Exit, Reset, Idle, disk
<1>19. CASE Kill
  BY <1>19 DEF Kill, Reset, Idle, disk
<1>20. CASE Abort
  BY <1>20 DEF Abort, disk, caches, Exported
<1>21. ASSUME NEW w \in Workers, WorkerLoad(w)
       PROVE  DiskInv'
  BY <1>21 DEF WorkerLoad, disk, caches
<1>22. ASSUME NEW w \in Workers, WorkerKeeps(w)
       PROVE  DiskInv'
  BY <1>22 DEF WorkerKeeps, disk, caches, PcInv
<1>23. ASSUME NEW w \in Workers, WorkerSaves(w)
       PROVE  DiskInv'
  BY <1>23 DEF WorkerSaves, disk, caches, PcInv
<1>24. CASE DbPut
  <2>1. pc \in {"work", "pill", "join"}
    BY <1>24 DEF DbPut, PcInv
  <2> QED
    BY <1>24, <2>1 DEF DbPut, dbFrame, disk, callers
<1>25. CASE DbError
  <2>1. pc \in {"work", "pill", "join"}
    BY <1>25 DEF DbError, PcInv
  <2> QED
    BY <1>25, <2>1 DEF DbError, dbFrame, disk, callers
<1>26. CASE DbEnd
  <2>1. pc \in {"work", "pill", "join"}
    BY <1>26 DEF DbEnd, PcInv
  <2> QED
    BY <1>26, <2>1 DEF DbEnd, dbFrame, disk, callers
<1>27. CASE Rest \/ UNCHANGED vars
  BY <1>27 DEF Rest, vars, disk, caches, callers, Exported
<1> QED
  BY <1>1, <1>2, <1>3, <1>4, <1>5, <1>6, <1>7, <1>8, <1>9, <1>10, <1>11, <1>12, <1>13, <1>14,
     <1>15, <1>16, <1>17, <1>18, <1>19, <1>20, <1>21, <1>22, <1>23, <1>24, <1>25, <1>26, <1>27
  DEF Next, Main, Worker, DbWorker

-----------------------------------------------------------------------------
(* The way of a save                                                       *)

LEMMA InitFlow == Init => FlowInv
BY Names DEF Init, FlowInv, HandInv, QueueInv, TargetInv, EndInv, Idle, Target, Nothing

\* A worker loads what was installed because nothing was saved for the directory yet.
LEMMA StepHand ==
  ASSUME TypeOK, PcInv, DiskInv, HandInv, TargetInv, [Next]_vars
  PROVE  HandInv'
<1> USE Names DEF TypeOK, HandInv
<1>1. CASE Begin
  <2>1. \A w \in Workers : hand[w] = None
    BY <1>1 DEF Begin, BeginAs, PcInv
  <2>2. saved' = Nothing /\ hand' = hand /\ todo' \subseteq Dirs
    BY <1>1 DEF Begin, BeginAs
  <2> QED
    BY <2>1, <2>2
<1>2. CASE BeginInit
  <2>1. \A w \in Workers : hand[w] = None
    BY <1>2 DEF BeginInit, BeginAs, PcInv
  <2>2. saved' = Nothing /\ hand' = hand /\ todo' \subseteq Dirs
    BY <1>2 DEF BeginInit, BeginAs
  <2> QED
    BY <2>1, <2>2
<1>3. CASE InitStat
  BY <1>3 DEF InitStat, Error, storeFrame, caches, callers
<1>4. CASE InitCreate
  BY <1>4 DEF InitCreate, Error, storeFrame, caches, callers
<1>5. CASE InitWrite
  <2>1. \A w \in Workers : hand[w] = None
    BY <1>5 DEF InitWrite, PcInv
  <2> QED
    BY <1>5, <2>1 DEF InitWrite, callers
<1>6. CASE Import
  BY <1>6 DEF Import, Error, storeFrame, disk, callers
<1>7. CASE TestWrite
  BY <1>7 DEF TestWrite, Error, storeFrame, callers
<1>8. CASE FuseSaves
  <2>1. PICK d \in todo : /\ todo' = todo \ {d}
                          /\ saved' = [saved EXCEPT ![d] = runs] \/ saved' = saved
    BY <1>8 DEF FuseSaves
  <2>2. UNCHANGED <<hand, seen, before>>
    BY <1>8 DEF FuseSaves
  <2>3. \A o \in Dirs : o # d => saved'[o] = saved[o]
    BY <2>1 DEF Data
  <2>4. todo \subseteq Dirs /\ todo' \subseteq todo /\ d \notin todo' /\ d \in todo
    BY <2>1
  <2>5. \A o \in todo' : saved'[o] = None
    <3> TAKE o \in todo'
    <3>1. o \in Dirs /\ o # d /\ saved[o] = None
      BY <2>4
    <3> QED
      BY <3>1, <2>3
  <2>6. ASSUME NEW w \in Workers, hand[w] # None
        PROVE  hand[w] \notin todo' /\ saved'[hand[w]] = None
    <3>1. hand[w] \in Dirs /\ hand[w] # d /\ saved[hand[w]] = None /\ hand[w] \notin todo
      BY <2>4, <2>6
    <3> QED
      BY <3>1, <2>3, <2>4
  <2> QED
    BY <2>2, <2>5, <2>6
<1>9. CASE Finish
  BY <1>9 DEF Finish, finishFrame, disk, caches, callers
<1>10. CASE SendPill
  BY <1>10 DEF SendPill, finishFrame, disk, caches, callers
<1>11. CASE Join
  BY <1>11 DEF Join, finishFrame, disk, caches, callers
<1>12. CASE Close
  BY <1>12 DEF Close, Error, finishFrame, disk, caches, callers
<1>13. CASE ExportOpen
  BY <1>13 DEF ExportOpen, Error, swapFrame, finishFrame, caches, callers
<1>14. CASE ExportWrite
  BY <1>14 DEF ExportWrite, Error, swapFrame, finishFrame, caches, callers
<1>15. CASE RenameAtom
  BY <1>15 DEF RenameAtom, RenameOld, Error, swapFrame, finishFrame, caches, callers
<1>16. CASE RenameNew
  BY <1>16 DEF RenameNew, Error, swapFrame, finishFrame, caches, callers
<1>17. CASE Clean
  BY <1>17 DEF Clean, swapFrame, finishFrame, disk, caches, callers
<1>18. CASE Exit
  BY <1>18 DEF Exit, Reset, Idle, disk
<1>19. CASE Kill
  BY <1>19 DEF Kill, Reset, Idle, disk
<1>20. CASE Abort
  BY <1>20 DEF Abort, disk, caches
<1>21. ASSUME NEW w \in Workers, WorkerLoad(w)
       PROVE  HandInv'
  <2>1. PICK d \in todo : /\ todo' = todo \ {d} /\ hand' = [hand EXCEPT ![w] = d]
                          /\ seen' = [seen EXCEPT ![w] = LoadFrom(d)]
    BY <1>21 DEF WorkerLoad
  <2>2. d \in Dirs /\ saved[d] = None /\ UNCHANGED <<saved, before>>
    BY <1>21 DEF WorkerLoad
  <2>3. cacheR # None
    BY <1>21 DEF WorkerLoad, PcInv, Opened
  <2>4. LoadFrom(d) = before[d]
    BY <2>2, <2>3 DEF LoadFrom, TargetInv, Target, Base
  <2> QED
    BY <2>1, <2>2, <2>4
<1>22. ASSUME NEW w \in Workers, WorkerKeeps(w)
       PROVE  HandInv'
  BY <1>22 DEF WorkerKeeps, disk, caches
<1>23. ASSUME NEW w \in Workers, WorkerSaves(w)
       PROVE  HandInv'
  <2>1. PICK v : saved' = [saved EXCEPT ![hand[w]] = v]
    BY <1>23 DEF WorkerSaves
  <2>2. /\ hand' = [hand EXCEPT ![w] = None] /\ seen' = [seen EXCEPT ![w] = None]
        /\ hand[w] \in Dirs /\ UNCHANGED <<todo, before>>
    BY <1>23 DEF WorkerSaves
  <2>3. \A d \in Dirs : d # hand[w] => saved'[d] = saved[d]
    BY <2>1 DEF Data
  <2> QED
    BY <2>2, <2>3
<1>24. CASE DbPut
  BY <1>24 DEF DbPut, SetTarget, dbFrame, disk, caches, callers
<1>25. CASE DbError
  BY <1>25 DEF DbError, SetTarget, dbFrame, disk, caches, callers
<1>26. CASE DbEnd
  BY <1>26 DEF DbEnd, SetTarget, dbFrame, disk, caches, callers
<1>27. CASE Rest \/ UNCHANGED vars
  BY <1>27 DEF Rest, vars, disk, caches, callers
<1> QED
  BY <1>1, <1>2, <1>3, <1>4, <1>5, <1>6, <1>7, <1>8, <1>9, <1>10, <1>11, <1>12, <1>13, <1>14,
     <1>15, <1>16, <1>17, <1>18, <1>19, <1>20, <1>21, <1>22, <1>23, <1>24, <1>25, <1>26, <1>27
  DEF Next, Main, Worker, DbWorker

\* What is left of the queue when its first item is received.
LEMMA TailItems ==
  ASSUME TypeOK, queue # <<>>
  PROVE  /\ Len(Tail(queue)) = Len(queue) - 1 /\ 1 \in 1..Len(queue)
         /\ \A i \in 1..Len(Tail(queue)) :
              Tail(queue)[i] = queue[i + 1] /\ i + 1 \in 1..Len(queue)
<1>1. queue \in Seq({None} \cup Dirs \X Version)
  BY DEF TypeOK
<1>2. Len(queue) \in Nat /\ Len(queue) # 0 /\ Len(Tail(queue)) = Len(queue) - 1
  BY <1>1, HeadTailProperties
<1> QED
  BY <1>1, <1>2, HeadTailProperties

\* A save of a directory for which there was none yet.
LEMMA SaveQueued ==
  ASSUME TypeOK, QueueInv, pc = "work", UNCHANGED <<pc, tx>>,
         NEW d \in Dirs, NEW v \in Version, saved[d] = None,
         queue' = Append(queue, <<d, v>>), saved' = [saved EXCEPT ![d] = v]
  PROVE  QueueInv'
<1> DEFINE Item == {None} \cup Dirs \X Version
<1>1. queue \in Seq(Item) /\ saved \in Data /\ (tx # None => tx \in Data)
  BY DEF TypeOK
<1>2. /\ Len(queue') = Len(queue) + 1 /\ queue'[Len(queue) + 1] = <<d, v>> /\ Len(queue) \in Nat
      /\ \A i \in 1..Len(queue) : queue'[i] = queue[i] /\ queue[i] \in Item
  BY <1>1, AppendProperties
<1>3. saved'[d] = v /\ \A o \in Dirs : o # d => saved'[o] = saved[o]
  BY <1>1 DEF Data
<1>4. \A i \in 1..Len(queue) : queue[i] # None /\ queue[i][1] \in Dirs /\ queue[i][1] # d
                                /\ saved[queue[i][1]] = queue[i][2]
  BY <1>2, Names DEF QueueInv
<1>5. tx # None => \A o \in Dirs : tx[o] \in {None, saved'[o]}
  BY <1>3 DEF QueueInv
<1>6. <<d, v>> # None /\ <<d, v>>[1] = d /\ <<d, v>>[2] = v
  BY Names
<1>7. ASSUME NEW i \in 1..Len(queue')
      PROVE  queue'[i] # None /\ saved'[queue'[i][1]] = queue'[i][2]
  <2>1. CASE i \in 1..Len(queue)
    BY <2>1, <1>2, <1>3, <1>4
  <2>2. CASE i = Len(queue) + 1
    BY <2>2, <1>2, <1>3, <1>6
  <2> QED
    BY <2>1, <2>2, <1>2
<1> QED
  BY <1>5, <1>7 DEF QueueInv

LEMMA StepQueue ==
  ASSUME TypeOK, PcInv, HandInv, QueueInv, [Next]_vars
  PROVE  QueueInv'
<1> USE Names DEF TypeOK, QueueInv
<1>1. CASE Begin
  <2>1. queue' = <<>> /\ tx' = None
    BY <1>1 DEF Begin, BeginAs, PcInv, Early
  <2> QED
    BY <2>1
<1>2. CASE BeginInit
  <2>1. queue' = <<>> /\ tx' = None
    BY <1>2 DEF BeginInit, BeginAs, PcInv, Early
  <2> QED
    BY <2>1
<1>3. CASE InitStat
  BY <1>3 DEF InitStat, Error, storeFrame, caches, callers
<1>4. CASE InitCreate
  BY <1>4 DEF InitCreate, Error, storeFrame, caches, callers
<1>5. CASE InitWrite
  BY <1>5 DEF InitWrite, Error, caches, callers
<1>6. CASE Import
  BY <1>6 DEF Import, Error, storeFrame, disk, callers, PcInv, Early
<1>7. CASE TestWrite
  BY <1>7 DEF TestWrite, Error, storeFrame, callers, PcInv
<1>8. CASE FuseSaves
  <2>1. PICK d \in todo :
          \/ queue' = Append(queue, <<d, runs>>) /\ saved' = [saved EXCEPT ![d] = runs]
          \/ UNCHANGED <<queue, saved>>
    BY <1>8 DEF FuseSaves
  <2>2. d \in Dirs /\ saved[d] = None /\ pc = "work" /\ UNCHANGED <<pc, tx>>
    BY <1>8 DEF FuseSaves, HandInv
  <2>3. CASE queue' = Append(queue, <<d, runs>>) /\ saved' = [saved EXCEPT ![d] = runs]
    BY <2>2, <2>3, SaveQueued, runs \in Version DEF Version
  <2> QED
    BY <2>1, <2>2, <2>3
<1>9. CASE Finish
  BY <1>9 DEF Finish, finishFrame, disk, caches, callers
<1>10. CASE SendPill
  <2>1. queue' = Append(queue, None) /\ pc = "pill" /\ pc' = "join" /\ UNCHANGED <<tx, saved>>
    BY <1>10 DEF SendPill, finishFrame
  <2>2. /\ Len(queue') = Len(queue) + 1 /\ queue'[Len(queue) + 1] = None /\ Len(queue) \in Nat
        /\ \A i \in 1..Len(queue) : queue'[i] = queue[i]
    BY <2>1, AppendProperties
  <2> QED
    BY <2>1, <2>2
<1>11. CASE Join
  BY <1>11 DEF Join, finishFrame, disk, caches, callers
<1>12. CASE Close
  BY <1>12 DEF Close, Error, finishFrame, disk, caches, callers
<1>13. CASE ExportOpen
  BY <1>13 DEF ExportOpen, Error, swapFrame, finishFrame, caches, callers
<1>14. CASE ExportWrite
  BY <1>14 DEF ExportWrite, Error, swapFrame, finishFrame, caches, callers
<1>15. CASE RenameAtom
  BY <1>15 DEF RenameAtom, RenameOld, Error, swapFrame, finishFrame, caches, callers
<1>16. CASE RenameNew
  BY <1>16 DEF RenameNew, Error, swapFrame, finishFrame, caches, callers
<1>17. CASE Clean
  BY <1>17 DEF Clean, swapFrame, finishFrame, disk, caches, callers
<1>18. CASE Exit
  BY <1>18 DEF Exit, Reset, Idle, disk
<1>19. CASE Kill
  BY <1>19 DEF Kill, Reset, Idle, disk
<1>20. CASE Abort
  BY <1>20 DEF Abort, disk, caches
<1>21. ASSUME NEW w \in Workers, WorkerLoad(w)
       PROVE  QueueInv'
  BY <1>21 DEF WorkerLoad, disk, caches
<1>22. ASSUME NEW w \in Workers, WorkerKeeps(w)
       PROVE  QueueInv'
  BY <1>22 DEF WorkerKeeps, disk, caches
<1>23. ASSUME NEW w \in Workers, WorkerSaves(w)
       PROVE  QueueInv'
  <2>1. PICK v \in Version : /\ queue' = Append(queue, <<hand[w], v>>)
                            /\ saved' = [saved EXCEPT ![hand[w]] = v]
    BY <1>23 DEF WorkerSaves, Version
  <2>2. hand[w] \in Dirs /\ saved[hand[w]] = None /\ pc = "work" /\ UNCHANGED <<pc, tx>>
    BY <1>23 DEF WorkerSaves, HandInv, PcInv
  <2> QED
    BY <2>1, <2>2, SaveQueued
<1>24. CASE DbPut
  <2>1. queue # <<>> /\ queue[1] # None /\ queue' = Tail(queue) /\ UNCHANGED <<pc, saved>>
    BY <1>24 DEF DbPut, dbFrame
  <2>2. /\ \A i \in 1..Len(queue') : queue'[i] = queue[i + 1] /\ i + 1 \in 1..Len(queue)
        /\ Len(queue') = Len(queue) - 1 /\ 1 \in 1..Len(queue)
    BY <2>1, TailItems
  <2>3. queue[1][1] \in Dirs /\ saved[queue[1][1]] = queue[1][2]
    BY <2>1, <2>2, TailType
  <2>4. \A d \in Dirs : tx'[d] \in {None, saved[d]}
    <3>1. \/ tx # None /\ tx' = [tx EXCEPT ![queue[1][1]] = queue[1][2]]
          \/ tx' = [Nothing EXCEPT ![queue[1][1]] = queue[1][2]]
      BY <1>24 DEF DbPut
    <3> QED
      BY <3>1, <2>3 DEF Data
  <2>5. \A i \in 1..Len(queue') :
          /\ queue'[i] = None => i = Len(queue') /\ pc' \notin {"work", "pill"}
          /\ queue'[i] # None => saved'[queue'[i][1]] = queue'[i][2]
    <3> TAKE i \in 1..Len(queue')
    <3>1. queue'[i] = queue[i + 1] /\ i + 1 \in 1..Len(queue) /\ Len(queue') = Len(queue) - 1
      BY <2>2
    <3>2. Len(queue) \in Nat
      BY <2>1
    <3>3. /\ queue[i + 1] = None => i + 1 = Len(queue) /\ pc \notin {"work", "pill"}
          /\ queue[i + 1] # None => saved[queue[i + 1][1]] = queue[i + 1][2]
      BY <3>1
    <3>4. pc' = pc /\ saved' = saved
      BY <2>1
    <3> HIDE DEF QueueInv, TypeOK
    <3> QED
      BY <3>1, <3>2, <3>3, <3>4
  <2> QED
    BY <2>1, <2>4, <2>5
<1>25. CASE DbError
  <2>1. queue # <<>> /\ queue' = Tail(queue) /\ UNCHANGED <<pc, saved>>
        /\ tx' \in {None, tx, Nothing}
    BY <1>25 DEF DbError, dbFrame
  <2>2. /\ \A i \in 1..Len(queue') : queue'[i] = queue[i + 1] /\ i + 1 \in 1..Len(queue)
        /\ Len(queue') = Len(queue) - 1
    BY <2>1, TailItems
  <2> QED
    BY <2>1, <2>2
<1>26. CASE DbEnd
  <2>1. queue # <<>> /\ queue' = Tail(queue) /\ UNCHANGED <<pc, saved>>
        /\ tx' \in {None, tx, Nothing}
    BY <1>26 DEF DbEnd, dbFrame
  <2>2. /\ \A i \in 1..Len(queue') : queue'[i] = queue[i + 1] /\ i + 1 \in 1..Len(queue)
        /\ Len(queue') = Len(queue) - 1
    BY <2>1, TailItems
  <2> QED
    BY <2>1, <2>2
<1>27. CASE Rest \/ UNCHANGED vars
  BY <1>27 DEF Rest, vars, disk, caches, callers
<1> QED
  BY <1>1, <1>2, <1>3, <1>4, <1>5, <1>6, <1>7, <1>8, <1>9, <1>10, <1>11, <1>12, <1>13, <1>14,
     <1>15, <1>16, <1>17, <1>18, <1>19, <1>20, <1>21, <1>22, <1>23, <1>24, <1>25, <1>26, <1>27
  DEF Next, Main, Worker, DbWorker

\* No database is open.
LEMMA NoTarget ==
  ASSUME cacheR' = None, cacheW' = None
  PROVE  TargetInv'
BY DEF TargetInv, Target

\* Nothing that TargetInv speaks of changes, or an error is reported.
LEMMA SameTarget ==
  ASSUME TargetInv, UNCHANGED <<kind, cacheR, cacheW, before, saved, tx, queue>>,
         failed' = failed \/ failed' = TRUE
  PROVE  TargetInv'
<1>1. Target' = Target /\ \A d \in Dirs : Base(d)' = Base(d) /\ (OnItsWay(d) <=> OnItsWay(d)')
  BY DEF Target, Base, OnItsWay
<1> QED
  BY <1>1 DEF TargetInv

\* A save of a directory for which there was none yet is on its way in the queue.
LEMMA SaveSent ==
  ASSUME TypeOK, TargetInv, UNCHANGED <<kind, cacheR, cacheW, before, tx, failed>>,
         NEW d \in Dirs, NEW v \in Version, saved[d] = None,
         queue' = Append(queue, <<d, v>>), saved' = [saved EXCEPT ![d] = v]
  PROVE  TargetInv'
<1>1. queue \in Seq({None} \cup Dirs \X Version) /\ saved \in Data
  BY DEF TypeOK
<1>2. /\ queue'[Len(queue) + 1] = <<d, v>> /\ Len(queue) + 1 \in 1..Len(queue')
      /\ \A i \in 1..Len(queue) : queue'[i] = queue[i] /\ i \in 1..Len(queue')
  BY <1>1, AppendProperties
<1>3. saved'[d] = v /\ \A o \in Dirs : o # d => saved'[o] = saved[o]
  BY <1>1 DEF Data
<1>4. Target' = Target /\ \A o \in Dirs : Base(o)' = Base(o)
  BY DEF Target, Base
<1>5. \A o \in Dirs : o # d /\ OnItsWay(o) => OnItsWay(o)'
  BY <1>2, <1>3, <1>4 DEF OnItsWay
<1>6. OnItsWay(d)'
  BY <1>2, <1>3 DEF OnItsWay
<1>7. Target # None => \A o \in Dirs :
        Target[o] = Base(o) \/ (saved'[o] # None /\ Target[o] = saved'[o])
  BY <1>3 DEF TargetInv
<1>8. ~failed /\ Target # None => \A o \in Dirs : saved'[o] # None => OnItsWay(o)'
  BY <1>3, <1>5, <1>6 DEF TargetInv
<1> QED
  BY <1>4, <1>7, <1>8 DEF TargetInv

\* A commit keeps what is in the database or in the transaction.
LEMMA CommittedHas ==
  ASSUME QueueInv, NEW d \in Dirs, saved[d] # None,
         Target[d] = saved[d] \/ (tx # None /\ tx[d] = saved[d])
  PROVE  Committed[d] = saved[d]
BY DEF QueueInv, Committed

\* What is received goes to the transaction, the rest of the queue moves on.
LEMMA StillQueued ==
  ASSUME TypeOK, queue # <<>>, queue' = Tail(queue), saved' = saved,
         tx' # None, tx'[queue[1][1]] = queue[1][2],
         NEW d \in Dirs, NEW i \in 1..Len(queue), queue[i] = <<d, saved[d]>>
  PROVE  OnItsWay(d)'
<1>1. CASE i = 1
  <2>1. queue[1][1] = d /\ queue[1][2] = saved[d]
    BY <1>1
  <2> QED
    BY <2>1 DEF OnItsWay
<1>2. CASE i # 1
  <2>1. i - 1 \in 1..Len(queue') /\ queue'[i - 1] = queue[i]
    BY <1>2, TailItems
  <2> QED
    BY <2>1 DEF OnItsWay
<1> QED
  BY <1>1, <1>2

\* The database is committed to, or not.
LEMMA TargetValues ==
  ASSUME TypeOK, QueueInv, TargetInv, UNCHANGED <<kind, before, saved>>,
         Target \in Data, Target' \in {Target, Committed},
         kind = "refresh" => cacheR' = cacheR,
         \A d \in Dirs : ~failed' /\ saved[d] # None => OnItsWay(d)'
  PROVE  TargetInv'
<1>1. Target # None
  BY Names
<1>2. \A d \in Dirs : Base(d)' = Base(d)
  BY DEF Base
<1>3. \A d \in Dirs : Committed[d] = Target[d] \/ (saved[d] # None /\ Committed[d] = saved[d])
  BY DEF Committed, QueueInv
<1>4. \A d \in Dirs : Target'[d] = Base(d) \/ (saved[d] # None /\ Target'[d] = saved[d])
  BY <1>1, <1>3 DEF TargetInv
<1> QED
  BY <1>2, <1>4 DEF TargetInv

LEMMA StepTarget ==
  ASSUME TypeOK, PcInv, DiskInv, HandInv, QueueInv, TargetInv, [Next]_vars
  PROVE  TargetInv'
<1> USE Names DEF TypeOK
<1>1. CASE Begin
  BY <1>1, NoTarget DEF Begin, BeginAs, disk, caches, PcInv, Early
<1>2. CASE BeginInit
  BY <1>2, NoTarget DEF BeginInit, BeginAs, disk, caches, PcInv, Early
<1>3. CASE InitStat
  BY <1>3, NoTarget DEF InitStat, Error, storeFrame, caches, callers, PcInv, Early
<1>4. CASE InitCreate
  BY <1>4, NoTarget DEF InitCreate, Error, storeFrame, caches, callers, PcInv, Early
<1>5. CASE InitWrite
  BY <1>5, NoTarget DEF InitWrite, Error, caches, callers, PcInv, Early
<1>6. CASE Import
  <2>1. saved = Nothing /\ saved' = Nothing /\ kind' = kind /\ cacheW' = None /\ before' = before
    BY <1>6 DEF Import, storeFrame, PcInv, Early
  <2>2. cacheR' \in {None, before}
    BY <1>6 DEF Import, Error, PcInv, Early, DiskInv
  <2>3. Target' # None => kind # "refresh" /\ Target' = before
    BY <2>1, <2>2 DEF Target
  <2>4. \A d \in Dirs : saved'[d] = None /\ (kind # "refresh" => Base(d)' = before[d])
    BY <2>1 DEF Base
  <2> QED
    BY <2>1, <2>2, <2>3, <2>4 DEF TargetInv
<1>7. CASE TestWrite
  <2>1. saved = Nothing /\ UNCHANGED <<saved, kind, before, cacheR>>
    BY <1>7 DEF TestWrite, storeFrame, PcInv
  <2>2. Target' \in {None, Target} \/ (kind = "refresh" /\ Target' = Nothing)
    BY <1>7, <2>1 DEF TestWrite, Error, Target
  <2>3. \A d \in Dirs : saved'[d] = None /\ Base(d)' = Base(d)
                       /\ (kind = "refresh" => Base(d) = None)
    BY <2>1 DEF Base
  <2> QED
    BY <2>1, <2>2, <2>3 DEF TargetInv
<1>8. CASE FuseSaves
  <2>1. PICK d \in todo :
          \/ /\ queue' = Append(queue, <<d, runs>>) /\ saved' = [saved EXCEPT ![d] = runs]
             /\ UNCHANGED failed
          \/ UNCHANGED <<queue, saved>> /\ failed' = TRUE
    BY <1>8 DEF FuseSaves
  <2>2. d \in Dirs /\ saved[d] = None /\ UNCHANGED <<kind, cacheR, cacheW, before, tx>>
    BY <1>8 DEF FuseSaves, HandInv, caches
  <2>3. CASE /\ queue' = Append(queue, <<d, runs>>) /\ saved' = [saved EXCEPT ![d] = runs]
             /\ UNCHANGED failed
    BY <2>2, <2>3, SaveSent, runs \in Version DEF Version
  <2>4. CASE UNCHANGED <<queue, saved>> /\ failed' = TRUE
    BY <2>2, <2>4, SameTarget
  <2> QED
    BY <2>1, <2>3, <2>4
<1>9. CASE Finish
  BY <1>9, SameTarget DEF Finish, finishFrame, disk, caches, callers
<1>10. CASE SendPill
  <2>1. queue' = Append(queue, None)
        /\ UNCHANGED <<kind, cacheR, cacheW, before, saved, tx, failed>>
    BY <1>10 DEF SendPill, finishFrame, caches
  <2>2. \A i \in 1..Len(queue) : queue'[i] = queue[i] /\ i \in 1..Len(queue')
    BY <2>1, AppendProperties
  <2>3. Target' = Target /\ \A d \in Dirs : Base(d)' = Base(d) /\ (OnItsWay(d) => OnItsWay(d)')
    BY <2>1, <2>2 DEF Target, Base, OnItsWay
  <2> QED
    BY <2>1, <2>3 DEF TargetInv
<1>11. CASE Join
  BY <1>11, SameTarget DEF Join, finishFrame, disk, caches, callers
<1>12. CASE Close
  BY <1>12, SameTarget DEF Close, Error, finishFrame, disk, caches, callers
<1>13. CASE ExportOpen
  BY <1>13, SameTarget DEF ExportOpen, Error, swapFrame, finishFrame, caches, callers
<1>14. CASE ExportWrite
  BY <1>14, SameTarget DEF ExportWrite, Error, swapFrame, finishFrame, caches, callers
<1>15. CASE RenameAtom
  BY <1>15, SameTarget DEF RenameAtom, RenameOld, Error, swapFrame, finishFrame, caches, callers
<1>16. CASE RenameNew
  BY <1>16, SameTarget DEF RenameNew, Error, swapFrame, finishFrame, caches, callers
<1>17. CASE Clean
  BY <1>17, SameTarget DEF Clean, swapFrame, finishFrame, disk, caches, callers
<1>18. CASE Exit
  BY <1>18, NoTarget DEF Exit, Reset
<1>19. CASE Kill
  BY <1>19, NoTarget DEF Kill, Reset
<1>20. CASE Abort
  BY <1>20, SameTarget DEF Abort, disk, caches
<1>21. ASSUME NEW w \in Workers, WorkerLoad(w)
       PROVE  TargetInv'
  BY <1>21, SameTarget DEF WorkerLoad, disk, caches
<1>22. ASSUME NEW w \in Workers, WorkerKeeps(w)
       PROVE  TargetInv'
  BY <1>22, SameTarget DEF WorkerKeeps, disk, caches
<1>23. ASSUME NEW w \in Workers, WorkerSaves(w)
       PROVE  TargetInv'
  <2>1. PICK v \in Version : /\ queue' = Append(queue, <<hand[w], v>>)
                            /\ saved' = [saved EXCEPT ![hand[w]] = v]
    BY <1>23 DEF WorkerSaves, Version
  <2>2. /\ hand[w] \in Dirs /\ saved[hand[w]] = None
        /\ UNCHANGED <<kind, cacheR, cacheW, before, tx, failed>>
    BY <1>23 DEF WorkerSaves, HandInv, caches
  <2> QED
    BY <2>1, <2>2, SaveSent
<1>24. CASE DbPut
  <2>1. /\ queue # <<>> /\ queue' = Tail(queue) /\ dbWorker = "loop"
        /\ UNCHANGED <<kind, before, saved>>
    BY <1>24 DEF DbPut, dbFrame
  <2>2. /\ Target \in Data /\ Committed \in Data /\ Target' \in {Target, Committed}
        /\ (kind = "refresh" => cacheR' = cacheR)
    BY <1>24, <2>1, TargetType, CommittedType DEF DbPut, SetTarget, Target, caches

  <2>3. queue[1] \in Dirs \X Version /\ saved[queue[1][1]] = queue[1][2]
    BY <1>24, <2>1, TailType, TailItems DEF DbPut, QueueInv
  <2>4. /\ tx' # None /\ tx'[queue[1][1]] = queue[1][2] /\ failed' = failed
        /\ \/ Target' = Committed
           \/ Target' = Target /\ (tx # None => \A d \in Dirs : d # queue[1][1] => tx'[d] = tx[d])
    <3>1. failed' = failed /\ tx' \in Data
      BY <1>24, <2>3, PutType DEF DbPut
    <3>2. CASE tx' = [(IF tx = None THEN Nothing ELSE tx) EXCEPT ![queue[1][1]] = queue[1][2]]
               /\ UNCHANGED caches
      BY <2>1, <2>3, <3>1, <3>2 DEF Data, caches, Target
    <3>3. CASE SetTarget(Committed) /\ tx' = [Nothing EXCEPT ![queue[1][1]] = queue[1][2]]
      BY <2>1, <2>3, <3>1, <3>3 DEF Data, SetTarget, Target
    <3> QED
      BY <1>24, <3>1, <3>2, <3>3 DEF DbPut
  <2>5. ASSUME NEW d \in Dirs, ~failed, saved[d] # None
        PROVE  OnItsWay(d)'
    <3>1. OnItsWay(d)
      BY <2>2, <2>5 DEF TargetInv
    <3>2. CASE Target[d] = saved[d] \/ (tx # None /\ tx[d] = saved[d])
      BY <2>1, <2>2, <2>3, <2>4, <2>5, <3>2, CommittedHas DEF OnItsWay
    <3>3. CASE \E i \in 1..Len(queue) : queue[i] = <<d, saved[d]>>
      BY <2>1, <2>3, <2>4, <3>3, TailItems, StillQueued DEF OnItsWay
    <3> QED
      BY <3>1, <3>2, <3>3 DEF OnItsWay
  <2> QED
    BY <2>1, <2>2, <2>4, <2>5, TargetValues
<1>25. CASE DbError
  <2>1. /\ queue # <<>> /\ queue' = Tail(queue) /\ dbWorker = "loop"
        /\ UNCHANGED <<kind, before, saved>>
    BY <1>25 DEF DbError, dbFrame
  <2>2. /\ Target \in Data /\ Committed \in Data /\ Target' \in {Target, Committed}
        /\ (kind = "refresh" => cacheR' = cacheR)
    BY <1>25, <2>1, TargetType, CommittedType DEF DbError, SetTarget, Target, caches

  <2>3. failed' = TRUE
    BY <1>25 DEF DbError
  <2> QED
    BY <2>1, <2>2, <2>3, TargetValues
<1>26. CASE DbEnd
  <2>1. /\ queue # <<>> /\ queue' = Tail(queue) /\ dbWorker = "loop"
        /\ UNCHANGED <<kind, before, saved>>
    BY <1>26 DEF DbEnd, dbFrame
  <2>2. /\ Target \in Data /\ Committed \in Data /\ Target' \in {Target, Committed}
        /\ (kind = "refresh" => cacheR' = cacheR)
    BY <1>26, <2>1, TargetType, CommittedType DEF DbEnd, SetTarget, Target, caches

  <2>3. failed' \/ (failed' = failed /\ Target' = Committed)
    BY <1>26, <2>1 DEF DbEnd, SetTarget, Target
  <2>4. ASSUME NEW d \in Dirs, ~failed', saved[d] # None
        PROVE  OnItsWay(d)'
    <3>1. OnItsWay(d) /\ Target' = Committed
      BY <2>2, <2>3, <2>4 DEF TargetInv
    <3>2. ~\E i \in 1..Len(queue) : queue[i] = <<d, saved[d]>>
      <4>1. queue[1] = None /\ Len(queue) = 1 /\ saved[d] \in Version
        BY <1>26, <2>1, <2>4, TailItems DEF DbEnd, QueueInv, Data
      <4>2. <<d, saved[d]>> # None
        BY <4>1
      <4>3. \A i \in 1..Len(queue) : queue[i] = None
        BY <4>1
      <4> QED
        BY <4>2, <4>3
    <3>3. Committed[d] = saved[d]
      BY <3>1, <3>2, <2>4, CommittedHas DEF OnItsWay
    <3> QED
      BY <2>1, <3>1, <3>3 DEF OnItsWay
  <2> QED
    BY <2>1, <2>2, <2>4, TargetValues
<1>27. CASE Rest \/ UNCHANGED vars
  BY <1>27, SameTarget DEF Rest, vars, caches
<1> QED
  BY <1>1, <1>2, <1>3, <1>4, <1>5, <1>6, <1>7, <1>8, <1>9, <1>10, <1>11, <1>12, <1>13, <1>14,
     <1>15, <1>16, <1>17, <1>18, <1>19, <1>20, <1>21, <1>22, <1>23, <1>24, <1>25, <1>26, <1>27
  DEF Next, Main, Worker, DbWorker

\* A run that saved nothing expects what was installed before.
LEMMA NothingSaved ==
  ASSUME TypeOK, PcInv, atom # None, atom.data = before, kind = "check" \/ ~dirty
  PROVE  Installed = Expected
<1>1. saved = Nothing /\ before \in Data /\ ~(kind = "refresh" /\ dirty)
  BY DEF PcInv, TypeOK
<1>2. Expected = [d \in Dirs |-> before[d]]
  BY <1>1, Names DEF Expected
<1>3. [d \in Dirs |-> before[d]] = before
  BY <1>1 DEF Data
<1> QED
  BY <1>2, <1>3 DEF Installed

\* When the new file is installed without an error nothing is on its way any more.
LEMMA AllArrived ==
  ASSUME TypeOK, PcInv, TargetInv, EndInv, pc = "install", ~failed
  PROVE  Exported = Expected
<1>1. queue = <<>> /\ tx = None /\ dirty
  BY DEF EndInv, PcInv
<1>2. Exported = Target /\ Exported \in Data
  BY DEF PcInv, TypeOK, Exported, Target, Opened
<1>3. Target # None
  BY <1>2, Names
<1>4. ASSUME NEW d \in Dirs
      PROVE  Target[d] = Expected[d]
  <2>1. CASE saved[d] = None
    BY <1>1, <1>3, <2>1 DEF TargetInv, Base, Expected
  <2>2. CASE saved[d] # None
    <3>1. Target[d] = saved[d]
      BY <1>1, <1>3, <2>2 DEF TargetInv, OnItsWay
    <3> QED
      BY <2>2, <3>1 DEF Expected
  <2> QED
    BY <2>1, <2>2
<1>5. Target = [d \in Dirs |-> Target[d]]
  BY <1>2 DEF Data
<1>6. Expected = [d \in Dirs |-> Expected[d]]
  BY DEF Expected
<1> QED
  BY <1>2, <1>4, <1>5, <1>6

LEMMA StepEnd ==
  ASSUME TypeOK, PcInv, DiskInv, QueueInv, TargetInv, EndInv, [Next]_vars
  PROVE  EndInv'
<1> USE Names DEF TypeOK, EndInv
<1>1. CASE Begin
  BY <1>1 DEF Begin, BeginAs, disk, caches, PcInv, Early
<1>2. CASE BeginInit
  BY <1>2 DEF BeginInit, BeginAs, disk, caches, PcInv, Early
<1>3. CASE InitStat
  BY <1>3 DEF InitStat, Error, storeFrame, caches, callers, PcInv, Early
<1>4. CASE InitCreate
  BY <1>4 DEF InitCreate, Error, storeFrame, caches, callers, PcInv, Early
<1>5. CASE InitWrite
  <2>1. saved = Nothing /\ kind # "refresh" /\ dbWorker = "none"
        /\ UNCHANGED <<saved, kind, dirty, dbWorker>>
    BY <1>5 DEF InitWrite, PcInv, Early
  <2>2. CASE atom' = Whole(Nothing) /\ before' = Nothing
    <3>1. Installed' = Nothing
      BY <2>2 DEF Installed, Whole
    <3>2. Expected' = Nothing
      BY <2>1, <2>2 DEF Expected, Nothing
    <3> QED
      BY <1>5, <2>1, <3>1, <3>2 DEF InitWrite, Error
  <2>3. CASE failed' /\ pc' = "done"
    BY <2>1, <2>3
  <2> QED
    BY <1>5, <2>2, <2>3 DEF InitWrite, Error
<1>6. CASE Import
  BY <1>6 DEF Import, Error, storeFrame, disk, callers, PcInv, Early
<1>7. CASE TestWrite
  BY <1>7 DEF TestWrite, Error, storeFrame, callers, PcInv, Early
<1>8. CASE FuseSaves
  BY <1>8 DEF FuseSaves, PcInv
<1>9. CASE Finish
  BY <1>9 DEF Finish, finishFrame, PcInv
<1>10. CASE SendPill
  BY <1>10 DEF SendPill, finishFrame, PcInv
<1>11. CASE Join
  BY <1>11 DEF Join, finishFrame, disk, caches, callers
<1>12. CASE Close
  <2>1. UNCHANGED <<queue, tx, dbWorker, aborted, kind, dirty, saved, before, atom, bak, spoiled>>
    BY <1>12 DEF Close, finishFrame, disk
  <2>2. CASE failed'
    BY <1>12, <2>1, <2>2 DEF Close, Error
  <2>3. CASE ~failed'
    <3>1. /\ pc = "close" /\ tx = None /\ failed' = failed
          /\ pc' = IF kind # "check" /\ dirty /\ ~aborted THEN "export" ELSE "clean"
      BY <1>12, <2>3 DEF Close, Error
    <3>2. (kind = "check" \/ ~dirty) => Installed = Expected
      BY <3>1, NothingSaved DEF DiskInv, Opened
    <3>3. Installed' = Installed /\ Expected' = Expected
      BY <2>1 DEF Installed, Expected
    <3> QED
      BY <2>1, <2>3, <3>1, <3>2, <3>3
  <2> QED
    BY <2>2, <2>3
<1>13. CASE ExportOpen
  BY <1>13 DEF ExportOpen, Error, swapFrame, finishFrame, caches, callers
<1>14. CASE ExportWrite
  BY <1>14 DEF ExportWrite, Error, swapFrame, finishFrame, caches, callers
<1>15. CASE RenameAtom
  BY <1>15 DEF RenameAtom, RenameOld, Error, swapFrame, finishFrame, caches, callers
<1>16. CASE RenameNew
  <2>1. /\ UNCHANGED <<queue, tx, dbWorker, aborted, kind, dirty, saved, before, bak, spoiled>>
        /\ pc = "install"
    BY <1>16 DEF RenameNew, swapFrame, finishFrame
  <2>2. CASE failed'
    BY <1>16, <2>1, <2>2 DEF RenameNew, Error
  <2>3. CASE ~failed'
    <3>1. atom' = newFile /\ pc' = "clean" /\ failed' = failed
      BY <1>16, <2>3 DEF RenameNew, Error
    <3>2. ASSUME spoiled # "key"
          PROVE  Installed' = Expected'
      <4>1. newFile # None /\ newFile = Whole(Exported)
        BY <2>1, <3>2 DEF DiskInv
      <4>2. Exported = Expected
        BY <2>1, <2>3, <3>1, AllArrived
      <4>3. Installed' = Expected
        BY <3>1, <4>1, <4>2 DEF Installed, Whole
      <4> QED
        BY <2>1, <4>3 DEF Expected
    <3> QED
      BY <2>1, <2>3, <3>1, <3>2
  <2> QED
    BY <2>2, <2>3
<1>17. CASE Clean
  <2>1. Installed' = Installed /\ Expected' = Expected
    BY <1>17 DEF Clean, swapFrame, finishFrame, disk, Installed, Expected
  <2> QED
    BY <1>17, <2>1 DEF Clean, swapFrame, finishFrame
<1>18. CASE Exit
  BY <1>18 DEF Exit, Reset, Idle, disk
<1>19. CASE Kill
  BY <1>19 DEF Kill, Reset, Idle, disk
<1>20. CASE Abort
  <2>1. Installed' = Installed /\ Expected' = Expected
    BY <1>20 DEF Abort, disk, Installed, Expected
  <2> QED
    BY <1>20, <2>1 DEF Abort
<1>21. ASSUME NEW w \in Workers, WorkerLoad(w)
       PROVE  EndInv'
  BY <1>21 DEF WorkerLoad, disk, caches
<1>22. ASSUME NEW w \in Workers, WorkerKeeps(w)
       PROVE  EndInv'
  BY <1>22 DEF WorkerKeeps, PcInv
<1>23. ASSUME NEW w \in Workers, WorkerSaves(w)
       PROVE  EndInv'
  BY <1>23 DEF WorkerSaves, PcInv
<1>24. CASE DbPut
  BY <1>24 DEF DbPut, dbFrame, PcInv
<1>25. CASE DbError
  BY <1>25 DEF DbError, dbFrame, PcInv
<1>26. CASE DbEnd
  <2>1. queue # <<>> /\ queue[1] = None /\ dbWorker = "loop" /\ queue' = Tail(queue) /\ tx' = None
    BY <1>26 DEF DbEnd
  <2>2. 1 \in 1..Len(queue) /\ Len(queue') = Len(queue) - 1
    BY <2>1, TailItems
  <2>3. Len(queue) = 1
    BY <2>1, <2>2 DEF QueueInv
  <2>4. queue' = <<>>
    BY <2>1, <2>2, <2>3, TailType
  <2> QED
    BY <1>26, <2>1, <2>4 DEF DbEnd, dbFrame, PcInv
<1>27. CASE Rest \/ UNCHANGED vars
  BY <1>27 DEF Rest, vars, disk, caches, callers, Installed, Expected
<1> QED
  BY <1>1, <1>2, <1>3, <1>4, <1>5, <1>6, <1>7, <1>8, <1>9, <1>10, <1>11, <1>12, <1>13, <1>14,
     <1>15, <1>16, <1>17, <1>18, <1>19, <1>20, <1>21, <1>22, <1>23, <1>24, <1>25, <1>26, <1>27
  DEF Next, Main, Worker, DbWorker

-----------------------------------------------------------------------------
(* Theorems                                                                *)

\* The inductive invariant.
LEMMA Invariant == Spec => []IInv
<1>1. Init => IInv
  BY InitType, InitPc, InitDisk, InitFlow DEF IInv
<1>2. IInv /\ [Next]_vars => IInv'
  <2> SUFFICES ASSUME IInv, [Next]_vars
               PROVE  IInv'
    OBVIOUS
  <2>1. TypeOK /\ PcInv /\ DiskInv /\ HandInv /\ QueueInv /\ TargetInv /\ EndInv
    BY DEF IInv, FlowInv
  <2>2. TypeOK' /\ PcInv' /\ DiskInv'
    BY <2>1, StepType, StepPc, StepDisk
  <2>3. HandInv' /\ QueueInv' /\ TargetInv' /\ EndInv'
    BY <2>1, StepHand, StepQueue, StepTarget, StepEnd
  <2> QED
    BY <2>2, <2>3 DEF IInv, FlowInv
<1> QED
  BY <1>1, <1>2, PTL DEF Spec

\* The types of every variable, in every run with any number of workers.
THEOREM TypeCorrect == Spec => []TypeOK
<1>1. IInv => TypeOK
  BY DEF IInv
<1> QED
  BY <1>1, Invariant, PTL

\* Wherever a run is killed or fails, the atom file is not half written, except in an init
\* and after the lost error of a key: exportCache and the renames of Finish.
THEOREM AtomFileWhole == Spec => []AtomReadable
<1>1. IInv => AtomReadable
  BY DEF IInv, DiskInv
<1> QED
  BY <1>1, Invariant, PTL

\* While the atom file is missing in the swap, .new is complete and .bak holds an index.
THEOREM SwapLosesNothing == Spec => []NothingLostBySwap
<1>1. IInv => NothingLostBySwap
  BY DEF IInv, DiskInv
<1> QED
  BY <1>1, Invariant, PTL

\* A torn atom file that was installed is not built upon: .bak stays whole.
THEOREM BackupStays == Spec => []TornKeepsBackup
<1>1. IInv => TornKeepsBackup
  BY DEF IInv, DiskInv
<1> QED
  BY <1>1, Invariant, PTL

\* No worker loads what another one of the same run saved.
THEOREM LoadsInstalled == Spec => []LoadSeesInstalled
<1>1. IInv => LoadSeesInstalled
  BY DEF IInv, FlowInv, HandInv, LoadSeesInstalled
<1> QED
  BY <1>1, Invariant, PTL

\* A run without an error or an abort has installed everything that was saved.
THEOREM AllSavesInstalled == Spec => []SavesInstalled
<1>1. IInv => SavesInstalled
  BY DEF IInv, FlowInv, EndInv, SavesInstalled
<1> QED
  BY <1>1, Invariant, PTL

-----------------------------------------------------------------------------
(* The refinement                                                          *)

\* A step that leaves the abstract state alone, except that it may report an error.
LEMMA QuietStep ==
  ASSUME UNCHANGED <<Installed, saved, kind>>,
         failed' = failed \/ (kind # None /\ failed' = TRUE)
  PROVE  [Store!Next \/ spoiled' # None]_(Store!vars)
BY DEF Store!Next, Store!Fail, Store!vars

\* The second rename installs the saves that arrived; some are lost only after an error.
LEMMA InstallStep ==
  ASSUME IInv, pc = "install", UNCHANGED <<saved, kind, failed>>,
         Installed = before, Installed' = Exported
  PROVE  Store!Install
<1> DEFINE lost == {d \in Dirs : saved[d] # Exported[d]}
<1>1. kind \in {"update", "refresh", "fuse"}
  BY DEF IInv, TypeOK, PcInv, Kind
<1>2. Exported = Target /\ Target # None /\ Exported \in Data
  BY Names DEF IInv, PcInv, TypeOK, Exported, Target, Opened
<1>3. ASSUME NEW d \in Dirs
      PROVE  Exported[d] = IF saved[d] # None /\ d \notin lost THEN saved[d]
                           ELSE IF kind = "refresh" THEN None ELSE Installed[d]
  BY <1>2 DEF IInv, FlowInv, TargetInv, Base
<1>4. Installed' = [d \in Dirs |-> IF saved[d] # None /\ d \notin lost THEN saved[d]
                                  ELSE IF kind = "refresh" THEN None ELSE Installed[d]]
  BY <1>2, <1>3 DEF Data
<1>5. CASE failed
  BY <1>1, <1>4, <1>5 DEF Store!Install, Store!Merged, Store!Saving
<1>6. CASE ~failed
  <2>1. \A d \in Dirs : saved[d] # None => saved[d] = Exported[d]
    BY <1>2, <1>6 DEF IInv, FlowInv, TargetInv, EndInv, OnItsWay
  <2>2. Installed' = [d \in Dirs |-> IF saved[d] # None /\ d \notin {} THEN saved[d]
                                    ELSE IF kind = "refresh" THEN None ELSE Installed[d]]
    BY <1>4, <2>1
  <2>3. Installed' = Store!Merged({})
    BY <2>2 DEF Store!Merged
  <2> QED
    BY <1>1, <2>3, {} \in SUBSET Dirs DEF Store!Install, Store!Saving
<1> QED
  BY <1>5, <1>6

LEMMA StepRefines ==
  ASSUME IInv, [Next]_vars
  PROVE  [Store!Next \/ spoiled' # None]_(Store!vars)
<1> USE Names DEF IInv, TypeOK
<1>1. CASE Begin
  <2>1. Installed' = Installed /\ saved' = Nothing /\ failed' = FALSE /\ kind = None
    BY <1>1 DEF Begin, BeginAs, Installed, disk
  <2>2. kind' \in Kind
    BY <1>1 DEF Begin, BeginAs, Kind
  <2> QED
    BY <2>1, <2>2 DEF Store!Next, Store!Begin, Store!Nothing, Nothing, Store!Kind, Kind
<1>2. CASE BeginInit
  <2>1. Installed' = Installed /\ saved' = Nothing /\ failed' = FALSE /\ kind = None
    BY <1>2 DEF BeginInit, BeginAs, Installed, disk
  <2>2. kind' \in Kind
    BY <1>2 DEF BeginInit, BeginAs, Kind
  <2> QED
    BY <2>1, <2>2 DEF Store!Next, Store!Begin, Store!Nothing, Nothing, Store!Kind, Kind
<1>3. CASE InitStat
  <2>1. CASE spoiled' = "init" /\ atom' = None
    BY <2>1
  <2>2. CASE UNCHANGED <<atom, bak, saved, kind>> /\ (failed' = failed \/ failed' = TRUE)
    BY <1>3, <2>2, QuietStep DEF InitStat, Installed
  <2> QED
    BY <1>3, <2>1, <2>2 DEF InitStat, Error, storeFrame
<1>4. CASE InitCreate
  <2>1. CASE spoiled' = "init"
    BY <2>1
  <2>2. CASE UNCHANGED <<atom, bak, saved, kind>> /\ failed' = TRUE
    BY <1>4, <2>2, QuietStep DEF InitCreate, Installed
  <2> QED
    BY <1>4, <2>1, <2>2 DEF InitCreate, Error, storeFrame
<1>5. CASE InitWrite
  <2>1. atom = Torn
    BY <1>5 DEF InitWrite, DiskInv
  <2>2. Torn # None /\ Whole(Nothing) # None
    OBVIOUS
  <2>3. Torn.data = Nothing /\ Whole(Nothing).data = Nothing
    BY DEF Torn, Whole
  <2>4. Installed' = Installed
    BY <1>5, <2>1, <2>2, <2>3 DEF InitWrite, Error, Installed
  <2> QED
    BY <1>5, <2>4, QuietStep DEF InitWrite, Error
<1>6. CASE Import
  BY <1>6, QuietStep DEF Import, Error, storeFrame, disk, callers, Installed
<1>7. CASE TestWrite
  BY <1>7, QuietStep DEF TestWrite, Error, storeFrame, callers, Installed
<1>8. CASE FuseSaves
  <2>1. kind = "fuse" /\ kind # None /\ UNCHANGED <<kind, atom, bak>> /\ runs \in Version
    BY <1>8 DEF FuseSaves, disk, Version
  <2>2. PICK d \in Dirs :
          \/ saved' = [saved EXCEPT ![d] = runs] /\ failed' = failed
          \/ saved' = saved /\ failed' = TRUE
    BY <1>8 DEF FuseSaves
  <2>3. CASE saved' = [saved EXCEPT ![d] = runs] /\ failed' = failed
    BY <2>1, <2>3 DEF Store!Next, Store!Save, Store!Saving, Installed
  <2>4. CASE saved' = saved /\ failed' = TRUE
    BY <2>1, <2>4, QuietStep DEF Installed
  <2> QED
    BY <2>2, <2>3, <2>4
<1>9. CASE Finish
  BY <1>9, QuietStep DEF Finish, finishFrame, disk, caches, callers, Installed
<1>10. CASE SendPill
  BY <1>10, QuietStep DEF SendPill, finishFrame, disk, caches, callers, Installed
<1>11. CASE Join
  BY <1>11, QuietStep DEF Join, finishFrame, disk, caches, callers, Installed
<1>12. CASE Close
  BY <1>12, QuietStep DEF Close, Error, finishFrame, disk, caches, callers, Installed
<1>13. CASE ExportOpen
  BY <1>13, QuietStep DEF ExportOpen, Error, swapFrame, finishFrame, caches, callers, Installed
<1>14. CASE ExportWrite
  BY <1>14, QuietStep DEF ExportWrite, Error, swapFrame, finishFrame, caches, callers, Installed
<1>15. CASE RenameAtom
  <2>1. Installed' = Installed
    BY <1>15 DEF RenameAtom, RenameOld, Error, Installed, DiskInv, Opened
  <2> QED
    BY <1>15, <2>1, QuietStep DEF RenameAtom, Error, swapFrame, finishFrame
<1>16. CASE RenameNew
  <2>1. UNCHANGED <<kind, saved, bak, spoiled>> /\ pc = "install" /\ kind # None
    BY <1>16 DEF RenameNew, swapFrame, finishFrame
  <2>2. CASE spoiled # None
    BY <2>1, <2>2
  <2>3. CASE UNCHANGED atom /\ failed' = TRUE
    BY <2>1, <2>3, QuietStep DEF Installed
  <2>4. CASE spoiled = None /\ atom' = newFile /\ failed' = failed
    <3>1. newFile = Whole(Exported) /\ newFile # None
      BY <2>1, <2>4 DEF DiskInv
    <3>2. Installed' = Exported /\ Installed = before
      BY <2>1, <2>4, <3>1 DEF Installed, Whole, DiskInv
    <3> QED
      BY <2>1, <2>4, <3>2, InstallStep DEF Store!Next
  <2> QED
    BY <1>16, <2>2, <2>3, <2>4 DEF RenameNew, Error
<1>17. CASE Clean
  BY <1>17, QuietStep DEF Clean, swapFrame, finishFrame, disk, caches, callers, Installed
<1>18. CASE Exit
  <2>1. kind # None /\ kind' = None /\ UNCHANGED <<atom, bak, saved, failed>>
    BY <1>18 DEF Exit, Reset, disk
  <2> QED
    BY <2>1 DEF Store!Next, Store!End, Installed
<1>19. CASE Kill
  <2>1. kind # None /\ kind' = None /\ UNCHANGED <<atom, bak, saved, failed>>
    BY <1>19 DEF Kill, Reset, disk
  <2> QED
    BY <2>1 DEF Store!Next, Store!End, Installed
<1>20. CASE Abort
  BY <1>20, QuietStep DEF Abort, disk, caches, Installed
<1>21. ASSUME NEW w \in Workers, WorkerLoad(w)
       PROVE  [Store!Next \/ spoiled' # None]_(Store!vars)
  BY <1>21, QuietStep DEF WorkerLoad, disk, caches, Installed
<1>22. ASSUME NEW w \in Workers, WorkerKeeps(w)
       PROVE  [Store!Next \/ spoiled' # None]_(Store!vars)
  BY <1>22, QuietStep DEF WorkerKeeps, disk, caches, Installed
<1>23. ASSUME NEW w \in Workers, WorkerSaves(w)
       PROVE  [Store!Next \/ spoiled' # None]_(Store!vars)
  <2>1. PICK v \in Version : saved' = [saved EXCEPT ![hand[w]] = v]
    BY <1>23 DEF WorkerSaves, Version
  <2>2. /\ hand[w] \in Dirs /\ kind \in {"update", "refresh", "fuse"}
        /\ UNCHANGED <<kind, failed, atom, bak>>
    BY <1>23 DEF WorkerSaves, PcInv, disk, Kind
  <2> QED
    BY <2>1, <2>2 DEF Store!Next, Store!Save, Store!Saving, Installed
<1>24. CASE DbPut
  BY <1>24, QuietStep DEF DbPut, dbFrame, disk, PcInv, Installed
<1>25. CASE DbError
  BY <1>25, QuietStep DEF DbError, dbFrame, disk, PcInv, Installed
<1>26. CASE DbEnd
  BY <1>26, QuietStep DEF DbEnd, dbFrame, disk, PcInv, Installed
<1>27. CASE Rest \/ UNCHANGED vars
  BY <1>27, QuietStep DEF Rest, vars, disk, Installed
<1> QED
  BY <1>1, <1>2, <1>3, <1>4, <1>5, <1>6, <1>7, <1>8, <1>9, <1>10, <1>11, <1>12, <1>13, <1>14,
     <1>15, <1>16, <1>17, <1>18, <1>19, <1>20, <1>21, <1>22, <1>23, <1>24, <1>25, <1>26, <1>27
  DEF Next, Main, Worker, DbWorker

\* The code keeps the promise of Transaction, for any number of directories, workers,
\* runs and kills: the saves of a run are installed together or not at all.
THEOREM KeepsPromise == Spec => Transactional
<1>1. Init => Store!Init
  <2> SUFFICES ASSUME Init
               PROVE  Store!Init
    OBVIOUS
  <2>1. Installed \in [Dirs -> Version \cup {None}]
    <3>1. [Dirs -> {0, None}] \subseteq [Dirs -> Version \cup {None}]
      BY Names DEF Version
    <3> QED
      BY <3>1, Names DEF Init, Installed, Whole, Nothing
  <2> QED
    BY <2>1 DEF Init, Store!Init, Store!Nothing, Nothing
<1>2. IInv /\ [Next]_vars => [Store!Next \/ spoiled' # None]_(Store!vars)
  BY StepRefines
<1> QED
  BY <1>1, <1>2, Invariant, PTL DEF Spec, Transactional
=============================================================================
