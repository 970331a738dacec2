--------------------------- MODULE ProcessProofs ---------------------------
(***************************************************************************)
(* Proofs about Process, for every number of workers, every directory tree *)
(* and every capacity of the channels: type correctness, then the closing  *)
(* protocol of LogQueue and what follows from it.                          *)
(***************************************************************************)
EXTENDS Process, SequenceTheorems, FiniteSetTheorems, TLAPS

-----------------------------------------------------------------------------
(* Lemmas about the operators                                              *)

\* Nil is neither a goroutine nor a directory nor an event, and the scanner,
\* the main goroutine and the workers are different goroutines.
LEMMA Names ==
  /\ Scanner \in Goroutine /\ Main \in Goroutine /\ Workers \subseteq Goroutine
  /\ Scanner # Main /\ Scanner \notin Workers /\ Main \notin Workers
  /\ Nil \notin Goroutine /\ Nil \notin Dirs /\ Nil \notin Event
BY ProcessAssumption DEF Goroutine

\* The subdirectories scanDir goes into form a sequence of pending calls.
LEMMA SubDirsType ==
  ASSUME NEW p \in Pending
  PROVE  SubDirs(p) \in Seq(Pending)
<1>1. Kids[p.dir] \in Seq(Dirs)
  BY ProcessAssumption DEF Pending
<1>2. Len(Kids[p.dir]) \in Nat /\ \A i \in 1..Len(Kids[p.dir]) : Kids[p.dir][i] \in Dirs
  BY <1>1
<1>3. SubDirs(p) \in [1..Len(Kids[p.dir]) -> Pending]
  BY <1>2 DEF SubDirs, Pending
<1> QED
  BY <1>2, <1>3, SeqDef

\* The first calls of scanDir, one for each path.
LEMMA RootsType ==
  [i \in 1..Len(Roots) |-> [dir |-> Roots[i], depth |-> 1]] \in Seq(Pending)
<1>1. Len(Roots) \in Nat /\ \A i \in 1..Len(Roots) : Roots[i] \in Dirs
  BY ProcessAssumption
<1>2. [i \in 1..Len(Roots) |-> [dir |-> Roots[i], depth |-> 1]]
        \in [1..Len(Roots) -> Pending]
  BY <1>1 DEF Pending
<1> QED
  BY <1>1, <1>2, SeqDef

\* What a worker does for a directory is a sequence of operations.
LEMMA JobsType == Jobs \subseteq Seq(Op)
<1>1. LoadLogs \subseteq Seq(Op)
  BY ProcessAssumption, SeqMonotonic, {"PNC", "ERX"} \subseteq Op DEF Op, Status
<1>2. HashOps \subseteq Seq(Op)
  BY ProcessAssumption, SeqMonotonic, {"perf", "PNC", "ign"} \subseteq Op DEF Op, Status
<1>3. FixLogs \subseteq Seq(Op)
  BY ProcessAssumption, SeqMonotonic,
     {"DMG", "old", "upd", "new", "ok", "del"} \subseteq Op DEF Op, Status
<1>4. Saving \subseteq Seq(Op)
  <2>1. <<>> \in Seq(Op) /\ <<"save">> \in Seq(Op) /\ <<"PNC">> \in Seq(Op)
    BY DEF Op, Status
  <2>2. <<"save", "xup">> \in Seq(Op)
    BY DEF Op, Status
  <2> QED
    BY <2>1, <2>2, ProcessAssumption DEF Saving
<1>5. {<<>>, <<"ign">>} \subseteq Seq(Op)
  BY DEF Op, Status
<1>6. \A s, t \in Seq(Op) : s \o t \in Seq(Op)
  BY ConcatProperties
<1>7. \A l \in LoadLogs, i \in {<<>>, <<"ign">>} : l \o i \in Seq(Op)
  BY <1>1, <1>5, <1>6
<1>8. \A l \in LoadLogs, h \in HashOps, f \in FixLogs, s \in Saving :
        l \o h \o f \o s \in Seq(Op)
  <2> TAKE l \in LoadLogs, h \in HashOps, f \in FixLogs, s \in Saving
  <2>1. l \o h \in Seq(Op)
    BY <1>1, <1>2, <1>6
  <2>2. l \o h \o f \in Seq(Op)
    BY <2>1, <1>3, <1>6
  <2> QED
    BY <2>2, <1>4, <1>6
<1>9. CASE ShowIgnoredOnly
  BY <1>7, <1>9 DEF Jobs
<1>10. CASE ~ShowIgnoredOnly
  <2> SUFFICES ASSUME NEW job \in Jobs
               PROVE  job \in Seq(Op)
    OBVIOUS
  <2> PICK l \in LoadLogs, h \in HashOps, f \in FixLogs, s \in Saving :
        job = l \o h \o f \o s
    BY <1>10 DEF Jobs
  <2> QED
    BY <1>8
<1> QED
  BY <1>9, <1>10

\* What the scanner does for a readable directory is a sequence of operations.
LEMMA ScanOpsType ==
  ASSUME NEW logs \in ScanLogs
  PROVE  Append(logs, "add") \in Seq(Op)
<1>1. logs \in Seq(Op)
  BY ProcessAssumption, SeqMonotonic, {"PNC", "ign"} \subseteq Op DEF Op, Status
<1> QED
  BY <1>1 DEF Op

\* Len, Head and Tail of a nonempty sequence, Len of an Append.
LEMMA TailType ==
  ASSUME NEW S, NEW s \in Seq(S), s # <<>>
  PROVE  /\ Head(s) \in S /\ Tail(s) \in Seq(S)
         /\ Len(Tail(s)) = Len(s) - 1 /\ Len(s) \in Nat \ {0}
BY HeadTailProperties, LenProperties, EmptySeq

-----------------------------------------------------------------------------
(* Type correctness                                                        *)

\* Every log call keeps the types: what is sent is an event because the holder
\* of the mutex is inside a log call.
LEMMA LogTypes ==
  ASSUME NEW g \in Goroutine, TypeOK, MutexInv, LogLock(g) \/ LogSend(g)
  PROVE  TypeOK' /\ MutexInv'
<1> USE Names
<1>1. CASE LogLock(g)
  <2>1. TypeOK'
    BY <1>1 DEF TypeOK, LogLock, scanVars, handlerVars
  <2>2. MutexInv'
    BY <1>1 DEF MutexInv, LogLock
  <2> QED
    BY <2>1, <2>2
<1>2. CASE LogSend(g)
  <2> DEFINE e == [from |-> g, dir |-> at[g], stat |-> Head(todo[g])]
  <2>1. todo[g] \in Seq(Op) /\ todo[g] # <<>> /\ Head(todo[g]) \in Status
    BY <1>2 DEF LogSend, MutexInv, TypeOK
  <2>2. e \in Event
    BY <2>1 DEF Event, TypeOK
  <2>3. Tail(todo[g]) \in Seq(Op)
    BY <2>1, TailType
  <2>4. logQ' = Append(logQ, e) /\ reported' = reported \cup {e} /\ mutex' = Nil
        /\ Len(logQ) < LogCap
    BY <1>2 DEF LogSend
  <2>5. logQ' \in Seq(Event \cup {Nil}) /\ Len(logQ') <= LogCap
    BY <2>2, <2>4, ProcessAssumption DEF TypeOK
  <2>6. todo' \in [Goroutine -> Seq(Op)]
    BY <1>2, <2>3 DEF LogSend, TypeOK
  <2>7. TypeOK'
    BY <1>2, <2>2, <2>4, <2>5, <2>6 DEF TypeOK, LogSend, scanVars, handlerVars
  <2>8. MutexInv'
    <3>1. CASE g = Main
      BY <1>2, <2>1, <2>4, <3>1 DEF LogSend, MutexInv, TypeOK
    <3>2. CASE g # Main
      BY <1>2, <2>4, <3>2 DEF LogSend, MutexInv, TypeOK
    <3> QED
      BY <3>1, <3>2
  <2> QED
    BY <2>7, <2>8
<1> QED
  BY <1>1, <1>2

\* Every other operation of a goroutine g keeps the types.
LEMMA ScannerTypes ==
  ASSUME TypeOK, MutexInv, ScanDir \/ AddWork \/ EndWork
  PROVE  TypeOK' /\ MutexInv'
<1> USE Names
<1>1. CASE ScanDir
  <2> DEFINE p == Head(stack)
  <2>1. p \in Pending /\ Tail(stack) \in Seq(Pending) /\ p.dir \in Dirs
    <3>1. stack \in Seq(Pending) /\ stack # <<>>
      BY <1>1 DEF ScanDir, TypeOK
    <3>2. p \in Pending /\ Tail(stack) \in Seq(Pending)
      BY <3>1, TailType
    <3> QED
      BY <3>2 DEF Pending
  <2>2. SubDirs(p) \in Seq(Pending)
    BY <2>1, SubDirsType
  <2>3. (IF Descends(p.depth) THEN SubDirs(p) ELSE <<>>) \o Tail(stack) \in Seq(Pending)
    BY <2>1, <2>2, ConcatProperties, EmptySeq
  <2>4. stack' \in Seq(Pending)
    BY <1>1, <2>1, <2>3 DEF ScanDir
  <2>5. todo' \in [Goroutine -> Seq(Op)]
    <3>1. <<"PNC">> \in Seq(Op)
      BY DEF Op, Status
    <3>2. \/ todo' = todo
          \/ todo' = [todo EXCEPT ![Scanner] = <<"PNC">>]
          \/ \E logs \in ScanLogs : todo' = [todo EXCEPT ![Scanner] = Append(logs, "add")]
      BY <1>1 DEF ScanDir
    <3>3. \E ops \in Seq(Op) : todo' = todo \/ todo' = [todo EXCEPT ![Scanner] = ops]
      BY <3>1, <3>2, ScanOpsType
    <3>4. todo \in [Goroutine -> Seq(Op)]
      BY DEF TypeOK
    <3> QED
      BY <3>3, <3>4
  <2>6. at' \in [Goroutine -> Place] /\ unreadable' \subseteq Dirs
    BY <1>1, <2>1 DEF ScanDir, TypeOK, Place
  <2>7. TypeOK'
    BY <1>1, <2>4, <2>5, <2>6 DEF ScanDir, TypeOK, logVars, handlerVars
  <2>8. MutexInv'
    <3>1. mutex # Scanner
      BY <1>1 DEF ScanDir, MutexInv
    <3>2. \A g \in Goroutine : g # Scanner => todo'[g] = todo[g]
      BY <1>1 DEF ScanDir, TypeOK
    <3> QED
      BY <1>1, <3>1, <3>2 DEF ScanDir, MutexInv, TypeOK, logVars
  <2> QED
    BY <2>7, <2>8
<1>2. CASE AddWork
  <2>1. todo[Scanner] \in Seq(Op) /\ todo[Scanner] # <<>> /\ Head(todo[Scanner]) = "add"
    BY <1>2 DEF AddWork, Doing, TypeOK
  <2>2. todo' \in [Goroutine -> Seq(Op)]
    BY <1>2, <2>1, TailType DEF AddWork, TypeOK
  <2>3. workQ' \in Seq(Place) /\ Len(workQ') <= WorkCap
    BY <1>2, ProcessAssumption DEF AddWork, TypeOK
  <2>4. TypeOK'
    BY <1>2, <2>2, <2>3 DEF AddWork, TypeOK, scanVars, logVars, handlerVars
  <2>5. MutexInv'
    <3>1. mutex # Scanner
      BY <2>1 DEF MutexInv, Status
    <3> QED
      BY <1>2, <3>1 DEF AddWork, MutexInv, TypeOK, logVars
  <2> QED
    BY <2>4, <2>5
<1>3. CASE EndWork
  <2>1. workQ' \in Seq(Place) /\ Len(workQ') <= WorkCap
    BY <1>3, ProcessAssumption DEF EndWork, TypeOK, Place
  <2>2. pills' \in Nat
    BY <1>3 DEF EndWork, TypeOK
  <2> QED
    BY <1>3, <2>1, <2>2 DEF EndWork, TypeOK, MutexInv, logVars, handlerVars
<1> QED
  BY <1>1, <1>2, <1>3

LEMMA WorkerTypes ==
  ASSUME NEW w \in Workers, TypeOK, MutexInv,
         WorkerRecv(w) \/ WorkerSave(w) \/ PerfSend(w)
  PROVE  TypeOK' /\ MutexInv'
<1> USE Names
<1>0. w \in Goroutine /\ w # Main
  BY Names
<1>1. CASE WorkerRecv(w)
  <2> DEFINE item == Head(workQ)
  <2>1. workQ \in Seq(Place) /\ workQ # <<>> /\ todo[w] = <<>>
    BY <1>1 DEF WorkerRecv, TypeOK
  <2>2. item \in Place /\ Tail(workQ) \in Seq(Place) /\ Len(Tail(workQ)) <= WorkCap
    BY <2>1, TailType, ProcessAssumption DEF TypeOK
  <2>3. todo' \in [Goroutine -> Seq(Op)]
    BY <1>0, <1>1, JobsType DEF WorkerRecv, TypeOK
  <2>4. at' \in [Goroutine -> Place]
    BY <1>0, <1>1, <2>2 DEF WorkerRecv, TypeOK
  <2>5. taken' \in [Dirs -> Nat]
    <3>1. taken \in [Dirs -> Nat]
      BY DEF TypeOK
    <3>2. CASE taken' = taken
      BY <3>1, <3>2
    <3>3. CASE item # Nil /\ taken' = [taken EXCEPT ![item] = @ + 1]
      <4>1. item \in Dirs /\ taken[item] + 1 \in Nat
        BY <2>2, <3>1, <3>3 DEF Place
      <4> QED
        BY <3>1, <3>3, <4>1
    <3> QED
      BY <1>1, <3>2, <3>3 DEF WorkerRecv
  <2>6. active' \subseteq Workers
    BY <1>1 DEF WorkerRecv, TypeOK
  <2>7. TypeOK'
    BY <1>1, <2>2, <2>3, <2>4, <2>5, <2>6 DEF WorkerRecv, TypeOK, scanVars, logVars, handlerVars
  <2>8. MutexInv'
    <3>1. mutex # w
      BY <1>0, <2>1 DEF MutexInv
    <3>2. \A g \in Goroutine : g # w => todo'[g] = todo[g]
      BY <1>1 DEF WorkerRecv, TypeOK
    <3> QED
      BY <1>0, <1>1, <3>1, <3>2 DEF WorkerRecv, MutexInv, TypeOK, logVars
  <2> QED
    BY <2>7, <2>8
<1>2. CASE WorkerSave(w) \/ PerfSend(w)
  <2>1. todo[w] \in Seq(Op) /\ todo[w] # <<>> /\ Head(todo[w]) \in {"save", "perf"}
    BY <1>0, <1>2 DEF WorkerSave, PerfSend, Doing, TypeOK
  <2>2. todo' = [todo EXCEPT ![w] = Tail(@)]
    BY <1>2 DEF WorkerSave, PerfSend
  <2>3. todo' \in [Goroutine -> Seq(Op)]
    BY <1>0, <2>1, <2>2, TailType DEF TypeOK
  <2>4. saved' \subseteq Place
    BY <1>0, <1>2 DEF WorkerSave, PerfSend, TypeOK
  <2>5. perfQ' \in 0..PerfCap
    BY <1>2, ProcessAssumption DEF WorkerSave, PerfSend, TypeOK
  <2>6. TypeOK'
    BY <1>2, <2>3, <2>4, <2>5 DEF WorkerSave, PerfSend, TypeOK, scanVars, logVars, handlerVars
  <2>7. MutexInv'
    <3>1. mutex # w
      BY <1>0, <2>1 DEF MutexInv, Status
    <3>2. mutex' = mutex /\ main' = main
      BY <1>2 DEF WorkerSave, PerfSend, logVars
    <3> QED
      BY <1>0, <2>2, <3>1, <3>2 DEF MutexInv, TypeOK
  <2> QED
    BY <2>6, <2>7
<1> QED
  BY <1>1, <1>2

LEMMA MainTypes ==
  ASSUME TypeOK, MutexInv,
         OpenStore \/ WaitWorkers \/ FinishStore \/ CloseLog \/ ExitCode
  PROVE  TypeOK' /\ MutexInv'
<1> USE Names
<1>1. <<>> \in Seq(Op) /\ <<"PNC">> \in Seq(Op)
  BY DEF Op, Status
<1>2. CASE OpenStore
  <2>1. NumWorkers \in Nat
    BY ProcessAssumption, FS_CardinalityType DEF NumWorkers
  <2>2. stack' \in Seq(Pending) /\ pills' \in Nat /\ active' \subseteq Workers
    BY <1>2, <2>1, RootsType DEF OpenStore, TypeOK
  <2>3. todo' \in [Goroutine -> Seq(Op)]
    BY <1>1, <1>2 DEF OpenStore, TypeOK
  <2>4. TypeOK'
    BY <1>2, <2>2, <2>3 DEF OpenStore, TypeOK, logVars, handlerVars
  <2>5. MutexInv'
    <3>1. mutex # Main
      BY <1>2 DEF OpenStore, MutexInv
    <3> QED
      BY <1>2, <3>1 DEF OpenStore, MutexInv, TypeOK, logVars
  <2> QED
    BY <2>4, <2>5
<1>3. CASE WaitWorkers
  BY <1>3 DEF WaitWorkers, TypeOK, MutexInv, scanVars, logVars, handlerVars
<1>4. CASE FinishStore
  <2>1. TypeOK'
    <3>1. todo' \in [Goroutine -> Seq(Op)]
      BY <1>1, <1>4 DEF FinishStore, TypeOK
    <3> QED
      BY <1>4, <3>1 DEF FinishStore, TypeOK, scanVars, logVars, handlerVars
  <2>2. mutex # Main
    BY <1>4 DEF FinishStore, MutexInv
  <2>3. MutexInv'
    BY <1>4, <2>2 DEF FinishStore, MutexInv, TypeOK, logVars
  <2> QED
    BY <2>1, <2>3
<1>5. CASE CloseLog
  <2>1. logQ' \in Seq(Event \cup {Nil}) /\ Len(logQ') <= LogCap
    BY <1>5, ProcessAssumption DEF CloseLog, TypeOK
  <2> QED
    BY <1>5, <2>1 DEF CloseLog, TypeOK, MutexInv, scanVars, handlerVars
<1>6. CASE ExitCode
  BY <1>6 DEF ExitCode, TypeOK, MutexInv, scanVars, logVars, handlerVars
<1> QED
  BY <1>2, <1>3, <1>4, <1>5, <1>6

LEMMA HandlerTypes ==
  ASSUME TypeOK, MutexInv, HandleLog \/ HandlePerf \/ HandleAbort \/ Interrupt
  PROVE  TypeOK' /\ MutexInv'
<1> USE Names
<1>1. CASE HandleLog
  <2>1. logQ \in Seq(Event \cup {Nil}) /\ logQ # <<>>
    BY <1>1 DEF HandleLog, TypeOK
  <2>2. Head(logQ) \in Event \cup {Nil} /\ Tail(logQ) \in Seq(Event \cup {Nil})
        /\ Len(Tail(logQ)) <= LogCap
    BY <2>1, TailType, ProcessAssumption DEF TypeOK
  <2>3. /\ handled' \subseteq Event /\ shown' \in [Status -> Nat] /\ handler' \in {"run", "done"}
        /\ logQ' = Tail(logQ)
    <3>1. CASE Head(logQ) = Nil
      BY <1>1, <3>1 DEF HandleLog, TypeOK
    <3>2. CASE Head(logQ) # Nil
      <4>1. Head(logQ) \in Event /\ Head(logQ).stat \in Status
        BY <2>2, <3>2 DEF Event
      <4> DEFINE e == Head(logQ)
      <4>2. /\ handled' = handled \cup {e} /\ handler' = handler /\ logQ' = Tail(logQ)
            /\ shown' = [shown EXCEPT ![e.stat] = @ + 1]
        BY <1>1, <3>2 DEF HandleLog
      <4>3. handled \subseteq Event /\ shown \in [Status -> Nat] /\ handler \in {"run", "done"}
        BY DEF TypeOK
      <4>4. e \in Event /\ e.stat \in Status
        BY <4>1
      <4> HIDE DEF e
      <4>5. shown' \in [Status -> Nat]
        BY <4>2, <4>3, <4>4
      <4> QED
        BY <4>2, <4>3, <4>4, <4>5
    <3> QED
      BY <3>1, <3>2
  <2>4. TypeOK'
    BY <1>1, <2>2, <2>3 DEF HandleLog, TypeOK, scanVars
  <2>5. MutexInv'
    BY <1>1 DEF HandleLog, MutexInv
  <2> QED
    BY <2>4, <2>5
<1>2. CASE HandlePerf
  <2>1. perfQ' \in 0..PerfCap
    BY <1>2, ProcessAssumption DEF HandlePerf, TypeOK
  <2> QED
    BY <1>2, <2>1 DEF HandlePerf, TypeOK, MutexInv, scanVars, logVars, handlerVars
<1>3. CASE HandleAbort
  <2>1. main' \in {main, "killed"} /\ doAbort' \in BOOLEAN /\ abortChan' = 0
    BY <1>3 DEF HandleAbort, TypeOK
  <2>2. TypeOK'
    BY <1>3, <2>1 DEF HandleAbort, TypeOK, scanVars, logVars
  <2>3. MutexInv'
    BY <1>3, <2>1 DEF HandleAbort, MutexInv, logVars
  <2> QED
    BY <2>2, <2>3
<1>4. CASE Interrupt
  BY <1>4 DEF Interrupt, TypeOK, MutexInv, scanVars, logVars
<1> QED
  BY <1>1, <1>2, <1>3, <1>4

LEMMA TypeInit == Init => TypeOK /\ MutexInv
<1> SUFFICES ASSUME Init
             PROVE  TypeOK /\ MutexInv
  OBVIOUS
<1>1. TypeOK
  <2>1. stack \in Seq(Pending) /\ todo \in [Goroutine -> Seq(Op)]
    BY DEF Init
  <2>2. workQ \in Seq(Place) /\ Len(workQ) <= WorkCap
        /\ logQ \in Seq(Event \cup {Nil}) /\ Len(logQ) <= LogCap
    BY ProcessAssumption DEF Init
  <2>3. perfQ \in 0..PerfCap /\ count \in [Counter -> Nat] /\ taken \in [Dirs -> Nat]
        /\ shown \in [Status -> Nat] /\ at \in [Goroutine -> Place]
    BY ProcessAssumption DEF Init, Place
  <2>4. handled \subseteq Event /\ reported \subseteq Event /\ unreadable \subseteq Dirs
        /\ saved \subseteq Place /\ active \subseteq Workers /\ mutex \in Goroutine \cup {Nil}
    BY DEF Init
  <2>5. main = "open" /\ pills = 0 /\ signals = 0 /\ doAbort \in BOOLEAN /\ abortChan = 0
        /\ handler = "run"
    BY DEF Init
  <2> QED
    BY <2>1, <2>2, <2>3, <2>4, <2>5 DEF TypeOK
<1>2. MutexInv
  BY Names DEF Init, MutexInv
<1> QED
  BY <1>1, <1>2

LEMMA TypeNext == TypeOK /\ MutexInv /\ [Next]_vars => TypeOK' /\ MutexInv'
<1> SUFFICES ASSUME TypeOK, MutexInv, [Next]_vars
             PROVE  TypeOK' /\ MutexInv'
  OBVIOUS
<1>1. CASE ScannerNext
  BY <1>1, Names, ScannerTypes, LogTypes DEF ScannerNext
<1>2. ASSUME NEW w \in Workers, WorkerNext(w)
      PROVE  TypeOK' /\ MutexInv'
  BY <1>2, Names, WorkerTypes, LogTypes DEF WorkerNext
<1>3. CASE MainNext
  BY <1>3, Names, MainTypes, LogTypes DEF MainNext
<1>4. CASE HandleLog \/ HandlePerf \/ HandleAbort \/ Interrupt
  BY <1>4, HandlerTypes
<1>5. CASE UNCHANGED vars
  BY <1>5 DEF vars, scanVars, logVars, handlerVars, TypeOK, MutexInv
<1> QED
  BY <1>1, <1>2, <1>3, <1>4, <1>5 DEF Next, Done

\* Type correctness, and with it that no channel exceeds its capacity and no
\* more nils are sent than there are workers.
THEOREM TypeCorrect == Spec => []TypeOK
<1>1. Spec => [](TypeOK /\ MutexInv)
  BY TypeInit, TypeNext, PTL DEF Spec
<1> QED
  BY <1>1, PTL

-----------------------------------------------------------------------------
(* The closing protocol of LogQueue                                        *)

\* A worker leaves only when it has nothing left to do, and the main goroutine
\* gets past WaitGroup.Wait only when all have left.
LEMMA JoinNext ==
  ASSUME TypeOK, MutexInv, JoinInv, [Next]_vars
  PROVE  JoinInv'
<1> USE Names DEF JoinInv
<1>1. CASE ScanDir \/ AddWork \/ EndWork
  BY <1>1 DEF ScanDir, AddWork, EndWork, TypeOK
<1>2. ASSUME NEW g \in Goroutine, LogLock(g) \/ LogSend(g)
      PROVE  JoinInv'
  <2>1. CASE LogLock(g)
    BY <2>1 DEF LogLock
  <2>2. CASE LogSend(g)
    <3>1. todo[g] # <<>>
      BY <2>2 DEF LogSend, MutexInv
    <3> QED
      BY <2>2, <3>1 DEF LogSend, TypeOK
  <2> QED
    BY <1>2, <2>1, <2>2
<1>3. ASSUME NEW w \in Workers, WorkerRecv(w)
      PROVE  JoinInv'
  BY <1>3 DEF WorkerRecv, TypeOK
<1>4. ASSUME NEW w \in Workers, WorkerSave(w) \/ PerfSend(w)
      PROVE  JoinInv'
  <2>1. todo[w] # <<>> /\ w \in active
    BY <1>4 DEF WorkerSave, PerfSend, Doing
  <2> QED
    BY <1>4, <2>1 DEF WorkerSave, PerfSend, TypeOK
<1>5. CASE OpenStore
  BY <1>5 DEF OpenStore, TypeOK
<1>6. CASE WaitWorkers \/ FinishStore \/ CloseLog \/ ExitCode
  BY <1>6 DEF WaitWorkers, FinishStore, CloseLog, ExitCode, TypeOK
<1>7. CASE HandleLog \/ HandlePerf \/ HandleAbort \/ Interrupt
  BY <1>7 DEF HandleLog, HandlePerf, HandleAbort, Interrupt
<1>8. CASE UNCHANGED vars
  BY <1>8 DEF vars
<1> QED
  BY <1>1, <1>2, <1>3, <1>4, <1>5, <1>6, <1>7, <1>8
     DEF Next, ScannerNext, WorkerNext, MainNext, Done

\* What does not touch the log keeps the protocol.
LEMMA CloseFrame ==
  ASSUME CloseInv, UNCHANGED <<logQ, handler, handled, reported>>,
         LogClosed => /\ main' \in {"join", "exit0", "exit1", "killed"}
                      /\ active' = {} /\ todo'[Main] = <<>>
  PROVE  CloseInv'
BY DEF CloseInv, LogClosed

\* A worker or the main goroutine that sends an event has not seen the log
\* closed; the event joins the end of the queue.
LEMMA CloseLogSend ==
  ASSUME NEW g \in Goroutine, TypeOK, MutexInv, JoinInv, CloseInv, LogSend(g)
  PROVE  CloseInv'
<1> DEFINE e == [from |-> g, dir |-> at[g], stat |-> Head(todo[g])]
<1>1. todo[g] # <<>> /\ Head(todo[g]) \in Status
  BY Names DEF LogSend, MutexInv
<1>2. e \in Event /\ e # Nil /\ e.from = g
  BY <1>1, Names DEF Event, TypeOK
<1>3. LogClosed => g = Scanner
  BY <1>1 DEF CloseInv, JoinInv, Goroutine
<1>4. /\ logQ \in Seq(Event \cup {Nil}) /\ logQ' = Append(logQ, e)
      /\ reported' = reported \cup {e}
      /\ handler' = handler /\ handled' = handled /\ main' = main /\ active' = active
  BY DEF LogSend, TypeOK, handlerVars
<1>5. /\ DOMAIN logQ = 1..Len(logQ) /\ DOMAIN logQ' = 1..Len(logQ)+1 /\ Len(logQ) \in Nat
      /\ \A i \in 1..Len(logQ) : logQ'[i] = logQ[i]
      /\ logQ'[Len(logQ)+1] = e
  BY <1>2, <1>4, AppendProperties, LenProperties
<1>6. LogClosed' => LogClosed
  BY <1>2, <1>4, <1>5 DEF LogClosed
<1>7. LogClosed' => /\ main' \in {"join", "exit0", "exit1", "killed"}
                    /\ active' = {} /\ todo'[Main] = <<>>
  <2> SUFFICES ASSUME LogClosed'
               PROVE  /\ main' \in {"join", "exit0", "exit1", "killed"}
                      /\ active' = {} /\ todo'[Main] = <<>>
    OBVIOUS
  <2>1. g # Main
    BY <1>3, <1>6, Names
  <2> QED
    BY <1>4, <1>6, <2>1, Names DEF LogSend, CloseInv, TypeOK
<1>8. handler' = "done" =>
        \A j \in DOMAIN logQ' : logQ'[j] # Nil /\ logQ'[j].from = Scanner
  BY <1>2, <1>3, <1>4, <1>5 DEF CloseInv, LogClosed
<1>9. \A i, j \in DOMAIN logQ' :
        i < j /\ logQ'[i] = Nil => logQ'[j] # Nil /\ logQ'[j].from = Scanner
  BY <1>2, <1>3, <1>5 DEF CloseInv, LogClosed
<1>10. \A f \in reported' : f \in handled' \/ \E i \in DOMAIN logQ' : logQ'[i] = f
  BY <1>4, <1>5 DEF CloseInv
<1> QED
  BY <1>7, <1>8, <1>9, <1>10 DEF CloseInv

\* The nil is the first one, and the main goroutine has nothing left to log.
LEMMA CloseCloseLog ==
  ASSUME TypeOK, JoinInv, CloseInv, CloseLog
  PROVE  CloseInv'
<1>1. /\ logQ \in Seq(Event \cup {Nil}) /\ logQ' = Append(logQ, Nil)
      /\ reported' = reported /\ handler' = handler /\ handled' = handled
      /\ main = "close" /\ main' = "join" /\ active' = active /\ active = {}
      /\ todo' = todo /\ todo[Main] = <<>>
  BY DEF CloseLog, TypeOK, handlerVars, JoinInv
<1>2. /\ DOMAIN logQ = 1..Len(logQ) /\ DOMAIN logQ' = 1..Len(logQ)+1 /\ Len(logQ) \in Nat
      /\ \A i \in 1..Len(logQ) : logQ'[i] = logQ[i]
      /\ logQ'[Len(logQ)+1] = Nil
  BY <1>1, AppendProperties, LenProperties
<1>3. ~LogClosed
  BY <1>1 DEF CloseInv
<1>4. handler' # "done" /\ \A i \in 1..Len(logQ) : logQ'[i] # Nil
  BY <1>1, <1>2, <1>3 DEF LogClosed
<1>5. \A i, j \in DOMAIN logQ' :
        i < j /\ logQ'[i] = Nil => logQ'[j] # Nil /\ logQ'[j].from = Scanner
  BY <1>2, <1>4
<1>6. \A f \in reported' : f \in handled' \/ \E i \in DOMAIN logQ' : logQ'[i] = f
  BY <1>1, <1>2 DEF CloseInv
<1> QED
  BY <1>1, <1>4, <1>5, <1>6 DEF CloseInv, LogClosed

\* The handler takes the oldest event; if it is the nil, the queue holds only
\* the scanner's events.
LEMMA CloseHandleLog ==
  ASSUME TypeOK, CloseInv, HandleLog
  PROVE  CloseInv'
<1>1. /\ logQ \in Seq(Event \cup {Nil}) /\ logQ # <<>> /\ logQ' = Tail(logQ)
      /\ reported' = reported /\ reported \subseteq Event
      /\ main' = main /\ active' = active /\ todo' = todo /\ handler = "run"
  BY DEF HandleLog, TypeOK
<1>2. /\ DOMAIN logQ = 1..Len(logQ) /\ DOMAIN logQ' = 1..Len(logQ)-1 /\ Len(logQ) \in Nat \ {0}
      /\ \A i \in 1..Len(logQ)-1 : logQ'[i] = logQ[i+1]
      /\ Head(logQ) = logQ[1]
  BY <1>1, HeadTailProperties, LenProperties, EmptySeq
<1>3. LogClosed' => LogClosed
  BY <1>1, <1>2 DEF LogClosed, HandleLog
<1>4. handler' = "done" =>
        \A j \in DOMAIN logQ' : logQ'[j] # Nil /\ logQ'[j].from = Scanner
  <2> SUFFICES ASSUME handler' = "done", NEW j \in DOMAIN logQ'
               PROVE  logQ'[j] # Nil /\ logQ'[j].from = Scanner
    OBVIOUS
  <2>1. logQ[1] = Nil
    BY <1>1, <1>2 DEF HandleLog
  <2>2. j + 1 \in DOMAIN logQ /\ 1 < j + 1 /\ 1 \in DOMAIN logQ /\ logQ'[j] = logQ[j + 1]
    BY <1>2
  <2> QED
    BY <2>1, <2>2 DEF CloseInv
<1>5. \A i, j \in DOMAIN logQ' :
        i < j /\ logQ'[i] = Nil => logQ'[j] # Nil /\ logQ'[j].from = Scanner
  <2> TAKE i, j \in DOMAIN logQ'
  <2>1. /\ i + 1 \in DOMAIN logQ /\ j + 1 \in DOMAIN logQ
        /\ logQ'[i] = logQ[i + 1] /\ logQ'[j] = logQ[j + 1] /\ (i < j => i + 1 < j + 1)
    BY <1>2
  <2> QED
    BY <2>1 DEF CloseInv
<1>6. \A f \in reported' : f \in handled' \/ \E i \in DOMAIN logQ' : logQ'[i] = f
  <2> SUFFICES ASSUME NEW f \in reported, f \notin handled'
               PROVE  \E i \in DOMAIN logQ' : logQ'[i] = f
    BY <1>1
  <2>1. f # Nil /\ f \notin handled /\ logQ[1] # f
    BY <1>1, <1>2, Names DEF HandleLog
  <2>2. PICK i \in DOMAIN logQ : logQ[i] = f
    BY <2>1 DEF CloseInv
  <2>3. i - 1 \in DOMAIN logQ' /\ logQ'[i - 1] = f
    BY <1>2, <2>1, <2>2
  <2> QED
    BY <2>3
<1> QED
  BY <1>1, <1>3, <1>4, <1>5, <1>6 DEF CloseInv

LEMMA CloseNext ==
  ASSUME TypeOK, MutexInv, JoinInv, CloseInv, [Next]_vars
  PROVE  CloseInv'
<1> USE Names
<1>1. CASE ScanDir \/ AddWork \/ EndWork
  <2>1. todo'[Main] = todo[Main]
    BY <1>1 DEF ScanDir, AddWork, EndWork, TypeOK
  <2> QED
    BY <1>1, <2>1, CloseFrame
       DEF ScanDir, AddWork, EndWork, CloseInv, logVars, handlerVars
<1>2. ASSUME NEW g \in Goroutine, LogLock(g)
      PROVE  CloseInv'
  BY <1>2, CloseFrame DEF LogLock, CloseInv, handlerVars
<1>3. ASSUME NEW w \in Workers, WorkerRecv(w)
      PROVE  CloseInv'
  <2>1. ~LogClosed
    BY <1>3 DEF WorkerRecv, CloseInv
  <2> QED
    BY <1>3, <2>1, CloseFrame DEF WorkerRecv, logVars, handlerVars
<1>4. ASSUME NEW w \in Workers, WorkerSave(w) \/ PerfSend(w)
      PROVE  CloseInv'
  <2>1. todo'[Main] = todo[Main]
    BY <1>4 DEF WorkerSave, PerfSend, TypeOK
  <2> QED
    BY <1>4, <2>1, CloseFrame DEF WorkerSave, PerfSend, CloseInv, logVars, handlerVars
<1>5. CASE OpenStore \/ WaitWorkers \/ FinishStore
  <2>1. ~LogClosed
    BY <1>5 DEF OpenStore, WaitWorkers, FinishStore, CloseInv
  <2> QED
    BY <1>5, <2>1, CloseFrame DEF OpenStore, WaitWorkers, FinishStore, logVars, handlerVars
<1>6. CASE ExitCode
  <2>1. /\ UNCHANGED <<logQ, handler, handled, reported, active, todo>>
        /\ main' \in {"exit0", "exit1"}
    BY <1>6 DEF ExitCode, logVars, handlerVars
  <2> QED
    BY <2>1, CloseFrame DEF CloseInv
<1>7. CASE HandlePerf \/ HandleAbort \/ Interrupt
  <2>1. main' \in {main, "killed"}
    BY <1>7 DEF HandlePerf, HandleAbort, Interrupt
  <2> QED
    BY <1>7, <2>1, CloseFrame
       DEF HandlePerf, HandleAbort, Interrupt, CloseInv, logVars, handlerVars
<1>8. CASE UNCHANGED vars
  BY <1>8, CloseFrame DEF vars, logVars, handlerVars, CloseInv
<1> QED
  BY <1>1, <1>2, <1>3, <1>4, <1>5, <1>6, <1>7, <1>8,
     CloseLogSend, CloseCloseLog, CloseHandleLog
     DEF Next, ScannerNext, WorkerNext, MainNext, Done

\* Nothing changes the lists of the handler after the exit code was derived.
LEMMA ExitNext ==
  ASSUME TypeOK, ExitInv, [Next]_vars
  PROVE  ExitInv'
<1> USE DEF ExitInv, DmgList, ErrList
<1>1. CASE ExitCode
  <2>1. handler' = handler /\ handled' = handled /\ handler = "done"
    BY <1>1 DEF ExitCode, handlerVars
  <2> QED
    BY <1>1, <2>1 DEF ExitCode
<1>2. CASE main' = main /\ UNCHANGED <<handler, handled>>
  BY <1>2
<1>3. CASE main' \notin {"exit0", "exit1"}
  BY <1>3
<1>4. CASE HandleLog
  BY <1>4 DEF HandleLog, Exited
<1>5. \/ ExitCode \/ HandleLog
      \/ main' = main /\ UNCHANGED <<handler, handled>>
      \/ main' \notin {"exit0", "exit1"}
  <2>1. ASSUME ScannerNext
        PROVE  main' = main /\ UNCHANGED <<handler, handled>>
    BY <2>1 DEF ScannerNext, ScanDir, AddWork, EndWork, LogLock, LogSend, handlerVars
  <2>2. ASSUME NEW w \in Workers, WorkerNext(w)
        PROVE  main' = main /\ UNCHANGED <<handler, handled>>
    BY <2>2 DEF WorkerNext, WorkerRecv, WorkerSave, PerfSend, LogLock, LogSend, handlerVars
  <2>3. CASE MainNext
    BY <2>3 DEF MainNext, OpenStore, WaitWorkers, FinishStore, CloseLog, LogLock,
                LogSend, handlerVars
  <2>4. ASSUME HandlePerf \/ HandleAbort \/ Interrupt
        PROVE  \/ main' = main /\ UNCHANGED <<handler, handled>>
               \/ main' = "killed"
    BY <2>4 DEF HandlePerf, HandleAbort, Interrupt, handlerVars
  <2>5. CASE UNCHANGED vars
    BY <2>5 DEF vars, handlerVars
  <2> QED
    BY <2>1, <2>2, <2>3, <2>4, <2>5 DEF Next, Done
<1> QED
  BY <1>1, <1>2, <1>3, <1>4, <1>5

LEMMA LogInit == Init => LogInv
<1> SUFFICES ASSUME Init
             PROVE  LogInv
  OBVIOUS
<1>1. MutexInv
  BY TypeInit
<1>2. JoinInv
  BY Names DEF Init, JoinInv
<1>3. CloseInv
  BY DEF Init, CloseInv, LogClosed
<1>4. ExitInv
  BY DEF Init, ExitInv
<1> QED
  BY <1>1, <1>2, <1>3, <1>4 DEF LogInv

\* The closing protocol of LogQueue is an invariant.
THEOREM LogProtocol == Spec => [](TypeOK /\ LogInv)
<1>1. Init => TypeOK /\ LogInv
  BY TypeInit, LogInit
<1>2. TypeOK /\ LogInv /\ [Next]_vars => TypeOK' /\ LogInv'
  BY TypeNext, JoinNext, CloseNext, ExitNext DEF LogInv
<1> QED
  BY <1>1, <1>2, PTL DEF Spec

\* The store is never finished beside a Save.
THEOREM FinishAfterSaves == Spec => NoSaveAfterJoin
<1>1. TypeOK /\ LogInv /\ [Next]_vars => [saved' # saved => main = "run"]_vars
  <2> SUFFICES ASSUME LogInv, Next, saved' # saved
               PROVE  main = "run"
    BY DEF vars
  <2>1. PICK w \in Workers : ~Exited /\ WorkerSave(w)
    BY DEF Next, ScannerNext, WorkerNext, MainNext, Done, vars, ScanDir, AddWork,
           EndWork, WorkerRecv, PerfSend, LogLock, LogSend, OpenStore, WaitWorkers,
           FinishStore, CloseLog, ExitCode, HandleLog, HandlePerf, HandleAbort, Interrupt
  <2>2. w \in active
    BY <2>1 DEF LogInv, JoinInv, WorkerSave, Doing
  <2> QED
    BY <2>1, <2>2 DEF LogInv, JoinInv, Exited
<1> QED
  BY <1>1, LogProtocol, PTL DEF Spec, NoSaveAfterJoin

-----------------------------------------------------------------------------
(* What is left in WorkQueue                                               *)

\* While nobody asked for an abort, a worker leaves only for a nil: the last n
\* items of the queue are nils, and these and the nils still to be sent are as
\* many as the workers that are left.  Work is put in only before the first nil,
\* and a worker takes a nil only when all the work is taken.
ScanDone == stack = <<>> /\ todo[Scanner] = <<>>
NilInv ==
  ~doAbort =>
    \E n \in 0..Len(workQ) :
      /\ \A i \in 1..Len(workQ) : workQ[i] = Nil <=> i > Len(workQ) - n
      /\ Cardinality(active) = pills + n
      /\ active # Workers => n = Len(workQ)
ScanInv ==
  /\ todo[Scanner] # <<>> => at[Scanner] # Nil
  /\ ~doAbort /\ pills < NumWorkers => ScanDone
  /\ main = "open" => workQ = <<>> /\ pills = 0 /\ ScanDone

\* The workers are finitely many, and so are those that are left.
LEMMA WorkerCount ==
  ASSUME NEW A \in SUBSET Workers
  PROVE  /\ NumWorkers \in Nat \ {0} /\ Cardinality(A) \in 0..NumWorkers
         /\ Cardinality(A) = NumWorkers => A = Workers
         /\ \A w \in A : Cardinality(A \ {w}) = Cardinality(A) - 1
<1>1. IsFiniteSet(Workers) /\ Workers # {}
  BY ProcessAssumption
<1>2. NumWorkers \in Nat \ {0}
  BY <1>1, FS_CardinalityType, FS_EmptySet DEF NumWorkers
<1>3. IsFiniteSet(A) /\ Cardinality(A) <= NumWorkers /\ (Cardinality(A) = NumWorkers => A = Workers)
  BY <1>1, FS_Subset DEF NumWorkers
<1>4. Cardinality(A) \in Nat
  BY <1>3, FS_CardinalityType
<1>5. \A w \in A : Cardinality(A \ {w}) = Cardinality(A) - 1
  BY <1>3, FS_RemoveElement
<1> QED
  BY <1>2, <1>3, <1>4, <1>5

LEMMA ScanNext ==
  ASSUME TypeOK, MutexInv, ScanInv, [Next]_vars
  PROVE  ScanInv'
<1> USE Names DEF ScanInv, ScanDone
<1>0. NumWorkers \in Nat \ {0} /\ pills \in Nat
  BY WorkerCount DEF TypeOK
<1>1. CASE ScanDir
  <2>1. Head(stack).dir \in Dirs
    <3>1. stack \in Seq(Pending) /\ stack # <<>>
      BY <1>1 DEF ScanDir, TypeOK
    <3>2. Head(stack) \in Pending
      BY <3>1, TailType
    <3> QED
      BY <3>2 DEF Pending
  <2>2. at'[Scanner] # Nil
    BY <1>1, <2>1 DEF ScanDir, TypeOK
  <2>3. stack # <<>> /\ UNCHANGED <<pills, doAbort, main>>
    BY <1>1 DEF ScanDir, handlerVars
  <2> QED
    BY <2>2, <2>3
<1>2. CASE AddWork
  <2>1. todo[Scanner] # <<>> /\ UNCHANGED <<pills, doAbort, main, at>>
    BY <1>2 DEF AddWork, Doing, scanVars, handlerVars
  <2> QED
    BY <2>1
<1>3. CASE EndWork
  <2>1. ScanDone /\ ScanDone' /\ pills > 0 /\ UNCHANGED <<at, main>>
    BY <1>3 DEF EndWork
  <2> QED
    BY <1>0, <2>1
<1>4. ASSUME NEW g \in Goroutine, LogLock(g) \/ LogSend(g)
      PROVE  ScanInv'
  <2>1. /\ UNCHANGED <<pills, doAbort, main, at, stack, workQ>>
        /\ todo'[Scanner] # todo[Scanner] => todo[Scanner] # <<>>
    <3>1. CASE LogLock(g)
      BY <3>1 DEF LogLock, scanVars, handlerVars
    <3>2. CASE LogSend(g)
      BY <3>2 DEF LogSend, scanVars, handlerVars, TypeOK, MutexInv
    <3> QED
      BY <1>4, <3>1, <3>2
  <2> QED
    BY <1>0, <2>1
<1>5. ASSUME NEW w \in Workers, WorkerRecv(w) \/ WorkerSave(w) \/ PerfSend(w)
      PROVE  ScanInv'
  <2>1. /\ UNCHANGED <<pills, doAbort, main, stack>>
        /\ todo'[Scanner] = todo[Scanner] /\ at'[Scanner] = at[Scanner]
    BY <1>5 DEF WorkerRecv, WorkerSave, PerfSend, scanVars, handlerVars, TypeOK
  <2>2. workQ = <<>> => workQ' = <<>>
    BY <1>5 DEF WorkerRecv, WorkerSave, PerfSend
  <2> QED
    BY <2>1, <2>2
<1>6. CASE OpenStore
  <2>1. main' # "open" /\ todo'[Scanner] = todo[Scanner] /\ at' = at /\ doAbort' = doAbort
    BY <1>6 DEF OpenStore, handlerVars, TypeOK
  <2>2. \/ pills' = NumWorkers
        \/ UNCHANGED <<pills, stack>>
    BY <1>6 DEF OpenStore
  <2> QED
    BY <1>0, <2>1, <2>2
<1>7. CASE WaitWorkers \/ FinishStore \/ CloseLog \/ ExitCode
  <2>1. /\ main' # "open" /\ UNCHANGED <<at, doAbort, pills, stack>>
        /\ todo'[Scanner] = todo[Scanner]
    BY <1>7 DEF WaitWorkers, FinishStore, CloseLog, ExitCode, scanVars, handlerVars, TypeOK
  <2> QED
    BY <2>1
<1>8. CASE HandleLog \/ HandlePerf \/ HandleAbort \/ Interrupt
  <2>1. UNCHANGED <<at, pills, stack, todo, workQ>> /\ main' \in {main, "killed"}
    BY <1>8 DEF HandleLog, HandlePerf, HandleAbort, Interrupt, scanVars
  <2>2. ~doAbort' => ~doAbort
    BY <1>8 DEF HandleLog, HandlePerf, HandleAbort, Interrupt, handlerVars
  <2> QED
    BY <2>1, <2>2
<1>9. CASE UNCHANGED vars
  BY <1>9 DEF vars, scanVars, handlerVars
<1> QED
  BY <1>1, <1>2, <1>3, <1>4, <1>5, <1>6, <1>7, <1>8, <1>9
     DEF Next, ScannerNext, WorkerNext, MainNext, Done

\* What neither touches the queue nor the workers keeps it, and so does an abort.
LEMMA NilFrame ==
  ASSUME NilInv, UNCHANGED <<workQ, active, pills>>, ~doAbort' => ~doAbort
  PROVE  NilInv'
BY DEF NilInv

\* The scanner puts work in only while all the nils are still to be sent.
LEMMA NilAddWork ==
  ASSUME TypeOK, ScanInv, NilInv, AddWork
  PROVE  NilInv'
<1> USE Names
<1> SUFFICES ASSUME ~doAbort
             PROVE  NilInv'
  BY DEF NilInv, AddWork, handlerVars
<1>1. PICK n \in 0..Len(workQ) :
        /\ \A i \in 1..Len(workQ) : workQ[i] = Nil <=> i > Len(workQ) - n
        /\ Cardinality(active) = pills + n
        /\ active # Workers => n = Len(workQ)
  BY DEF NilInv
<1>2. /\ workQ \in Seq(Place) /\ workQ' = Append(workQ, at[Scanner])
      /\ at[Scanner] \in Place /\ at[Scanner] # Nil /\ todo[Scanner] # <<>>
      /\ UNCHANGED <<active, pills>> /\ active \subseteq Workers /\ pills \in Nat
  BY DEF AddWork, Doing, TypeOK, ScanInv, scanVars
<1>3. NumWorkers <= pills /\ NumWorkers \in Nat
  <2>1. ~(pills < NumWorkers)
    BY <1>2 DEF ScanInv, ScanDone
  <2>2. NumWorkers \in Nat
    BY WorkerCount
  <2> QED
    BY <1>2, <2>1, <2>2
<1>4. Cardinality(active) \in 0..NumWorkers /\ (Cardinality(active) = NumWorkers => active = Workers)
  BY <1>2, WorkerCount
<1>5. n = 0 /\ active = Workers
  BY <1>1, <1>2, <1>3, <1>4, LenProperties
<1>6. /\ Len(workQ) \in Nat /\ Len(workQ') = Len(workQ) + 1
      /\ \A i \in 1..Len(workQ) : workQ'[i] = workQ[i]
      /\ workQ'[Len(workQ) + 1] = at[Scanner]
  BY <1>2, AppendProperties, LenProperties
<1>7. \A i \in 1..Len(workQ') : workQ'[i] # Nil
  BY <1>1, <1>2, <1>5, <1>6
<1>8. 0 \in 0..Len(workQ') /\ \A i \in 1..Len(workQ') : ~(i > Len(workQ') - 0)
  BY <1>6
<1> QED
  BY <1>1, <1>2, <1>5, <1>7, <1>8 DEF NilInv

LEMMA NilEndWork ==
  ASSUME TypeOK, NilInv, EndWork
  PROVE  NilInv'
<1> SUFFICES ASSUME ~doAbort
             PROVE  NilInv'
  BY DEF NilInv, EndWork, handlerVars
<1>1. PICK n \in 0..Len(workQ) :
        /\ \A i \in 1..Len(workQ) : workQ[i] = Nil <=> i > Len(workQ) - n
        /\ Cardinality(active) = pills + n
        /\ active # Workers => n = Len(workQ)
  BY DEF NilInv
<1>2. /\ workQ \in Seq(Place) /\ workQ' = Append(workQ, Nil) /\ Nil \in Place
      /\ pills \in Nat /\ pills' = pills - 1 /\ active' = active
  BY DEF EndWork, TypeOK, Place
<1>3. /\ Len(workQ) \in Nat /\ Len(workQ') = Len(workQ) + 1
      /\ \A i \in 1..Len(workQ) : workQ'[i] = workQ[i]
      /\ workQ'[Len(workQ) + 1] = Nil
  BY <1>2, AppendProperties, LenProperties
<1>4. \A i \in 1..Len(workQ') : workQ'[i] = Nil <=> i > Len(workQ') - (n + 1)
  BY <1>1, <1>3
<1>5. n + 1 \in 0..Len(workQ') /\ pills + n = pills' + (n + 1)
  BY <1>2, <1>3
<1> QED
  BY <1>1, <1>2, <1>3, <1>4, <1>5 DEF NilInv

\* A worker takes the first item, and leaves if it is a nil.
LEMMA NilWorkerRecv ==
  ASSUME NEW w \in Workers, TypeOK, NilInv, WorkerRecv(w)
  PROVE  NilInv'
<1> SUFFICES ASSUME ~doAbort
             PROVE  NilInv'
  BY DEF NilInv, WorkerRecv, handlerVars
<1>1. PICK n \in 0..Len(workQ) :
        /\ \A i \in 1..Len(workQ) : workQ[i] = Nil <=> i > Len(workQ) - n
        /\ Cardinality(active) = pills + n
        /\ active # Workers => n = Len(workQ)
  BY DEF NilInv
<1>2. /\ workQ \in Seq(Place) /\ workQ # <<>> /\ workQ' = Tail(workQ)
      /\ w \in active /\ active \subseteq Workers /\ pills \in Nat /\ pills' = pills
  BY DEF WorkerRecv, TypeOK, scanVars
<1>3. /\ Len(workQ) \in Nat \ {0} /\ Len(workQ') = Len(workQ) - 1 /\ Head(workQ) = workQ[1]
      /\ \A i \in 1..Len(workQ') : workQ'[i] = workQ[i + 1]
  BY <1>2, HeadTailProperties, LenProperties, EmptySeq
<1>4. CASE Head(workQ) = Nil
  <2>1. active' = active \ {w}
    BY <1>4 DEF WorkerRecv
  <2>2. n = Len(workQ)
    BY <1>1, <1>3, <1>4
  <2>3. Cardinality(active') = Cardinality(active) - 1
    BY <1>2, <2>1, WorkerCount
  <2>4. n - 1 = Len(workQ') /\ n - 1 \in 0..Len(workQ') /\ pills + n - 1 = pills' + (n - 1)
    BY <1>2, <1>3, <2>2
  <2>5. \A i \in 1..Len(workQ') : workQ'[i] = Nil <=> i > Len(workQ') - (n - 1)
    BY <1>1, <1>3, <2>2
  <2>6. Cardinality(active') = pills' + (n - 1)
    BY <1>1, <1>2, <2>3
  <2> QED
    BY <2>4, <2>5, <2>6 DEF NilInv
<1>5. CASE Head(workQ) # Nil
  <2>1. active' = active
    BY <1>5 DEF WorkerRecv, AbortRead
  <2>2. n < Len(workQ) /\ active = Workers
    BY <1>1, <1>3, <1>5
  <2>3. \A i \in 1..Len(workQ') : workQ'[i] = Nil <=> i > Len(workQ') - n
    BY <1>1, <1>3, <2>2
  <2>4. n \in 0..Len(workQ')
    BY <1>3, <2>2
  <2> QED
    BY <1>1, <1>2, <2>1, <2>2, <2>3, <2>4 DEF NilInv
<1> QED
  BY <1>4, <1>5

\* The workers start when nothing is in the queue.
LEMMA NilOpenStore ==
  ASSUME TypeOK, ScanInv, NilInv, OpenStore
  PROVE  NilInv'
<1>1. CASE UNCHANGED <<active, pills>>
  BY <1>1, NilFrame DEF OpenStore, handlerVars
<1>2. CASE active' = Workers /\ pills' = NumWorkers
  <2>1. workQ' = <<>> /\ Len(workQ') = 0
    BY DEF OpenStore, ScanInv
  <2>2. NumWorkers \in Nat
    BY WorkerCount
  <2>3. 0 \in 0..Len(workQ') /\ Cardinality(active') = pills' + 0
    BY <1>2, <2>1, <2>2 DEF NumWorkers
  <2>4. \A i \in 1..Len(workQ') : workQ'[i] = Nil <=> i > Len(workQ') - 0
    BY <2>1
  <2> QED
    BY <1>2, <2>1, <2>3, <2>4 DEF NilInv
<1> QED
  BY <1>1, <1>2 DEF OpenStore

LEMMA NilNext ==
  ASSUME TypeOK, ScanInv, NilInv, [Next]_vars
  PROVE  NilInv'
<1>1. CASE ScanDir
  BY <1>1, NilFrame DEF ScanDir, handlerVars
<1>2. ASSUME NEW g \in Goroutine, LogLock(g) \/ LogSend(g)
      PROVE  NilInv'
  BY <1>2, NilFrame DEF LogLock, LogSend, scanVars, handlerVars
<1>3. ASSUME NEW w \in Workers, WorkerSave(w) \/ PerfSend(w)
      PROVE  NilInv'
  BY <1>3, NilFrame DEF WorkerSave, PerfSend, scanVars, handlerVars
<1>4. CASE WaitWorkers \/ FinishStore \/ CloseLog \/ ExitCode
  BY <1>4, NilFrame DEF WaitWorkers, FinishStore, CloseLog, ExitCode, scanVars, handlerVars
<1>5. CASE HandleLog \/ HandlePerf \/ HandleAbort \/ Interrupt
  BY <1>5, NilFrame DEF HandleLog, HandlePerf, HandleAbort, Interrupt, scanVars, handlerVars
<1>6. CASE UNCHANGED vars
  BY <1>6, NilFrame DEF vars, scanVars, handlerVars
<1> QED
  BY <1>1, <1>2, <1>3, <1>4, <1>5, <1>6, NilAddWork, NilEndWork, NilWorkerRecv, NilOpenStore,
     Names DEF Next, ScannerNext, WorkerNext, MainNext, Done

LEMMA QueueInit == Init => ScanInv /\ NilInv
<1> SUFFICES ASSUME Init
             PROVE  ScanInv /\ NilInv
  OBVIOUS
<1>1. workQ = <<>> /\ Len(workQ) = 0 /\ active = {} /\ pills = 0
  BY DEF Init
<1>2. ScanInv
  BY Names DEF Init, ScanInv, ScanDone
<1>3. Cardinality(active) = pills + 0
  BY <1>1, FS_EmptySet
<1>4. 0 \in 0..Len(workQ) /\ \A i \in 1..Len(workQ) : workQ[i] = Nil <=> i > Len(workQ) - 0
  BY <1>1
<1> QED
  BY <1>1, <1>2, <1>3, <1>4 DEF NilInv

\* Without an abort the workers are joined only when all the nils are taken, and
\* then nothing is left to do.
LEMMA Drained == TypeOK /\ LogInv /\ ScanInv /\ NilInv => NothingLeftBehind
<1> SUFFICES ASSUME TypeOK, LogInv, ScanInv, NilInv, ~doAbort,
                    main \in {"finish", "close", "join", "exit0", "exit1"}
             PROVE  ScanDone /\ pills = 0 /\ workQ = <<>>
  BY DEF NothingLeftBehind, ScanDone
<1>1. active = {} /\ Cardinality(active) = 0
  BY FS_EmptySet DEF LogInv, JoinInv
<1>2. NumWorkers \in Nat \ {0} /\ active # Workers
  BY <1>1, WorkerCount, ProcessAssumption
<1>3. PICK n \in 0..Len(workQ) : 0 = pills + n /\ n = Len(workQ)
  BY <1>1, <1>2 DEF NilInv
<1>4. workQ \in Seq(Place) /\ pills \in Nat
  BY DEF TypeOK
<1>5. pills = 0 /\ workQ = <<>>
  BY <1>3, <1>4, LenProperties, EmptySeq
<1> QED
  BY <1>2, <1>5 DEF ScanInv

\* What the proofs above keep invariant together.
LEMMA DrainInv ==
  /\ Init => TypeOK /\ LogInv /\ ScanInv /\ NilInv
  /\ TypeOK /\ LogInv /\ ScanInv /\ NilInv /\ [Next]_vars
       => TypeOK' /\ LogInv' /\ ScanInv' /\ NilInv'
<1>1. Init => TypeOK /\ LogInv /\ ScanInv /\ NilInv
  BY TypeInit, LogInit, QueueInit
<1>2. TypeOK /\ LogInv /\ [Next]_vars => TypeOK' /\ LogInv'
  BY TypeNext, JoinNext, CloseNext, ExitNext DEF LogInv
<1>3. TypeOK /\ LogInv /\ ScanInv /\ NilInv /\ [Next]_vars => ScanInv' /\ NilInv'
  BY ScanNext, NilNext DEF LogInv
<1> QED
  BY <1>1, <1>2, <1>3

\* Without an abort the workers are joined only when the scanner is through and
\* the queue is empty: every nil was taken, and all the work before it.
THEOREM QueueDrained == Spec => []NothingLeftBehind
  BY DrainInv, Drained, PTL DEF Spec

-----------------------------------------------------------------------------
(* The end of LogQueue                                                     *)

\* Without an abort nothing follows the nil: when it is sent the scanner is
\* through as well, so that not even its events come late.
TailInv ==
  ~doAbort => /\ handler = "done" => logQ = <<>>
              /\ \A i \in DOMAIN logQ : logQ[i] = Nil => i = Len(logQ)

\* Whoever can still log while nobody asked for an abort does it before the nil.
LEMMA TailLogSend ==
  ASSUME NEW g \in Goroutine, TypeOK, LogInv, NothingLeftBehind, TailInv,
         ~Exited, LogSend(g)
  PROVE  TailInv'
<1> USE Names
<1> DEFINE e == [from |-> g, dir |-> at[g], stat |-> Head(todo[g])]
<1> SUFFICES ASSUME ~doAbort
             PROVE  TailInv'
  BY DEF TailInv, LogSend, handlerVars
<1>1. todo[g] \in Seq(Op) /\ todo[g] # <<>> /\ Head(todo[g]) \in Status
  BY DEF LogSend, LogInv, MutexInv, TypeOK
<1>2. ~LogClosed
  <2> SUFFICES ASSUME LogClosed
               PROVE  todo[g] = <<>>
    BY <1>1
  <2>1. main = "join" /\ active = {} /\ todo[Main] = <<>>
    BY DEF LogInv, CloseInv, Exited
  <2>2. todo[Scanner] = <<>>
    BY <2>1 DEF NothingLeftBehind
  <2> QED
    BY <2>1, <2>2 DEF LogInv, JoinInv, Goroutine
<1>3. e \in Event
  BY <1>1 DEF Event, TypeOK
<1>4. logQ \in Seq(Event \cup {Nil}) /\ logQ' = Append(logQ, e) /\ handler' = handler
  BY DEF LogSend, handlerVars, TypeOK
<1>5. /\ DOMAIN logQ = 1..Len(logQ) /\ DOMAIN logQ' = 1..Len(logQ) + 1 /\ Len(logQ) \in Nat
      /\ \A i \in 1..Len(logQ) : logQ'[i] = logQ[i]
      /\ logQ'[Len(logQ) + 1] = e
  BY <1>3, <1>4, AppendProperties, LenProperties
<1>6. \A i \in DOMAIN logQ' : logQ'[i] # Nil
  BY <1>2, <1>3, <1>5 DEF LogClosed
<1> QED
  BY <1>2, <1>4, <1>6 DEF TailInv, LogClosed

LEMMA TailCloseLog ==
  ASSUME TypeOK, LogInv, TailInv, CloseLog
  PROVE  TailInv'
<1>1. ~LogClosed
  BY DEF CloseLog, LogInv, CloseInv
<1>2. logQ \in Seq(Event \cup {Nil}) /\ logQ' = Append(logQ, Nil) /\ handler' = handler
  BY DEF CloseLog, handlerVars, TypeOK
<1>3. /\ DOMAIN logQ = 1..Len(logQ) /\ DOMAIN logQ' = 1..Len(logQ) + 1 /\ Len(logQ) \in Nat
      /\ Len(logQ') = Len(logQ) + 1
      /\ \A i \in 1..Len(logQ) : logQ'[i] = logQ[i]
  BY <1>2, AppendProperties, LenProperties
<1>4. \A i \in DOMAIN logQ' : logQ'[i] = Nil => i = Len(logQ')
  BY <1>1, <1>3 DEF LogClosed
<1> QED
  BY <1>1, <1>2, <1>4 DEF TailInv, LogClosed

LEMMA TailHandleLog ==
  ASSUME TypeOK, TailInv, HandleLog
  PROVE  TailInv'
<1> SUFFICES ASSUME ~doAbort
             PROVE  TailInv'
  BY DEF TailInv, HandleLog
<1>1. logQ \in Seq(Event \cup {Nil}) /\ logQ # <<>> /\ logQ' = Tail(logQ)
  BY DEF HandleLog, TypeOK
<1>2. /\ Len(logQ) \in Nat \ {0} /\ Len(logQ') = Len(logQ) - 1 /\ Head(logQ) = logQ[1]
      /\ DOMAIN logQ = 1..Len(logQ) /\ DOMAIN logQ' = 1..Len(logQ')
      /\ \A i \in 1..Len(logQ') : logQ'[i] = logQ[i + 1]
      /\ logQ' \in Seq(Event \cup {Nil})
  BY <1>1, HeadTailProperties, LenProperties, EmptySeq
<1>3. \A i \in DOMAIN logQ' : logQ'[i] = Nil => i = Len(logQ')
  <2> SUFFICES ASSUME NEW i \in DOMAIN logQ', logQ'[i] = Nil
               PROVE  i = Len(logQ')
    OBVIOUS
  <2>1. i + 1 \in DOMAIN logQ /\ logQ[i + 1] = Nil
    BY <1>2
  <2> QED
    BY <1>2, <2>1 DEF TailInv
<1>4. handler' = "done" => logQ' = <<>>
  <2> SUFFICES ASSUME handler' = "done"
               PROVE  logQ' = <<>>
    OBVIOUS
  <2>1. logQ[1] = Nil /\ 1 \in DOMAIN logQ
    BY <1>2 DEF HandleLog
  <2>2. Len(logQ') = 0
    BY <1>2, <2>1 DEF TailInv
  <2> QED
    BY <1>2, <2>2, EmptySeq
<1> QED
  BY <1>3, <1>4 DEF TailInv

LEMMA TailNext ==
  ASSUME TypeOK, LogInv, NothingLeftBehind, TailInv, [Next]_vars
  PROVE  TailInv'
<1> USE Names
<1>1. CASE UNCHANGED <<logQ, handler>> /\ (~doAbort' => ~doAbort)
  BY <1>1 DEF TailInv
<1>2. \/ \E g \in Goroutine : ~Exited /\ LogSend(g)
      \/ CloseLog \/ HandleLog
      \/ UNCHANGED <<logQ, handler>> /\ (~doAbort' => ~doAbort)
  <2>1. ASSUME ScannerNext, ~LogSend(Scanner)
        PROVE  UNCHANGED <<logQ, handler, doAbort>>
    BY <2>1 DEF ScannerNext, ScanDir, AddWork, EndWork, LogLock, logVars, handlerVars
  <2>2. ASSUME NEW w \in Workers, WorkerNext(w), ~LogSend(w)
        PROVE  UNCHANGED <<logQ, handler, doAbort>>
    BY <2>2 DEF WorkerNext, WorkerRecv, WorkerSave, PerfSend, LogLock, logVars, handlerVars
  <2>3. ASSUME MainNext, ~LogSend(Main), ~CloseLog
        PROVE  UNCHANGED <<logQ, handler, doAbort>>
    BY <2>3 DEF MainNext, OpenStore, WaitWorkers, FinishStore, ExitCode, LogLock,
                logVars, handlerVars
  <2>4. ASSUME HandlePerf \/ HandleAbort \/ Interrupt
        PROVE  UNCHANGED <<logQ, handler>> /\ (~doAbort' => ~doAbort)
    BY <2>4 DEF HandlePerf, HandleAbort, Interrupt, logVars, handlerVars
  <2>5. CASE UNCHANGED vars
    BY <2>5 DEF vars, logVars, handlerVars
  <2>6. ScannerNext \/ MainNext \/ (\E w \in Workers : WorkerNext(w)) => ~Exited
    BY DEF ScannerNext, MainNext, WorkerNext
  <2> QED
    BY <2>1, <2>2, <2>3, <2>4, <2>5, <2>6 DEF Next, Done
<1> QED
  BY <1>1, <1>2, TailLogSend, TailCloseLog, TailHandleLog

\* The end of the queue is an invariant beside the protocol.
LEMMA TailHolds == Spec => [](TypeOK /\ LogInv /\ TailInv)
<1> DEFINE IInv == TypeOK /\ LogInv /\ ScanInv /\ NilInv /\ TailInv
<1>1. Init => IInv
  BY DrainInv DEF Init, TailInv
<1>2. IInv /\ [Next]_vars => IInv'
  BY DrainInv, Drained, TailNext
<1> QED
  BY <1>1, <1>2, PTL DEF Spec

\* Whatever the interleaving, the handler returns only after it has seen every
\* event that was logged; only after an abort the scanner's may come too late.
THEOREM EveryEventSeen == Spec => []NoEventLost
<1>1. TypeOK /\ LogInv /\ TailInv => NoEventLost
  <2> SUFFICES ASSUME TypeOK, LogInv, TailInv, handler = "done",
                      NEW e \in reported, e.from # Scanner \/ ~doAbort
               PROVE  e \in handled
    BY DEF NoEventLost
  <2>1. CASE e.from # Scanner
    BY <2>1 DEF LogInv, CloseInv
  <2>2. CASE ~doAbort
    BY <2>2 DEF LogInv, CloseInv, TailInv
  <2> QED
    BY <2>1, <2>2
<1> QED
  BY <1>1, TailHolds, PTL

\* Exit code 0 means that no damage and no error was logged, by nobody; only after
\* an abort the scanner may have met one.
THEOREM ExitCodeTrustworthy == Spec => []ExitCodeIsHonest
<1>1. TypeOK /\ LogInv /\ NoEventLost => ExitCodeIsHonest
  <2> SUFFICES ASSUME TypeOK, LogInv, NoEventLost, main = "exit0", ~ShowIgnoredOnly,
                      NEW e \in reported, e.from # Scanner \/ ~doAbort
               PROVE  e.stat \notin {"DMG", "PNC"}
    BY DEF ExitCodeIsHonest
  <2>1. e \in handled
    BY DEF LogInv, ExitInv, NoEventLost
  <2> QED
    BY <2>1 DEF LogInv, ExitInv, DmgList, ErrList
<1> QED
  BY <1>1, LogProtocol, EveryEventSeen, PTL

=============================================================================
