---------------------------- MODULE SummaryProofs ----------------------------
(***************************************************************************)
(* Proofs about Process, concluded: the summary at the end.  What the      *)
(* counters are ahead of the events the user was shown is in LogQueue or   *)
(* in the log call that holds the mutex, and at the end neither of the two *)
(* holds an event that is counted.  A directory is reported as updated     *)
(* once, by the worker that took it, and after its index was saved.        *)
(***************************************************************************)
EXTENDS CoverageProofs

EventsOf(stat) == {e \in Event : e.stat = stat}

\* the places of a queue that hold an element of T
Places(q, T) == {i \in DOMAIN q : q[i] \in T}

\* the places of LogQueue that hold such an event, and whether such an event is about
\* to be sent
Queued(stat) == Places(logQ, EventsOf(stat))
Sending(stat) == mutex # Nil /\ Head(todo[mutex]) = stat

\* how many such events were counted
Logged(stat) ==
  shown[stat] + Cardinality(Queued(stat)) + (IF Sending(stat) THEN 1 ELSE 0)

CountsLogged ==
  /\ count["NumTotal"] = Logged("DMG") + Logged("old") + Logged("upd") + Logged("new")
                           + (IF UpdateSkipCheck THEN 0 ELSE Logged("ok"))
  /\ count["NumNew"] = Logged("new")
  /\ count["NumUpd"] = Logged("old") + Logged("upd")
  /\ count["NumDel"] = Logged("del")
  /\ count["NumIdxUpd"] = Logged("xup")

\* The scanner and the main goroutine log nothing that is counted.
QuietOps ==
  /\ todo[Scanner] \in Seq({"PNC", "ign", "add"}) /\ todo[Main] \in Seq({"PNC"})
  /\ \A i \in DOMAIN logQ :
       logQ[i] # Nil /\ logQ[i].from = Scanner => logQ[i].stat \in {"PNC", "ign"}

CountInv == CountsLogged /\ QuietOps

-----------------------------------------------------------------------------
(* Places of a queue                                                       *)

\* A queue has finitely many places.
LEMMA PlacesFinite ==
  ASSUME NEW S, NEW q \in Seq(S), NEW T
  PROVE  /\ IsFiniteSet(Places(q, T))
         /\ Cardinality(Places(q, T)) \in Nat
<1>1. Len(q) \in Nat /\ DOMAIN q = 1..Len(q)
  BY LenProperties
<1>2. IsFiniteSet(1..Len(q))
  BY <1>1, FS_Interval
<1>3. Places(q, T) \subseteq 1..Len(q)
  BY <1>1 DEF Places
<1> QED
  BY <1>2, <1>3, FS_Subset, FS_CardinalityType

\* An element joins the end of a queue.
LEMMA PlacesAppend ==
  ASSUME NEW S, NEW q \in Seq(S), NEW e \in S, NEW T
  PROVE  Cardinality(Places(Append(q, e), T)) =
           Cardinality(Places(q, T)) + (IF e \in T THEN 1 ELSE 0)
<1> DEFINE P == Places(q, T)
           R == Places(Append(q, e), T)
<1>1. /\ Len(q) \in Nat /\ DOMAIN q = 1..Len(q)
      /\ DOMAIN Append(q, e) = 1..Len(q) + 1
      /\ \A i \in 1..Len(q) : Append(q, e)[i] = q[i]
      /\ Append(q, e)[Len(q) + 1] = e
  BY AppendProperties, LenProperties
<1>2. IsFiniteSet(P) /\ Cardinality(P) \in Nat
  BY PlacesFinite
<1>3. \A i \in 1..Len(q) + 1 : i \in 1..Len(q) \/ i = Len(q) + 1
  BY <1>1
<1>4. 1..Len(q) \subseteq 1..Len(q) + 1 /\ Len(q) + 1 \in 1..Len(q) + 1 /\ Len(q) + 1 \notin 1..Len(q)
  BY <1>1
<1>5. e \in T => R = P \cup {Len(q) + 1} /\ Len(q) + 1 \notin P
  BY <1>1, <1>3, <1>4 DEF Places
<1>6. e \notin T => R = P
  BY <1>1, <1>3, <1>4 DEF Places
<1> HIDE DEF P, R
<1>7. e \in T => Cardinality(R) = Cardinality(P) + 1
  BY <1>2, <1>5, FS_AddElement
<1>8. Cardinality(R) = Cardinality(P) + (IF e \in T THEN 1 ELSE 0)
  BY <1>2, <1>6, <1>7
<1> QED
  BY <1>8 DEF P, R

\* The first element leaves a queue.
LEMMA PlacesTail ==
  ASSUME NEW S, NEW q \in Seq(S), q # <<>>, NEW T
  PROVE  /\ Cardinality(Places(Tail(q), T)) \in Nat
         /\ Cardinality(Places(q, T)) =
              Cardinality(Places(Tail(q), T)) + (IF Head(q) \in T THEN 1 ELSE 0)
<1> DEFINE r == Tail(q)
           P == Places(q, T)
           R == Places(r, T)
<1>0. r = Tail(q)
  OBVIOUS
<1> HIDE DEF r
<1>1. /\ Len(q) \in Nat \ {0} /\ DOMAIN q = 1..Len(q) /\ Head(q) = q[1]
      /\ DOMAIN r = 1..Len(q)-1
      /\ \A i \in 1..Len(q)-1 : r[i] = q[i + 1]
  BY <1>0, HeadTailProperties, LenProperties, EmptySeq
<1>2. IsFiniteSet(R) /\ Cardinality(R) \in Nat
  <2>1. r \in Seq(S)
    BY <1>0, HeadTailProperties
  <2> QED
    BY <2>1, PlacesFinite
<1> DEFINE Later == P \ {1}
           f == [i \in R |-> i + 1]
<1>3. \A i \in 1..Len(q)-1 : i + 1 \in 1..Len(q) /\ i + 1 # 1
  BY <1>1
<1>4. \A i \in 1..Len(q) : i = 1 \/ (i - 1 \in 1..Len(q)-1 /\ (i - 1) + 1 = i)
  BY <1>1
<1>5. f \in Bijection(R, Later)
  <2>1. f \in [R -> Later]
    <3> SUFFICES ASSUME NEW i \in R
                 PROVE  i + 1 \in Later
      OBVIOUS
    <3> QED
      BY <1>1, <1>3 DEF Places
  <2>2. \A i, j \in R : f[i] = f[j] => i = j
    BY <1>1 DEF Places
  <2>3. \A j \in Later : \E i \in R : f[i] = j
    <3> SUFFICES ASSUME NEW j \in Later
                 PROVE  \E i \in R : f[i] = j
      OBVIOUS
    <3>1. j - 1 \in 1..Len(q)-1 /\ (j - 1) + 1 = j
      BY <1>1, <1>4 DEF Places
    <3>2. r[j - 1] = q[j]
      BY <1>1, <3>1
    <3>3. j - 1 \in R
      BY <1>1, <3>1, <3>2 DEF Places
    <3> QED
      BY <3>1, <3>3
  <2> HIDE DEF f, R, Later
  <2> QED
    BY <2>1, <2>2, <2>3, Fun_IsBij
<1>6. IsFiniteSet(Later) /\ Cardinality(Later) = Cardinality(R)
  <2>1. ExistsBijection(R, Later)
    BY <1>5 DEF ExistsBijection
  <2> HIDE DEF R, Later, f
  <2> QED
    BY <1>2, <2>1, FS_Bijection
<1>7. 1 \in DOMAIN q
  BY <1>1
<1>8. Head(q) \in T => P = Later \cup {1} /\ 1 \notin Later
  BY <1>1, <1>7 DEF Places
<1>9. Head(q) \notin T => P = Later
  BY <1>1, <1>7 DEF Places
<1> HIDE DEF P, Later, R
<1>10. Head(q) \in T => Cardinality(P) = Cardinality(Later) + 1
  BY <1>6, <1>8, FS_AddElement
<1>11. Cardinality(P) = Cardinality(R) + (IF Head(q) \in T THEN 1 ELSE 0)
  BY <1>2, <1>6, <1>9, <1>10
<1> QED
  BY <1>2, <1>11 DEF P, R, r

-----------------------------------------------------------------------------
(* What is counted is shown, queued or about to be sent                    *)

LEMMA LoggedType ==
  ASSUME TypeOK, NEW stat \in Status
  PROVE  shown[stat] \in Nat /\ Cardinality(Queued(stat)) \in Nat /\ Logged(stat) \in Nat
<1>1. logQ \in Seq(Event \cup {Nil}) /\ shown[stat] \in Nat
  BY DEF TypeOK
<1>2. Cardinality(Queued(stat)) \in Nat
  BY <1>1, PlacesFinite DEF Queued
<1> QED
  BY <1>1, <1>2 DEF Logged

\* A log call that takes the mutex counts its event.
LEMMA LockLogs ==
  ASSUME TypeOK, NEW g \in Goroutine, LogLock(g), NEW stat \in Status
  PROVE  Logged(stat)' = Logged(stat) + (IF Head(todo[g]) = stat THEN 1 ELSE 0)
<1> USE Names
<1>1. UNCHANGED <<todo, logQ, shown>> /\ mutex = Nil /\ mutex' = g /\ g # Nil
  BY DEF LogLock, handlerVars
<1>2. Cardinality(Queued(stat))' = Cardinality(Queued(stat))
  BY <1>1 DEF Queued
<1>3. Sending(stat)' <=> Head(todo[g]) = stat
  BY <1>1 DEF Sending
<1>4. ~Sending(stat)
  BY <1>1 DEF Sending
<1>5. shown[stat]' = shown[stat]
  BY <1>1
<1>6. shown[stat] \in Nat /\ Cardinality(Queued(stat)) \in Nat
  BY LoggedType
<1> QED
  BY <1>2, <1>3, <1>4, <1>5, <1>6 DEF Logged

\* The send moves it to LogQueue.
LEMMA SendLogs ==
  ASSUME TypeOK, MutexInv, NEW g \in Goroutine, LogSend(g), NEW stat \in Status
  PROVE  /\ Logged(stat)' = Logged(stat)
         /\ Cardinality(Queued(stat))' =
              Cardinality(Queued(stat)) + (IF Head(todo[g]) = stat THEN 1 ELSE 0)
<1> USE Names
<1> DEFINE e == [from |-> g, dir |-> at[g], stat |-> Head(todo[g])]
<1>1. /\ mutex = g /\ mutex' = Nil /\ g # Nil /\ shown' = shown
      /\ logQ' = Append(logQ, e) /\ logQ \in Seq(Event \cup {Nil})
  BY DEF LogSend, handlerVars, TypeOK
<1>2. e \in Event
  BY <1>1 DEF Event, MutexInv, TypeOK
<1>3. e \in EventsOf(stat) <=> Head(todo[g]) = stat
  BY <1>2 DEF EventsOf
<1> HIDE DEF e
<1>4. Cardinality(Queued(stat))' =
        Cardinality(Queued(stat)) + (IF e \in EventsOf(stat) THEN 1 ELSE 0)
  BY <1>1, <1>2, PlacesAppend DEF Queued
<1>5. Sending(stat) <=> Head(todo[g]) = stat
  BY <1>1 DEF Sending
<1>6. ~Sending(stat)'
  BY <1>1 DEF Sending
<1>7. shown[stat]' = shown[stat]
  BY <1>1
<1>8. shown[stat] \in Nat /\ Cardinality(Queued(stat)) \in Nat
  BY LoggedType
<1> QED
  BY <1>3, <1>4, <1>5, <1>6, <1>7, <1>8 DEF Logged

\* The handler shows what it takes from LogQueue.
LEMMA HandleLogs ==
  ASSUME TypeOK, HandleLog, NEW stat \in Status
  PROVE  /\ Logged(stat)' = Logged(stat)
         /\ shown[stat]' + Cardinality(Queued(stat))' = shown[stat] + Cardinality(Queued(stat))
<1> USE Names
<1>1. /\ logQ \in Seq(Event \cup {Nil}) /\ logQ # <<>> /\ logQ' = Tail(logQ)
      /\ UNCHANGED <<mutex, todo>> /\ shown \in [Status -> Nat]
  BY DEF HandleLog, TypeOK
<1>2. Head(logQ) \in Event \cup {Nil}
  BY <1>1, TailType
<1>3. /\ Cardinality(Queued(stat))' \in Nat
      /\ Cardinality(Queued(stat)) =
           Cardinality(Queued(stat))' + (IF Head(logQ) \in EventsOf(stat) THEN 1 ELSE 0)
  <2> DEFINE S == Event \cup {Nil}
             T == EventsOf(stat)
  <2>1. logQ \in Seq(S) /\ logQ # <<>> /\ logQ' = Tail(logQ)
    BY <1>1
  <2> HIDE DEF S, T
  <2>2. /\ Cardinality(Places(logQ', T)) \in Nat
        /\ Cardinality(Places(logQ, T)) =
             Cardinality(Places(logQ', T)) + (IF Head(logQ) \in T THEN 1 ELSE 0)
    BY <2>1, PlacesTail
  <2>3. EventsOf(stat)' = T
    BY DEF T, EventsOf
  <2> QED
    BY <2>2, <2>3 DEF Queued, T
<1>4. shown'[stat] = shown[stat] + (IF Head(logQ) \in EventsOf(stat) THEN 1 ELSE 0)
  <2>1. CASE Head(logQ) = Nil
    BY <1>1, <2>1, ProcessAssumption DEF HandleLog, EventsOf
  <2>2. CASE Head(logQ) # Nil
    <3> DEFINE e == Head(logQ)
    <3>1. e \in Event /\ e.stat \in Status
      BY <1>2, <2>2 DEF Event
    <3>2. shown' = [shown EXCEPT ![e.stat] = @ + 1]
      BY <2>2 DEF HandleLog
    <3> HIDE DEF e
    <3>3. shown'[stat] = shown[stat] + (IF e \in EventsOf(stat) THEN 1 ELSE 0)
      BY <1>1, <3>1, <3>2 DEF EventsOf
    <3> QED
      BY <3>3 DEF e
  <2> QED
    BY <2>1, <2>2
<1>5. Sending(stat)' <=> Sending(stat)
  BY <1>1 DEF Sending
<1>6. shown[stat] \in Nat
  BY <1>1
<1> QED
  BY <1>3, <1>4, <1>5, <1>6 DEF Logged

\* No other step counts, sends or shows an event: who holds the mutex stays where it
\* is.
LEMMA OthersLog ==
  ASSUME TypeOK, MutexInv, [Next]_vars, NEW stat \in Status,
         ~HandleLog, \A g \in Goroutine : ~LogLock(g) /\ ~LogSend(g)
  PROVE  /\ Logged(stat)' = Logged(stat) /\ count' = count
         /\ shown' = shown /\ Cardinality(Queued(stat))' = Cardinality(Queued(stat))
         /\ reported' = reported
<1> USE Names
<1> DEFINE Still == /\ UNCHANGED <<mutex, shown, count, reported>>
                    /\ logQ' = logQ \/ logQ' = Append(logQ, Nil)
                    /\ mutex # Nil => Head(todo'[mutex]) = Head(todo[mutex])
<1>1. Still
  <2>1. CASE ScanDir \/ AddWork \/ EndWork
    <3>1. mutex # Nil => todo'[mutex] = todo[mutex]
      BY <2>1 DEF ScanDir, AddWork, EndWork, Doing, MutexInv, TypeOK, Status
    <3> QED
      BY <2>1, <3>1 DEF ScanDir, AddWork, EndWork, logVars, handlerVars
  <2>2. ASSUME NEW w \in Workers, WorkerRecv(w) \/ WorkerSave(w) \/ PerfSend(w)
        PROVE  Still
    <3>1. mutex # Nil => todo'[mutex] = todo[mutex]
      BY <2>2 DEF WorkerRecv, WorkerSave, PerfSend, Doing, MutexInv, TypeOK, Status
    <3> QED
      BY <2>2, <3>1 DEF WorkerRecv, WorkerSave, PerfSend, logVars, handlerVars
  <2>3. CASE OpenStore \/ WaitWorkers \/ FinishStore \/ CloseLog \/ ExitCode
    <3>1. mutex # Nil => todo'[mutex] = todo[mutex]
      BY <2>3 DEF OpenStore, WaitWorkers, FinishStore, CloseLog, ExitCode, MutexInv, TypeOK
    <3> QED
      BY <2>3, <3>1
         DEF OpenStore, WaitWorkers, FinishStore, CloseLog, ExitCode, logVars, handlerVars
  <2>4. CASE HandlePerf \/ HandleAbort \/ Interrupt
    BY <2>4 DEF HandlePerf, HandleAbort, Interrupt, logVars, handlerVars
  <2>5. CASE UNCHANGED vars
    BY <2>5 DEF vars, logVars, handlerVars
  <2>6. CASE ScannerNext
    BY <2>1, <2>6 DEF ScannerNext
  <2>7. ASSUME NEW w \in Workers, WorkerNext(w)
        PROVE  Still
    BY <2>2, <2>7 DEF WorkerNext
  <2>8. CASE MainNext
    BY <2>3, <2>8 DEF MainNext
  <2> QED
    BY <2>4, <2>5, <2>6, <2>7, <2>8 DEF Next, Done
<1>2. Cardinality(Queued(stat))' = Cardinality(Queued(stat)) /\ Cardinality(Queued(stat)) \in Nat
  <2>1. logQ \in Seq(Event \cup {Nil}) /\ Nil \notin EventsOf(stat)
    BY ProcessAssumption DEF TypeOK, EventsOf
  <2>2. Cardinality(Queued(stat)) \in Nat
    BY LoggedType
  <2>3. CASE logQ' = logQ
    BY <2>2, <2>3 DEF Queued
  <2>4. CASE logQ' = Append(logQ, Nil)
    <3>1. \A T : Cardinality(Places(Append(logQ, Nil), T)) =
                   Cardinality(Places(logQ, T)) + (IF Nil \in T THEN 1 ELSE 0)
      BY <2>1, PlacesAppend
    <3>2. Cardinality(Queued(stat))' =
            Cardinality(Queued(stat)) + (IF Nil \in EventsOf(stat) THEN 1 ELSE 0)
      BY <2>4, <3>1 DEF Queued
    <3> QED
      BY <2>1, <2>2, <3>2
  <2> QED
    BY <1>1, <2>3, <2>4, <2>2
<1>3. Sending(stat)' <=> Sending(stat)
  BY <1>1 DEF Sending
<1>4. shown[stat]' = shown[stat]
  BY <1>1
<1> QED
  BY <1>1, <1>2, <1>3, <1>4 DEF Logged

LEMMA CountsNext ==
  ASSUME TypeOK, MutexInv, CountsLogged, [Next]_vars
  PROVE  CountsLogged'
<1> USE Names
<1>1. \A stat \in Status : Logged(stat) \in Nat
  BY LoggedType
<1>2. {"DMG", "old", "upd", "new", "ok", "del", "xup"} \subseteq Status
  BY DEF Status
<1>3. ASSUME count' = count, \A stat \in Status : Logged(stat)' = Logged(stat)
      PROVE  CountsLogged'
  BY <1>2, <1>3 DEF CountsLogged
<1>4. ASSUME NEW g \in Goroutine, LogLock(g)
      PROVE  CountsLogged'
  <2> DEFINE s == Head(todo[g])
  <2>1. \A stat \in Status : Logged(stat)' = Logged(stat) + (IF s = stat THEN 1 ELSE 0)
    BY <1>4, LockLogs
  <2>2. count' = [c \in Counter |-> IF c \in Counted(s) THEN count[c] + 1 ELSE count[c]]
    BY <1>4 DEF LogLock
  <2>3. count \in [Counter -> Nat] /\ s \in Status
    BY <1>4 DEF TypeOK, LogLock
  <2> HIDE DEF s
  <2>4. /\ count'["NumTotal"] = count["NumTotal"]
             + (IF s \in {"DMG", "old", "upd", "new"} \/ (s = "ok" /\ ~UpdateSkipCheck)
                THEN 1 ELSE 0)
        /\ count'["NumNew"] = count["NumNew"] + (IF s = "new" THEN 1 ELSE 0)
        /\ count'["NumUpd"] = count["NumUpd"] + (IF s \in {"old", "upd"} THEN 1 ELSE 0)
        /\ count'["NumDel"] = count["NumDel"] + (IF s = "del" THEN 1 ELSE 0)
        /\ count'["NumIdxUpd"] = count["NumIdxUpd"] + (IF s = "xup" THEN 1 ELSE 0)
    BY <2>2, <2>3 DEF Counter, Counted
  <2> DEFINE dmg == Logged("DMG")   old == Logged("old")   upd == Logged("upd")
             nov == Logged("new")   fin == Logged("ok")    del == Logged("del")
             xup == Logged("xup")
  <2>5. /\ dmg' = dmg + (IF s = "DMG" THEN 1 ELSE 0) /\ old' = old + (IF s = "old" THEN 1 ELSE 0)
        /\ upd' = upd + (IF s = "upd" THEN 1 ELSE 0) /\ nov' = nov + (IF s = "new" THEN 1 ELSE 0)
        /\ fin' = fin + (IF s = "ok" THEN 1 ELSE 0) /\ del' = del + (IF s = "del" THEN 1 ELSE 0)
        /\ xup' = xup + (IF s = "xup" THEN 1 ELSE 0)
        /\ {dmg, old, upd, nov, fin, del, xup} \subseteq Nat
    BY <1>1, <1>2, <2>1
  <2>6. /\ count["NumTotal"] = dmg + old + upd + nov + (IF UpdateSkipCheck THEN 0 ELSE fin)
        /\ count["NumNew"] = nov /\ count["NumUpd"] = old + upd /\ count["NumDel"] = del
        /\ count["NumIdxUpd"] = xup
    BY DEF CountsLogged
  <2> SUFFICES
        /\ count'["NumTotal"] = dmg' + old' + upd' + nov' + (IF UpdateSkipCheck THEN 0 ELSE fin')
        /\ count'["NumNew"] = nov' /\ count'["NumUpd"] = old' + upd' /\ count'["NumDel"] = del'
        /\ count'["NumIdxUpd"] = xup'
    BY DEF CountsLogged
  <2> HIDE DEF dmg, old, upd, nov, fin, del, xup
  <2>7. /\ count'["NumNew"] = nov' /\ count'["NumUpd"] = old' + upd' /\ count'["NumDel"] = del'
        /\ count'["NumIdxUpd"] = xup'
    BY <2>4, <2>5, <2>6
  <2>8. count'["NumTotal"] = dmg' + old' + upd' + nov' + (IF UpdateSkipCheck THEN 0 ELSE fin')
    BY <2>4, <2>5, <2>6
  <2> QED
    BY <2>7, <2>8
<1>5. ASSUME NEW g \in Goroutine, LogSend(g)
      PROVE  CountsLogged'
  <2>1. count' = count
    BY <1>5 DEF LogSend
  <2> QED
    BY <1>3, <1>5, <2>1, SendLogs
<1>6. CASE HandleLog
  <2>1. count' = count
    BY <1>6 DEF HandleLog
  <2> QED
    BY <1>3, <1>6, <2>1, HandleLogs
<1>7. CASE ~HandleLog /\ \A g \in Goroutine : ~LogLock(g) /\ ~LogSend(g)
  <2>1. "ok" \in Status
    BY <1>2
  <2> QED
    BY <1>3, <1>7, <2>1, OthersLog
<1> QED
  BY <1>4, <1>5, <1>6, <1>7

\* What the scanner and the main goroutine may log.
LEMMA QuietNext ==
  ASSUME TypeOK, MutexInv, QuietOps, [Next]_vars
  PROVE  QuietOps'
<1> USE Names
<1> DEFINE Quiet == {"PNC", "ign", "add"}
           Events == \A i \in DOMAIN logQ :
             logQ[i] # Nil /\ logQ[i].from = Scanner => logQ[i].stat \in {"PNC", "ign"}
<1>1. todo[Scanner] \in Seq(Quiet) /\ todo[Main] \in Seq({"PNC"}) /\ todo \in [Goroutine -> Seq(Op)]
  BY DEF QuietOps, TypeOK
<1>2. ASSUME NEW S, NEW q \in Seq(S), q # <<>>
      PROVE  Tail(q) \in Seq(S) /\ Head(q) \in S
  BY <1>2, TailType
<1>3. ASSUME UNCHANGED logQ, todo'[Scanner] \in Seq(Quiet), todo'[Main] \in Seq({"PNC"})
      PROVE  QuietOps'
  BY <1>3 DEF QuietOps
<1>4. CASE ScanDir \/ AddWork \/ EndWork
  <2>1. todo'[Main] = todo[Main] /\ logQ' = logQ
    BY <1>4 DEF ScanDir, AddWork, EndWork, logVars, TypeOK
  <2>2. CASE ScanDir
    <3>1. \A logs \in ScanLogs : Append(logs, "add") \in Seq(Quiet)
      <4>1. ScanLogs \subseteq Seq({"PNC", "ign"}) /\ {"PNC", "ign"} \subseteq Quiet
        BY ProcessAssumption
      <4> HIDE DEF Quiet
      <4>2. ScanLogs \subseteq Seq(Quiet)
        BY <4>1, SeqMonotonic
      <4>3. "add" \in Quiet
        BY DEF Quiet
      <4> QED
        BY <4>2, <4>3, AppendProperties
    <3>2. <<"PNC">> \in Seq(Quiet)
      OBVIOUS
    <3> HIDE DEF Quiet
    <3>3. todo'[Scanner] \in Seq(Quiet)
      BY <1>1, <2>2, <3>1, <3>2 DEF ScanDir
    <3> QED
      BY <1>1, <1>3, <2>1, <3>3
  <2>3. CASE AddWork
    <3>1. todo'[Scanner] = Tail(todo[Scanner]) /\ todo[Scanner] # <<>>
      BY <1>1, <2>3 DEF AddWork, Doing
    <3> HIDE DEF Quiet
    <3> QED
      BY <1>1, <1>2, <1>3, <2>1, <3>1
  <2>4. CASE EndWork
    BY <1>1, <1>3, <2>1, <2>4 DEF EndWork
  <2> QED
    BY <1>4, <2>2, <2>3, <2>4
<1>5. ASSUME NEW g \in Goroutine, LogLock(g)
      PROVE  QuietOps'
  BY <1>1, <1>3, <1>5 DEF LogLock
<1>6. ASSUME NEW g \in Goroutine, LogSend(g)
      PROVE  QuietOps'
  <2> DEFINE e == [from |-> g, dir |-> at[g], stat |-> Head(todo[g])]
  <2>1. /\ todo' = [todo EXCEPT ![g] = Tail(todo[g])] /\ logQ' = Append(logQ, e)
        /\ todo[g] # <<>> /\ Head(todo[g]) \in Status /\ logQ \in Seq(Event \cup {Nil})
    BY <1>6 DEF LogSend, MutexInv, TypeOK
  <2>2. e \in Event
    BY <2>1 DEF Event, TypeOK
  <2>3. todo'[Scanner] \in Seq(Quiet)
    <3> HIDE DEF Quiet
    <3> QED
      BY <1>1, <1>2, <2>1
  <2>4. todo'[Main] \in Seq({"PNC"})
    BY <1>1, <1>2, <2>1
  <2>5. e.from = Scanner => e.stat \in {"PNC", "ign"}
    <3>1. g = Scanner => Head(todo[g]) \in Quiet
      <4> HIDE DEF Quiet
      <4> QED
        BY <1>1, <1>2, <2>1
    <3> QED
      BY <2>1, <3>1 DEF Status
  <2> HIDE DEF e
  <2>6. /\ \A i \in DOMAIN logQ' : i \in DOMAIN logQ \/ logQ'[i] = e
        /\ \A i \in DOMAIN logQ : logQ'[i] = logQ[i]
    <3>1. /\ Len(logQ) \in Nat /\ DOMAIN logQ = 1..Len(logQ)
          /\ DOMAIN logQ' = 1..Len(logQ) + 1
          /\ \A i \in 1..Len(logQ) : logQ'[i] = logQ[i]
          /\ logQ'[Len(logQ) + 1] = e
      BY <2>1, <2>2, AppendProperties, LenProperties
    <3>2. \A i \in 1..Len(logQ) + 1 : i \in 1..Len(logQ) \/ i = Len(logQ) + 1
      BY <3>1
    <3> QED
      BY <3>1, <3>2
  <2>7. Events'
    BY <2>5, <2>6 DEF QuietOps
  <2> QED
    BY <2>3, <2>4, <2>7 DEF QuietOps
<1>7. ASSUME NEW w \in Workers, WorkerRecv(w) \/ WorkerSave(w) \/ PerfSend(w)
      PROVE  QuietOps'
  BY <1>1, <1>3, <1>7 DEF WorkerRecv, WorkerSave, PerfSend, logVars
<1>8. CASE OpenStore \/ WaitWorkers \/ FinishStore \/ ExitCode
  <2>1. <<"PNC">> \in Seq({"PNC"}) /\ <<>> \in Seq({"PNC"})
    OBVIOUS
  <2>2. logQ' = logQ /\ todo'[Scanner] = todo[Scanner]
    BY <1>8 DEF OpenStore, WaitWorkers, FinishStore, ExitCode, logVars, TypeOK
  <2>3. todo'[Main] \in {todo[Main], <<>>, <<"PNC">>}
    BY <1>8 DEF OpenStore, WaitWorkers, FinishStore, ExitCode, TypeOK
  <2> HIDE DEF Quiet
  <2> QED
    BY <1>1, <1>3, <2>1, <2>2, <2>3
<1>9. CASE CloseLog
  <2>1. logQ' = Append(logQ, Nil) /\ todo' = todo /\ logQ \in Seq(Event \cup {Nil})
    BY <1>9 DEF CloseLog, TypeOK
  <2>2. Events'
    <3>1. /\ Len(logQ) \in Nat /\ DOMAIN logQ = 1..Len(logQ)
          /\ DOMAIN logQ' = 1..Len(logQ) + 1
          /\ \A i \in 1..Len(logQ) : logQ'[i] = logQ[i]
          /\ logQ'[Len(logQ) + 1] = Nil
      BY <2>1, AppendProperties, LenProperties
    <3>2. \A i \in 1..Len(logQ) + 1 : i \in 1..Len(logQ) \/ i = Len(logQ) + 1
      BY <3>1
    <3> QED
      BY <3>1, <3>2 DEF QuietOps
  <2> QED
    BY <1>1, <2>1, <2>2 DEF QuietOps
<1>10. CASE HandleLog
  <2>1. logQ' = Tail(logQ) /\ todo' = todo /\ logQ \in Seq(Event \cup {Nil}) /\ logQ # <<>>
    BY <1>10 DEF HandleLog, TypeOK
  <2>2. Events'
    <3>1. /\ Len(logQ) \in Nat \ {0} /\ DOMAIN logQ = 1..Len(logQ)
          /\ DOMAIN logQ' = 1..Len(logQ)-1
          /\ \A i \in 1..Len(logQ)-1 : logQ'[i] = logQ[i + 1]
      BY <2>1, HeadTailProperties, LenProperties, EmptySeq
    <3>2. \A i \in 1..Len(logQ)-1 : i + 1 \in 1..Len(logQ)
      BY <3>1
    <3> QED
      BY <3>1, <3>2 DEF QuietOps
  <2> QED
    BY <1>1, <2>1, <2>2 DEF QuietOps
<1>11. CASE HandlePerf \/ HandleAbort \/ Interrupt
  BY <1>1, <1>3, <1>11 DEF HandlePerf, HandleAbort, Interrupt, logVars
<1>12. CASE UNCHANGED vars
  BY <1>1, <1>3, <1>12 DEF vars, logVars
<1>13. ASSUME NEW w \in Workers, WorkerNext(w)
       PROVE  QuietOps'
  BY <1>5, <1>6, <1>7, <1>13 DEF WorkerNext
<1>14. CASE ScannerNext
  BY <1>4, <1>5, <1>6, <1>14 DEF ScannerNext
<1>15. CASE MainNext
  BY <1>5, <1>6, <1>8, <1>9, <1>15 DEF MainNext
<1> QED
  BY <1>10, <1>11, <1>12, <1>13, <1>14, <1>15 DEF Next, Done

LEMMA CountInit == Init => CountInv
<1> SUFFICES ASSUME Init
             PROVE  CountInv
  OBVIOUS
<1> USE Names
<1>1. /\ logQ = <<>> /\ mutex = Nil /\ shown = [stat \in Status |-> 0]
      /\ count = [c \in Counter |-> 0] /\ todo = [g \in Goroutine |-> <<>>]
  BY DEF Init
<1>2. \A stat \in Status : Logged(stat) = 0
  <2> TAKE stat \in Status
  <2>1. Queued(stat) = {}
    BY <1>1 DEF Queued, Places
  <2>2. Cardinality(Queued(stat)) = 0
    BY <2>1, FS_EmptySet
  <2>3. ~Sending(stat) /\ shown[stat] = 0
    BY <1>1 DEF Sending
  <2> QED
    BY <2>2, <2>3 DEF Logged
<1>3. CountsLogged
  BY <1>1, <1>2 DEF CountsLogged, Counter, Status
<1>4. QuietOps
  BY <1>1 DEF QuietOps
<1> QED
  BY <1>3, <1>4 DEF CountInv

\* When the handler has returned, what is left in LogQueue and in the log call that
\* holds the mutex is the scanner's, and not counted.
LEMMA AllShown ==
  ASSUME TypeOK, LogInv, QuietOps, LogClosed, handler = "done",
         NEW stat \in Status, stat \notin {"PNC", "ign"}
  PROVE  Logged(stat) = shown[stat] /\ Queued(stat) = {}
<1> USE Names
<1>1. Queued(stat) = {}
  <2> SUFFICES ASSUME NEW i \in DOMAIN logQ, logQ[i] \in EventsOf(stat)
               PROVE  FALSE
    BY DEF Queued, Places
  <2>1. logQ[i] # Nil /\ logQ[i].from = Scanner
    BY DEF LogInv, CloseInv
  <2> QED
    BY <2>1 DEF QuietOps, EventsOf
<1>2. Cardinality(Queued(stat)) = 0
  BY <1>1, FS_EmptySet
<1>3. ~Sending(stat)
  <2> SUFFICES ASSUME mutex # Nil
               PROVE  Head(todo[mutex]) # stat
    BY DEF Sending
  <2>1. todo[mutex] # <<>> /\ Head(todo[mutex]) \in Status /\ mutex \in Goroutine
    BY DEF LogInv, MutexInv, TypeOK
  <2>2. mutex = Scanner
    BY <2>1 DEF LogInv, CloseInv, JoinInv, Goroutine
  <2>3. Head(todo[Scanner]) \in {"PNC", "ign", "add"}
    BY <2>1, <2>2, TailType DEF QuietOps
  <2> QED
    BY <2>1, <2>2, <2>3 DEF Status
<1>4. shown[stat] \in Nat
  BY DEF TypeOK
<1> QED
  BY <1>1, <1>2, <1>3, <1>4 DEF Logged

\* The summary gives the numbers of the events the user was shown, whatever the paths.
THEOREM CountsAgree == Spec => [](main \in {"exit0", "exit1"} => CountsShown)
<1> DEFINE Inv == TypeOK /\ LogInv /\ ScanInv /\ NilInv /\ CountInv
<1>1. Init => Inv
  BY DrainInv, CountInit
<1>2. Inv /\ [Next]_vars => Inv'
  BY DrainInv, CountsNext, QuietNext DEF LogInv, CountInv
<1>3. Inv => (main \in {"exit0", "exit1"} => CountsShown)
  <2> SUFFICES ASSUME Inv, main \in {"exit0", "exit1"}
               PROVE  CountsShown
    OBVIOUS
  <2>1. handler = "done" /\ LogClosed
    BY DEF LogInv, ExitInv, LogClosed
  <2>2. {"DMG", "old", "upd", "new", "ok", "del", "xup"} \subseteq Status \ {"PNC", "ign"}
    BY DEF Status
  <2>3. \A stat \in Status \ {"PNC", "ign"} : Logged(stat) = shown[stat]
    BY <2>1, AllShown DEF CountInv
  <2> QED
    BY <2>2, <2>3 DEF CountInv, CountsLogged, CountsShown
<1> QED
  BY <1>1, <1>2, <1>3, PTL DEF Spec

-----------------------------------------------------------------------------
(* A directory is reported as updated once, and after it was saved         *)

Updates == {e \in reported : e.stat = "xup"}

\* In a sequence of operations "xup" comes last, after "save" or when that was done.
SavedFirst(ops, done) ==
  \A i \in DOMAIN ops :
    ops[i] = "xup" => /\ i = Len(ops)
                      /\ done \/ (i > 1 /\ ops[i - 1] = "save")

UpdatesBooked ==
  /\ IsFiniteSet(Updates) /\ IsFiniteSet(saved)
  /\ Cardinality(Updates) = shown["xup"] + Cardinality(Queued("xup"))
UpdatesSaved ==
  /\ \A e \in Updates : e.dir \in saved /\ e.dir \in Taken
  /\ \A e, f \in Updates : e.dir = f.dir => e = f

\* A worker at work has taken its directory, and nobody else has.
WorkersApart ==
  /\ \A w \in Workers : todo[w] # <<>> => at[w] \in Taken
  /\ \A v, w \in Workers : todo[v] # <<>> /\ todo[w] # <<>> /\ at[v] = at[w] => v = w
WorkersSave ==
  \A w \in Workers :
    /\ SavedFirst(todo[w], at[w] \in saved)
    /\ (\E i \in DOMAIN todo[w] : todo[w][i] = "xup") => \A e \in Updates : e.dir # at[w]

SaveInv == UpdatesBooked /\ UpdatesSaved /\ WorkersApart /\ WorkersSave

\* What follows the first operation.
LEMMA TailSaves ==
  ASSUME NEW ops \in Seq(Op), ops # <<>>, NEW done, NEW then,
         SavedFirst(ops, done), done \/ Head(ops) = "save" => then
  PROVE  /\ SavedFirst(Tail(ops), then)
         /\ (\E i \in DOMAIN Tail(ops) : Tail(ops)[i] = "xup") => \E i \in DOMAIN ops : ops[i] = "xup"
<1> DEFINE q == Tail(ops)
<1>1. /\ Len(ops) \in Nat \ {0} /\ DOMAIN ops = 1..Len(ops) /\ Head(ops) = ops[1]
      /\ Len(q) = Len(ops) - 1 /\ DOMAIN q = 1..Len(ops)-1
      /\ \A i \in 1..Len(ops)-1 : q[i] = ops[i + 1]
  BY HeadTailProperties, LenProperties, EmptySeq
<1> HIDE DEF q
<1> SUFFICES ASSUME NEW i \in 1..Len(ops)-1, q[i] = "xup"
             PROVE  /\ i = Len(q) /\ (then \/ (i > 1 /\ q[i - 1] = "save"))
                    /\ \E j \in DOMAIN ops : ops[j] = "xup"
  BY <1>1 DEF SavedFirst, q
<1>2. i + 1 \in 1..Len(ops) /\ (i + 1) - 1 = i /\ ops[i + 1] = "xup"
  BY <1>1
<1>3. i + 1 = Len(ops)
  BY <1>1, <1>2 DEF SavedFirst
<1>4. i = Len(q)
  <2>1. Len(q) = Len(ops) - 1 /\ i \in Int /\ Len(ops) \in Int
    BY <1>1
  <2> QED
    BY <1>3, <2>1
<1>5. then \/ (i > 1 /\ q[i - 1] = "save")
  <2>1. CASE i = 1
    BY <1>1, <1>2, <2>1 DEF SavedFirst
  <2>2. CASE i # 1
    <3>1. i - 1 \in 1..Len(ops)-1 /\ (i - 1) + 1 = i /\ i > 1
      BY <1>1, <2>2
    <3>2. q[i - 1] = ops[i]
      BY <1>1, <3>1
    <3> QED
      BY <1>1, <1>2, <3>1, <3>2 DEF SavedFirst
  <2> QED
    BY <2>1, <2>2
<1> QED
  BY <1>1, <1>2, <1>4, <1>5

\* A worker reports an update only after the save.
LEMMA JobsSave ==
  ASSUME NEW job \in Jobs
  PROVE  SavedFirst(job, FALSE)
<1> DEFINE Quiet == Op \ {"xup"}
           Closing == {"ign", "save", "xup", "PNC"}
<1>1. ASSUME NEW p \in Seq(Quiet), NEW s, s \in {<<>>, <<"ign">>} \cup Saving, job = p \o s
      PROVE  SavedFirst(job, FALSE)
  <2>1. s \in {<<>>, <<"ign">>, <<"save">>, <<"save", "xup">>, <<"PNC">>}
    BY <1>1, ProcessAssumption DEF Saving
  <2>2. s \in Seq(Closing) /\ p \in Seq(Quiet \cup Closing)
    <3>1. s \in Seq(Closing)
      <4>1. <<>> \in Seq(Closing) /\ <<"ign">> \in Seq(Closing) /\ <<"save">> \in Seq(Closing)
        OBVIOUS
      <4>2. <<"save", "xup">> \in Seq(Closing) /\ <<"PNC">> \in Seq(Closing)
        OBVIOUS
      <4> QED
        BY <2>1, <4>1, <4>2
    <3>2. p \in Seq(Quiet \cup Closing)
      <4> HIDE DEF Quiet, Closing
      <4> QED
        BY SeqMonotonic
    <3> QED
      BY <3>1, <3>2
  <2>3. s \in Seq(Quiet \cup Closing)
    <3> HIDE DEF Quiet, Closing
    <3> QED
      BY <2>2, SeqMonotonic
  <2>4. /\ Len(p) \in Nat /\ Len(s) \in Nat /\ DOMAIN p = 1..Len(p) /\ DOMAIN s = 1..Len(s)
        /\ Len(job) = Len(p) + Len(s) /\ DOMAIN job = 1..Len(p) + Len(s)
        /\ \A i \in 1..Len(p) : job[i] = p[i] /\ p[i] \in Quiet
        /\ \A i \in 1..Len(s) : job[Len(p) + i] = s[i]
    <3> HIDE DEF Quiet, Closing
    <3>1. /\ Len(p) \in Nat /\ DOMAIN p = 1..Len(p) /\ Len(s) \in Nat /\ DOMAIN s = 1..Len(s)
          /\ \A i \in 1..Len(p) : p[i] \in Quiet
      BY <2>2, LenProperties, ElementOfSeq
    <3>2. job \in Seq(Quiet \cup Closing) /\ Len(job) = Len(p) + Len(s)
          /\ \A i \in 1..Len(job) : job[i] = IF i <= Len(p) THEN p[i] ELSE s[i - Len(p)]
      BY <1>1, <2>2, <2>3, ConcatProperties
    <3>3. DOMAIN job = 1..Len(job)
      BY <3>2, LenProperties
    <3>4. \A i \in 1..Len(p) : i \in 1..Len(job) /\ i <= Len(p)
      BY <3>1, <3>2
    <3>5. \A i \in 1..Len(s) :
            Len(p) + i \in 1..Len(job) /\ ~(Len(p) + i <= Len(p)) /\ (Len(p) + i) - Len(p) = i
      BY <3>1, <3>2
    <3> QED
      BY <3>1, <3>2, <3>3, <3>4, <3>5
  <2>5. ASSUME NEW i \in 1..Len(p) + Len(s), job[i] = "xup"
        PROVE  i - Len(p) \in 1..Len(s) /\ s[i - Len(p)] = "xup" /\ i = Len(p) + (i - Len(p))
    <3>1. i \notin 1..Len(p)
      BY <2>4, <2>5
    <3>2. i - Len(p) \in 1..Len(s) /\ i = Len(p) + (i - Len(p))
      BY <2>4, <2>5, <3>1
    <3> QED
      BY <2>4, <2>5, <3>2
  <2>6. ASSUME NEW k \in 1..Len(s), s[k] = "xup"
        PROVE  k = 2 /\ Len(s) = 2 /\ s[1] = "save"
    BY <2>1, <2>6
  <2> SUFFICES ASSUME NEW i \in 1..Len(p) + Len(s), job[i] = "xup"
               PROVE  i = Len(job) /\ i > 1 /\ job[i - 1] = "save"
    BY <2>4 DEF SavedFirst
  <2>7. i - Len(p) = 2 /\ Len(s) = 2 /\ s[1] = "save" /\ i = Len(p) + (i - Len(p))
    BY <2>5, <2>6
  <2>8. i = Len(job) /\ i > 1 /\ i - 1 = Len(p) + 1 /\ 1 \in 1..Len(s)
    BY <2>4, <2>7
  <2> QED
    BY <2>4, <2>7, <2>8
<1>2. LoadLogs \subseteq Seq(Quiet)
  <2> DEFINE Own == {"PNC", "ERX"}
  <2>1. Own \subseteq Quiet
    BY DEF Op, Status
  <2>2. LoadLogs \subseteq Seq(Own)
    BY ProcessAssumption
  <2> HIDE DEF Quiet, Own
  <2> QED
    BY <2>1, <2>2, SeqMonotonic
<1>3. HashOps \subseteq Seq(Quiet)
  <2> DEFINE Own == {"perf", "PNC", "ign"}
  <2>1. Own \subseteq Quiet
    BY DEF Op, Status
  <2>2. HashOps \subseteq Seq(Own)
    BY ProcessAssumption
  <2> HIDE DEF Quiet, Own
  <2> QED
    BY <2>1, <2>2, SeqMonotonic
<1>4. FixLogs \subseteq Seq(Quiet)
  <2> DEFINE Fix == {"DMG", "old", "upd", "new", "ok", "del"}
  <2>1. Fix \subseteq Quiet
    BY DEF Op, Status
  <2>2. FixLogs \subseteq Seq(Fix)
    BY ProcessAssumption
  <2> HIDE DEF Quiet, Fix
  <2> QED
    BY <2>1, <2>2, SeqMonotonic
<1> HIDE DEF Quiet
<1>5. CASE ShowIgnoredOnly
  <2>1. PICK l \in LoadLogs, s \in {<<>>, <<"ign">>} : job = l \o s
    BY <1>5 DEF Jobs
  <2>2. l \in Seq(Quiet)
    BY <1>2
  <2> QED
    BY <1>1, <2>1, <2>2
<1>6. CASE ~ShowIgnoredOnly
  <2>1. PICK l \in LoadLogs, h \in HashOps, f \in FixLogs, s \in Saving : job = l \o h \o f \o s
    BY <1>6 DEF Jobs
  <2> DEFINE p == l \o h \o f
  <2>2. l \o h \in Seq(Quiet)
    BY <1>2, <1>3, ConcatProperties
  <2>3. p \in Seq(Quiet)
    BY <1>4, <2>2, ConcatProperties
  <2>4. job = p \o s
    BY <2>1
  <2> HIDE DEF p
  <2> QED
    BY <1>1, <2>3, <2>4
<1> QED
  BY <1>5, <1>6

\* A step that neither reports an event nor moves a worker.
LEMMA SaveFrame ==
  ASSUME SaveInv, UNCHANGED <<saved, taken, reported>>,
         \A w \in Workers : todo'[w] = todo[w] /\ at'[w] = at[w],
         shown["xup"]' + Cardinality(Queued("xup"))' = shown["xup"] + Cardinality(Queued("xup"))
  PROVE  SaveInv'
<1>1. Updates' = Updates /\ Taken' = Taken
  BY DEF Updates, Taken
<1>2. UpdatesBooked'
  BY <1>1 DEF SaveInv, UpdatesBooked
<1>3. UpdatesSaved'
  BY <1>1 DEF SaveInv, UpdatesSaved
<1>4. WorkersApart'
  BY <1>1 DEF SaveInv, WorkersApart
<1>5. WorkersSave'
  BY <1>1 DEF SaveInv, WorkersSave
<1> QED
  BY <1>2, <1>3, <1>4, <1>5 DEF SaveInv

\* A worker takes a directory that nobody has taken.
LEMMA SaveRecv ==
  ASSUME TypeOK, OnceInv, SaveInv, NEW w \in Workers, WorkerRecv(w)
  PROVE  SaveInv'
<1> USE Names
<1>1. /\ UNCHANGED <<saved, reported, shown, logQ>>
      /\ todo \in [Goroutine -> Seq(Op)] /\ at \in [Goroutine -> Place] /\ w \in Goroutine
  BY DEF WorkerRecv, logVars, handlerVars, TypeOK
<1>2. Queued("xup")' = Queued("xup")
  BY <1>1 DEF Queued
<1>3. CASE UNCHANGED <<todo, at, taken>>
  BY <1>1, <1>2, <1>3, SaveFrame
<1>4. ASSUME NEW d \in InQueue,
             d \in Dirs, Taken' = Taken \cup {d}, at' = [at EXCEPT ![w] = d],
             todo' = [todo EXCEPT ![w] = todo'[w]], todo'[w] \in Jobs
      PROVE  SaveInv'
  <2>1. d \notin Taken
    BY <1>4 DEF OnceInv, Apart
  <2>2. \A v \in Workers \ {w} : todo'[v] = todo[v] /\ at'[v] = at[v]
    BY <1>1, <1>4
  <2>3. at'[w] = d
    BY <1>1, <1>4
  <2>4. Updates' = Updates
    BY <1>1 DEF Updates
  <2>5. UpdatesBooked'
    BY <1>1, <1>2, <2>4 DEF SaveInv, UpdatesBooked
  <2>6. UpdatesSaved'
    BY <1>1, <1>4, <2>4 DEF SaveInv, UpdatesSaved
  <2>7. WorkersApart'
    BY <1>4, <2>1, <2>2, <2>3 DEF SaveInv, WorkersApart
  <2>8. WorkersSave'
    <3> SUFFICES ASSUME NEW v \in Workers
                 PROVE  /\ SavedFirst(todo'[v], at'[v] \in saved')
                        /\ (\E i \in DOMAIN todo'[v] : todo'[v][i] = "xup") =>
                             \A e \in Updates' : e.dir # at'[v]
      BY DEF WorkersSave
    <3>1. CASE v = w
      <4>1. SavedFirst(todo'[w], FALSE)
        BY <1>4, JobsSave
      <4>2. \A e \in Updates' : e.dir # d
        BY <2>1, <2>4 DEF SaveInv, UpdatesSaved
      <4> QED
        BY <2>3, <3>1, <4>1, <4>2 DEF SavedFirst
    <3>2. CASE v # w
      BY <1>1, <2>2, <2>4, <3>2 DEF SaveInv, WorkersSave
    <3> QED
      BY <3>1, <3>2
  <2> QED
    BY <2>5, <2>6, <2>7, <2>8 DEF SaveInv
<1>5. \/ UNCHANGED <<todo, at, taken>>
      \/ \E d \in InQueue :
           /\ d \in Dirs /\ Taken' = Taken \cup {d} /\ at' = [at EXCEPT ![w] = d]
           /\ todo' = [todo EXCEPT ![w] = todo'[w]] /\ todo'[w] \in Jobs
  <2>1. CASE taken' = taken
    <3>1. ~\E d \in Dirs : taken' = [taken EXCEPT ![d] = @ + 1]
      <4> SUFFICES ASSUME NEW d \in Dirs, taken = [taken EXCEPT ![d] = @ + 1]
                   PROVE  FALSE
        BY <2>1
      <4>1. taken[d] \in Nat /\ taken[d] = taken[d] + 1
        BY DEF TypeOK
      <4> QED
        BY <4>1
    <3>2. Head(workQ) # Nil => Head(workQ) \in Dirs
      <4>1. workQ \in Seq(Place) /\ workQ # <<>>
        BY DEF TypeOK, WorkerRecv
      <4> QED
        BY <4>1, TailType DEF Place
    <3> QED
      BY <3>1, <3>2 DEF WorkerRecv
  <2>2. CASE taken' # taken
    BY <2>2, RecvSets DEF OnceInv
  <2> QED
    BY <2>1, <2>2
<1> QED
  BY <1>3, <1>4, <1>5

\* A worker goes on to its next operation: after a save its directory is saved.
LEMMA SaveAdvance ==
  ASSUME TypeOK, SaveInv, NEW w \in Workers, WorkerSave(w) \/ PerfSend(w)
  PROVE  SaveInv'
<1> USE Names
<1>1. /\ UNCHANGED <<reported, shown, logQ, taken, at>> /\ todo[w] # <<>>
      /\ todo' = [todo EXCEPT ![w] = Tail(todo[w])] /\ todo \in [Goroutine -> Seq(Op)]
      /\ \/ saved' = saved \cup {at[w]}
         \/ saved' = saved /\ Head(todo[w]) # "save"
  BY DEF WorkerSave, PerfSend, Doing, logVars, handlerVars, TypeOK
<1>2. Queued("xup")' = Queued("xup") /\ Updates' = Updates /\ Taken' = Taken
  BY <1>1 DEF Queued, Updates, Taken
<1>3. IsFiniteSet(saved')
  BY <1>1, FS_AddElement DEF SaveInv, UpdatesBooked
<1>4. UpdatesBooked'
  BY <1>1, <1>2, <1>3 DEF SaveInv, UpdatesBooked
<1>5. UpdatesSaved'
  BY <1>1, <1>2 DEF SaveInv, UpdatesSaved
<1>6. WorkersApart'
  BY <1>1, <1>2 DEF SaveInv, WorkersApart
<1>7. WorkersSave'
  <2> SUFFICES ASSUME NEW v \in Workers
               PROVE  /\ SavedFirst(todo'[v], at'[v] \in saved')
                      /\ (\E i \in DOMAIN todo'[v] : todo'[v][i] = "xup") =>
                           \A e \in Updates' : e.dir # at'[v]
    BY DEF WorkersSave
  <2>1. CASE v = w
    <3>1. /\ todo[w] \in Seq(Op) /\ SavedFirst(todo[w], at[w] \in saved)
          /\ at[w] \in saved \/ Head(todo[w]) = "save" => at[w] \in saved'
      BY <1>1 DEF SaveInv, WorkersSave
    <3>2. /\ SavedFirst(Tail(todo[w]), at[w] \in saved')
          /\ (\E i \in DOMAIN Tail(todo[w]) : Tail(todo[w])[i] = "xup") =>
               \E i \in DOMAIN todo[w] : todo[w][i] = "xup"
      BY <1>1, <3>1, TailSaves
    <3>3. todo'[v] = Tail(todo[w]) /\ at'[v] = at[w]
      BY <1>1, <2>1
    <3> QED
      BY <1>2, <3>2, <3>3 DEF SaveInv, WorkersSave
  <2>2. CASE v # w
    <3>1. todo'[v] = todo[v] /\ at'[v] = at[v] /\ saved \subseteq saved'
      BY <1>1, <2>2
    <3>2. /\ SavedFirst(todo[v], at[v] \in saved)
          /\ (\E i \in DOMAIN todo[v] : todo[v][i] = "xup") => \A e \in Updates : e.dir # at[v]
      BY DEF SaveInv, WorkersSave
    <3> QED
      BY <1>2, <3>1, <3>2 DEF SavedFirst
  <2> QED
    BY <2>1, <2>2
<1> QED
  BY <1>4, <1>5, <1>6, <1>7 DEF SaveInv

\* A worker sends an event: if it reports an update, nobody has reported one for its
\* directory before, and nobody else will.
LEMMA SaveSend ==
  ASSUME TypeOK, MutexInv, QuietOps, SaveInv, NEW g \in Goroutine, LogSend(g)
  PROVE  SaveInv'
<1> USE Names
<1> DEFINE e == [from |-> g, dir |-> at[g], stat |-> Head(todo[g])]
<1>1. /\ UNCHANGED <<saved, shown, taken, at>> /\ todo[g] # <<>>
      /\ todo' = [todo EXCEPT ![g] = Tail(todo[g])] /\ todo \in [Goroutine -> Seq(Op)]
      /\ reported' = reported \cup {e}
  BY DEF LogSend, MutexInv, handlerVars, TypeOK
<1>2. Taken' = Taken
  BY <1>1 DEF Taken
<1>3. Cardinality(Queued("xup"))' =
        Cardinality(Queued("xup")) + (IF Head(todo[g]) = "xup" THEN 1 ELSE 0)
  BY SendLogs DEF Status
<1>4. Cardinality(Queued("xup")) \in Nat /\ shown["xup"] \in Nat
  BY LoggedType DEF Status
<1>5. CASE Head(todo[g]) # "xup"
  <2>1. Updates' = Updates
    BY <1>1, <1>5 DEF Updates
  <2>2. UpdatesBooked'
    BY <1>1, <1>3, <1>4, <1>5, <2>1 DEF SaveInv, UpdatesBooked
  <2>3. UpdatesSaved'
    BY <1>1, <1>2, <2>1 DEF SaveInv, UpdatesSaved
  <2>4. WorkersApart'
    BY <1>1, <1>2 DEF SaveInv, WorkersApart
  <2>5. WorkersSave'
    <3> SUFFICES ASSUME NEW v \in Workers
                 PROVE  /\ SavedFirst(todo'[v], at[v] \in saved)
                        /\ (\E i \in DOMAIN todo'[v] : todo'[v][i] = "xup") =>
                             \A f \in Updates : f.dir # at[v]
      BY <1>1, <2>1 DEF WorkersSave
    <3>1. /\ SavedFirst(todo[v], at[v] \in saved)
          /\ (\E i \in DOMAIN todo[v] : todo[v][i] = "xup") => \A f \in Updates : f.dir # at[v]
      BY DEF SaveInv, WorkersSave
    <3>2. CASE v = g
      <4>1. Head(todo[g]) # "save" /\ todo'[v] = Tail(todo[v]) /\ todo[v] \in Seq(Op)
        BY <1>1, <3>2 DEF LogSend, MutexInv, Status
      <4>2. /\ SavedFirst(Tail(todo[v]), at[v] \in saved)
            /\ (\E i \in DOMAIN Tail(todo[v]) : Tail(todo[v])[i] = "xup") =>
                 \E i \in DOMAIN todo[v] : todo[v][i] = "xup"
        BY <1>1, <3>1, <3>2, <4>1, TailSaves
      <4> QED
        BY <3>1, <4>1, <4>2
    <3>3. CASE v # g
      BY <1>1, <3>1, <3>3
    <3> QED
      BY <3>2, <3>3
  <2> QED
    BY <2>2, <2>3, <2>4, <2>5 DEF SaveInv
<1>6. CASE Head(todo[g]) = "xup"
  <2>1. g \in Workers
    <3>1. g # Scanner
      <4>1. g = Scanner => Head(todo[g]) \in {"PNC", "ign", "add"}
        BY <1>1, TailType DEF QuietOps
      <4> QED
        BY <1>6, <4>1
    <3>2. g # Main
      <4>1. g = Main => Head(todo[g]) \in {"PNC"}
        BY <1>1, TailType DEF QuietOps
      <4> QED
        BY <1>6, <4>1
    <3> QED
      BY <3>1, <3>2 DEF Goroutine
  <2>2. /\ Len(todo[g]) \in Nat \ {0} /\ DOMAIN todo[g] = 1..Len(todo[g])
        /\ Head(todo[g]) = todo[g][1] /\ Len(Tail(todo[g])) = Len(todo[g]) - 1
        /\ Tail(todo[g]) \in Seq(Op)
    <3>1. todo[g] \in Seq(Op) /\ todo[g] # <<>>
      BY <1>1
    <3> QED
      BY <3>1, HeadTailProperties, LenProperties, EmptySeq
  <2>3. 1 \in DOMAIN todo[g] /\ todo[g][1] = "xup"
    BY <1>6, <2>2
  <2>4. at[g] \in saved /\ 1 = Len(todo[g]) /\ \A f \in Updates : f.dir # at[g]
    <3>1. SavedFirst(todo[g], at[g] \in saved) /\ \A f \in Updates : f.dir # at[g]
      BY <2>1, <2>3 DEF SaveInv, WorkersSave
    <3>2. 1 = Len(todo[g])
      BY <2>3, <3>1 DEF SavedFirst
    <3>3. at[g] \in saved
      <4>1. ~(1 > 1)
        OBVIOUS
      <4> QED
        BY <2>3, <3>1, <4>1, Zenon DEF SavedFirst
    <3> QED
      BY <3>1, <3>2, <3>3
  <2>5. Tail(todo[g]) = <<>>
    <3>1. Len(Tail(todo[g])) = 0
      <4>1. Len(todo[g]) = 1
        BY <2>4
      <4> QED
        BY <2>2, <4>1
    <3> QED
      BY <2>2, <3>1, EmptySeq
  <2>6. e \in reported' /\ e.stat = "xup" /\ e.dir = at[g] /\ at[g] \in Taken
    BY <1>1, <1>6, <2>1 DEF SaveInv, WorkersApart
  <2>7. Updates' = Updates \cup {e} /\ e \notin Updates
    BY <1>1, <2>4, <2>6 DEF Updates
  <2>8. todo'[g] = <<>> /\ \A v \in Workers \ {g} : todo'[v] = todo[v]
    BY <1>1, <2>5
  <2> HIDE DEF e
  <2>9. UpdatesBooked'
    <3>1. IsFiniteSet(Updates') /\ Cardinality(Updates') = Cardinality(Updates) + 1
      BY <2>7, FS_AddElement DEF SaveInv, UpdatesBooked
    <3>2. shown'["xup"] = shown["xup"] /\ saved' = saved
      BY <1>1
    <3>3. Cardinality(Updates) = shown["xup"] + Cardinality(Queued("xup")) /\ IsFiniteSet(saved)
      BY DEF SaveInv, UpdatesBooked
    <3> QED
      BY <1>3, <1>4, <1>6, <3>1, <3>2, <3>3 DEF UpdatesBooked
  <2>10. UpdatesSaved'
    BY <1>1, <1>2, <2>4, <2>6, <2>7 DEF SaveInv, UpdatesSaved
  <2>11. WorkersApart'
    BY <1>1, <1>2, <2>8 DEF SaveInv, WorkersApart
  <2>12. WorkersSave'
    <3> SUFFICES ASSUME NEW v \in Workers
                 PROVE  /\ SavedFirst(todo'[v], at[v] \in saved)
                        /\ (\E i \in DOMAIN todo'[v] : todo'[v][i] = "xup") =>
                             \A f \in Updates \cup {e} : f.dir # at[v]
      BY <1>1, <2>7 DEF WorkersSave
    <3>1. CASE v = g
      <4>1. DOMAIN todo'[v] = {}
        BY <2>8, <3>1
      <4> QED
        BY <4>1 DEF SavedFirst
    <3>2. CASE v # g
      <4>1. todo'[v] = todo[v] /\ (todo[v] # <<>> => at[v] # at[g])
        BY <1>1, <2>1, <2>8, <3>2 DEF SaveInv, WorkersApart
      <4>2. (\E i \in DOMAIN todo[v] : todo[v][i] = "xup") => todo[v] # <<>>
        <5>1. DOMAIN <<>> = {}
          OBVIOUS
        <5> QED
          BY <5>1
      <4> QED
        BY <2>6, <4>1, <4>2 DEF SaveInv, WorkersSave
    <3> QED
      BY <3>1, <3>2
  <2> QED
    BY <2>9, <2>10, <2>11, <2>12 DEF SaveInv
<1> QED
  BY <1>5, <1>6

LEMMA SaveNext ==
  ASSUME TypeOK, MutexInv, OnceInv, QuietOps, SaveInv, [Next]_vars
  PROVE  SaveInv'
<1> USE Names
<1>1. "xup" \in Status
  BY DEF Status
<1>2. ASSUME NEW g \in Goroutine, LogLock(g)
      PROVE  SaveInv'
  <2>1. UNCHANGED <<saved, taken, reported, shown, logQ, todo, at>>
    BY <1>2 DEF LogLock, handlerVars
  <2>2. Queued("xup")' = Queued("xup")
    BY <2>1 DEF Queued
  <2> QED
    BY <2>1, <2>2, SaveFrame
<1>3. CASE HandleLog
  <2>1. UNCHANGED <<saved, taken, reported, todo, at>>
    BY <1>3 DEF HandleLog
  <2>2. shown["xup"]' + Cardinality(Queued("xup"))' = shown["xup"] + Cardinality(Queued("xup"))
    BY <1>1, <1>3, HandleLogs
  <2> QED
    BY <2>1, <2>2, SaveFrame
<1>4. CASE /\ \A w \in Workers : ~WorkerRecv(w) /\ ~WorkerSave(w) /\ ~PerfSend(w)
           /\ ~HandleLog /\ \A g \in Goroutine : ~LogLock(g) /\ ~LogSend(g)
  <2>1. /\ shown' = shown /\ reported' = reported
        /\ Cardinality(Queued("xup"))' = Cardinality(Queued("xup"))
    BY <1>1, <1>4, OthersLog
  <2>2. UNCHANGED <<saved, taken>> /\ \A w \in Workers : todo'[w] = todo[w] /\ at'[w] = at[w]
    <3>1. CASE ScanDir \/ AddWork \/ EndWork
      BY <3>1 DEF ScanDir, AddWork, EndWork, TypeOK
    <3>2. CASE OpenStore \/ WaitWorkers \/ FinishStore \/ CloseLog \/ ExitCode
      BY <3>2 DEF OpenStore, WaitWorkers, FinishStore, CloseLog, ExitCode, TypeOK
    <3>3. CASE HandlePerf \/ HandleAbort \/ Interrupt
      BY <3>3 DEF HandlePerf, HandleAbort, Interrupt
    <3>4. CASE UNCHANGED vars
      BY <3>4 DEF vars
    <3> QED
      BY <1>4, <3>1, <3>2, <3>3, <3>4
         DEF Next, ScannerNext, WorkerNext, MainNext, Done
  <2> QED
    BY <2>1, <2>2, SaveFrame
<1> QED
  BY <1>2, <1>3, <1>4, SaveRecv, SaveAdvance, SaveSend

LEMMA SaveInit == Init => SaveInv
<1> SUFFICES ASSUME Init
             PROVE  SaveInv
  OBVIOUS
<1> USE Names
<1>1. /\ logQ = <<>> /\ shown = [stat \in Status |-> 0] /\ reported = {} /\ saved = {}
      /\ todo = [g \in Goroutine |-> <<>>]
  BY DEF Init
<1>2. Updates = {} /\ Queued("xup") = {}
  BY <1>1 DEF Updates, Queued, Places
<1>3. UpdatesBooked
  <2>1. IsFiniteSet(Updates) /\ IsFiniteSet(saved) /\ Cardinality(Updates) = 0
        /\ Cardinality(Queued("xup")) = 0
    BY <1>1, <1>2, FS_EmptySet
  <2>2. shown["xup"] = 0
    BY <1>1 DEF Status
  <2> QED
    BY <2>1, <2>2 DEF UpdatesBooked
<1>4. UpdatesSaved
  BY <1>2 DEF UpdatesSaved
<1>5. WorkersApart
  BY <1>1 DEF WorkersApart
<1>6. WorkersSave
  <2>1. \A w \in Workers : DOMAIN todo[w] = {}
    BY <1>1
  <2> QED
    BY <2>1 DEF WorkersSave, SavedFirst
<1> QED
  BY <1>3, <1>4, <1>5, <1>6 DEF SaveInv

\* The summary agrees with the events the user was shown, and no more directories are
\* called updated than were saved.
THEOREM SummaryTrue ==
  ASSUME PathsDisjoint
  PROVE  Spec => []SummaryAgrees
<1> DEFINE Inv == /\ TypeOK /\ LogInv /\ ScanInv /\ NilInv
                  /\ OnceInv /\ PathInv /\ CountInv /\ SaveInv
<1>1. Init => Inv
  BY DrainInv, CoverInit, CountInit, SaveInit
<1>2. Inv /\ [Next]_vars => Inv'
  BY DrainInv, OnceNext, PathNext, CountsNext, QuietNext, SaveNext DEF LogInv, CountInv
<1>3. Inv => (main \in {"exit0", "exit1"} => count["NumIdxUpd"] <= Cardinality(saved))
  <2> SUFFICES ASSUME Inv, main \in {"exit0", "exit1"}
               PROVE  count["NumIdxUpd"] <= Cardinality(saved)
    OBVIOUS
  <2>1. handler = "done" /\ LogClosed
    BY DEF LogInv, ExitInv, LogClosed
  <2>2. "xup" \in Status /\ "xup" \notin {"PNC", "ign"}
    BY DEF Status
  <2>3. Logged("xup") = shown["xup"] /\ Queued("xup") = {} /\ shown["xup"] \in Nat
    BY <2>1, <2>2, AllShown, LoggedType DEF CountInv
  <2>4. count["NumIdxUpd"] = Cardinality(Updates)
    BY <2>3, FS_EmptySet DEF CountInv, CountsLogged, SaveInv, UpdatesBooked
  <2> DEFINE f == [e \in Updates |-> e.dir]
  <2>5. f \in Injection(Updates, saved)
    <3>1. f \in [Updates -> saved] /\ \A a, b \in Updates : f[a] = f[b] => a = b
      BY DEF SaveInv, UpdatesSaved
    <3> HIDE DEF f
    <3> QED
      BY <3>1, Fun_IsInj
  <2>6. IsFiniteSet(saved)
    BY DEF SaveInv, UpdatesBooked
  <2> HIDE DEF f
  <2>7. Cardinality(Updates) <= Cardinality(saved)
    BY <2>5, <2>6, FS_Injection
  <2> QED
    BY <2>4, <2>7
<1>4. Spec => [](main \in {"exit0", "exit1"} => count["NumIdxUpd"] <= Cardinality(saved))
  BY <1>1, <1>2, <1>3, PTL DEF Spec
<1>5. /\ main \in {"exit0", "exit1"} => CountsShown
      /\ main \in {"exit0", "exit1"} => count["NumIdxUpd"] <= Cardinality(saved)
      => SummaryAgrees
  BY DEF SummaryAgrees
<1> QED
  BY <1>4, <1>5, CountsAgree, PTL
=============================================================================
