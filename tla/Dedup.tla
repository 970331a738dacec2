-------------------------------- MODULE Dedup --------------------------------
(***************************************************************************)
(* The dedup command over several runs: DetectDupes collects the files     *)
(* with equal hashes and how they share space on the disk, Dedup merges    *)
(* them.  Each run works in one transaction on the dedup database, while   *)
(* its effects on the disk are immediate; it can be aborted, killed, or    *)
(* fail for some files, and other programs rewrite and delete files        *)
(* meanwhile.  The run sends its log to the select loop                    *)
(* handleDedupProgress, which also takes the interrupts.                   *)
(*                                                                         *)
(* Where a file lies on the disk is one extent.  The sizes of a bag are    *)
(* multiples of the size of its files, and are counted in files, modulo    *)
(* Word for the unsigned integers of the code.  The lists of a bag are     *)
(* built in the order of Go maps and sorted by merged only: they are sets. *)
(* The atom index does not change between the runs.  PerfQueue is left     *)
(* out: a send on it waits only while the handler is busy.                 *)
(* A file within the metadata of the file system, which has no place, is   *)
(* left to Extents (by default a detect leaves out files that small).      *)
(* External: the file system, which shares only equal ranges, and the      *)
(* database (bbolt), whose transactions are atomic.                        *)
(***************************************************************************)
EXTENDS Naturals, Sequences, FiniteSets

CONSTANTS
  Files, Hashes,
  HashOf,      \* the atom index: the hash of each file
  Systems,     \* what the system may do: "share" extents, "show" them, or "none"
  Contents,    \* what other programs may make of a file
  LogCap,      \* capacity of LogQueue
  Word,        \* bound: the unsigned integers are modulo Word
  MaxRuns, MaxChanges, MaxStops,   \* bounds
  None         \* no file, no bag, no transaction

ASSUME DedupAssumption ==
  /\ IsFiniteSet(Files) /\ HashOf \in [Files -> Hashes]
  /\ Systems \subseteq {"share", "show", "none"} /\ Systems # {}
  /\ Contents \subseteq {"indexed", "other", "grown", "short", "empty"}
  /\ LogCap \in Nat \ {0} /\ Word \in Nat /\ Word > Cardinality(Files)
  /\ {MaxRuns, MaxChanges, MaxStops} \subseteq Nat
  /\ None \notin Files \cup Hashes

\* With as many extents as files there is a free one for a file that moves.
Extent == Files

VARIABLES
  (* the disk *)
  ext,       \* ext[f]: where f lies, or None if it is gone
  content,   \* content[f]: "indexed", or what others made of it: something "other",
             \* the same and more ("grown"), the first part of it ("short"), nothing
  system,    \* one of Systems
  (* the database *)
  gen,       \* generation in the status bucket
  bags,      \* bags[h]: the bag stored for hash h, or None
  (* the goroutine of runDedup *)
  pc,
  given,     \* the hashes it is run for: by size for detect, by name for dedup
  txGen, txBags,   \* the transaction
  todo,      \* hashes still to be looked at
  hash,      \* the hash being looked at
  left,      \* its files still to be looked at
  found,     \* DetectDupes: the extents found so far
  bag, leader,     \* Dedup: its bag and the file the others are merged with
  hadErrors, \* whether an error was logged or returned
  (* history *)
  detected,  \* the hashes given to the last detect that was committed
  fresh,     \* files whose extents this detect has read and nobody changed since
  touched,   \* files others changed after the extents in the database were read, and
             \* that were not merged since
  (* the handler *)
  logQ,      \* LogQueue
  handler,   \* "run", "send" (sends the abort message), or "done"
  doAbort, abortChan,
  (* bounds *)
  runs, changes, stops

diskVars == <<ext, content, system, touched>>
dbVars == <<gen, bags, detected>>
txVars == <<txGen, txBags>>
jobVars == <<given, todo, hash, left, found, bag, leader, fresh>>
handlerVars == <<handler, doAbort, abortChan>>
bounds == <<runs, changes, stops>>
vars == <<diskVars, dbVars, pc, txVars, jobVars, hadErrors, logQ, handlerVars, bounds>>

NoBags == [h \in Hashes |-> None]
NoExtents == [f \in {} |-> None]
NoBag == [gen |-> 0, merged |-> NoExtents, shared |-> 0, exclusive |-> 0]

\* files with the same hash may lie in the same extent
Init ==
  /\ ext \in {e \in [Files -> Extent] :
                \A f \in Files : e[e[f]] = e[f] /\ HashOf[e[f]] = HashOf[f]}
  /\ content = [f \in Files |-> "indexed"] /\ system \in Systems
  /\ gen = 0 /\ bags = NoBags
  /\ pc = "idle" /\ txGen = 0 /\ txBags = NoBags
  /\ given = {} /\ todo = {} /\ hash = None /\ left = {} /\ found = NoExtents
  /\ bag = NoBag /\ leader = None /\ hadErrors = FALSE /\ detected = {}
  /\ fresh = {} /\ touched = {}
  /\ logQ = <<>> /\ handler = "done" /\ doAbort = FALSE /\ abortChan = 0
  /\ runs = 0 /\ changes = 0 /\ stops = 0

-----------------------------------------------------------------------------
(* Sending to the handler, and leaving the transaction                     *)

\* d.log blocks while the queue is full
Log(msg) == Len(logQ) < LogCap /\ logQ' = Append(logQ, msg)

\* doAbort is written by the handler and read without synchronisation
AbortRead == {FALSE, doAbort}

\* the function passed to conn.Update returns an error: nothing is stored
Rollback ==
  /\ pc' = "result" /\ hadErrors' = TRUE
  /\ UNCHANGED <<diskVars, dbVars, txVars, jobVars, logQ, handlerVars, bounds>>

\* it returns nil: everything is stored, or Commit fails
Commit(b) ==
  \/ /\ gen' = txGen /\ bags' = b /\ pc' = "result"
     /\ detected' = (IF pc = "detect" THEN given ELSE detected)
     /\ touched' = touched \ fresh
     /\ UNCHANGED <<ext, content, system, txVars, jobVars, hadErrors, logQ, handlerVars, bounds>>
  \/ Rollback

-----------------------------------------------------------------------------
(* DetectDupes                                                             *)

Candidates(h) == {f \in Files : HashOf[f] = h}

\* (mutant) the generation is not advanced
NextGenStays == gen

\* nextGen
NextGen == gen + 1

Start(cmd, hashes) ==
  /\ pc = "idle" /\ runs < MaxRuns /\ runs' = runs + 1
  /\ pc' = cmd /\ given' = hashes /\ todo' = hashes
  /\ txBags' = bags /\ txGen' = (IF cmd = "collect" THEN NextGen ELSE gen)
  /\ hadErrors' = FALSE /\ handler' = "run" /\ doAbort' = FALSE /\ abortChan' = 0
  /\ fresh' = {}
  /\ UNCHANGED <<diskVars, dbVars, hash, left, found, bag, leader, logQ, changes,
                 stops>>

\* runDedup starts DetectDupes; only hashes of several files, and of at least
\* the minimal size, are looked at
Detect ==
  \E large \in SUBSET Hashes :
    Start("collect", {h \in large : Cardinality(Candidates(h)) > 1})

\* The hashes are collected from the atom file, with some messages, unless the
\* run was aborted or the file cannot be read.
Collect ==
  /\ pc = "collect"
  /\ \/ Rollback
     \/ /\ Log("msg") /\ pc' = "detect"
        /\ UNCHANGED <<diskVars, dbVars, txVars, jobVars, hadErrors, handlerVars, bounds>>

\* the next hash, unless the run was aborted
DetectHash ==
  /\ pc = "detect" /\ todo # {}
  /\ \/ TRUE \in AbortRead /\ Rollback
     \/ \E h \in todo :
          /\ todo' = todo \ {h} /\ hash' = h /\ left' = Candidates(h)
          /\ found' = NoExtents /\ pc' = "extents"
          /\ UNCHANGED <<diskVars, dbVars, txVars, given, bag, leader, fresh, hadErrors,
                         logQ, handlerVars, bounds>>

\* GetFileExtents: a file that is gone is passed over, an error is logged too
DetectFile ==
  /\ pc = "extents"
  /\ \E f \in left :
       /\ left' = left \ {f}
       /\ \/ /\ system = "none" \/ ext[f] # None
             /\ fresh' = fresh \cup {f}
             /\ found' = [x \in DOMAIN found \cup {f} |->
                            IF x # f THEN found[x] ELSE IF system = "none" THEN None ELSE ext[f]]
             /\ UNCHANGED <<hadErrors, logQ>>
          \/ /\ system # "none" /\ ext[f] = None
             /\ UNCHANGED <<found, fresh, hadErrors, logQ>>
          \/ /\ system # "none" /\ ext[f] # None
             /\ Log("msg") /\ hadErrors' = TRUE /\ UNCHANGED <<found, fresh>>
  /\ UNCHANGED <<diskVars, dbVars, pc, txVars, given, todo, hash, bag, leader, handlerVars,
                 bounds>>

\* (mutant) two files without known extents match
GroupZeroMatches(f) == {x \in DOMAIN found : found[x] = found[f]}

\* files with the same extents; what is unknown matches nothing
Group(f) == {x \in DOMAIN found : x = f \/ (found[f] # None /\ found[x] = found[f])}

\* the largest group of several files (any one of them), or nothing
Largest ==
  LET groups == {Group(f) : f \in DOMAIN found} IN
  IF \A g \in groups : Cardinality(g) = 1 THEN {{}}
  ELSE {g \in groups : \A o \in groups : Cardinality(o) <= Cardinality(g)}

\* The result for the hash; one with fewer than two files is not stored and what
\* is stored for it will be removed.
DetectBag ==
  /\ pc = "extents" /\ left = {} /\ pc' = "detect"
  /\ \/ /\ Cardinality(DOMAIN found) < 2 /\ txBags' = [txBags EXCEPT ![hash] = None]
     \/ /\ Cardinality(DOMAIN found) >= 2
        /\ \E g \in Largest :
             txBags' = [txBags EXCEPT ![hash] =
               [gen |-> txGen, merged |-> [f \in DOMAIN found |-> f \in g],
                shared |-> Cardinality(g),
                exclusive |-> Cardinality({Group(f) : f \in DOMAIN found})]]
  /\ UNCHANGED <<diskVars, dbVars, txGen, jobVars, hadErrors, logQ, handlerVars, bounds>>

\* the bags of other generations are removed
DetectEnd ==
  /\ pc = "detect" /\ todo = {}
  /\ Commit([h \in Hashes |-> IF txBags[h] # None /\ txBags[h].gen = txGen
                              THEN txBags[h] ELSE None])

-----------------------------------------------------------------------------
(* Dedup                                                                   *)

\* runDedup starts Dedup for the hashes given, or all that are stored
Run ==
  \E hashes \in SUBSET Hashes :
    Start("dedup", IF hashes = {} THEN {h \in Hashes : bags[h] # None} ELSE hashes)

\* (mutant) the list is not sorted
LeadersUnsorted(b) == DOMAIN b.merged

\* the first file of the sorted list: a merged one, if there is one
Leaders(b) ==
  IF \E f \in DOMAIN b.merged : b.merged[f] THEN {f \in DOMAIN b.merged : b.merged[f]}
  ELSE DOMAIN b.merged

\* the next hash, unless the run was aborted or the hash is unknown
DedupHash ==
  /\ pc = "dedup" /\ todo # {}
  /\ \/ TRUE \in AbortRead /\ Rollback
     \/ (\E h \in todo : txBags[h] = None) /\ Rollback
     \/ \E h \in {x \in todo : txBags[x] # None} : \E f \in Leaders(txBags[h]) :
          /\ todo' = todo \ {h} /\ hash' = h /\ bag' = txBags[h] /\ leader' = f
          /\ left' = {x \in DOMAIN bag'.merged \ {f} : ~bag'.merged[x]}
          /\ pc' = "files"
          /\ UNCHANGED <<diskVars, dbVars, txVars, given, found, fresh, hadErrors, logQ,
                         handlerVars, bounds>>

\* the next file is announced, unless the run was aborted
DedupFile ==
  /\ pc = "files" /\ left # {}
  /\ \/ TRUE \in AbortRead /\ Rollback
     \/ /\ Log("msg") /\ pc' = "merge"
        /\ UNCHANGED <<diskVars, dbVars, txVars, jobVars, hadErrors, handlerVars, bounds>>

\* (mutant) the leader of a bag without merged files is not counted
MergedWithoutLeader(b, f) ==
  [b EXCEPT !.merged[leader] = TRUE, !.merged[f] = TRUE,
            !.shared = (@ + 1) % Word,
            !.exclusive = (@ + Word - 1) % Word]

\* the bag after f was merged with the leader
Merged(b, f) ==
  [b EXCEPT !.merged[leader] = TRUE, !.merged[f] = TRUE,
            !.shared = (@ + (IF b.merged[leader] THEN 1 ELSE 2)) % Word,
            !.exclusive = (@ + Word - 1) % Word]

Free(e, f) == \A x \in Files \ {f} : ext[x] # e

\* the contents that begin with this one
Longer ==
  [empty |-> {"empty", "short", "indexed", "grown", "other"},
   short |-> {"short", "indexed", "grown"}, indexed |-> {"indexed", "grown"},
   grown |-> {"grown"}, other |-> {"other"}]

\* The content of f begins with that of the leader: DeduplicateFiles goes by the
\* size of its first file.
Begins(f) ==
  ext[leader] # None /\ ext[f] # None /\ content[f] \in Longer[content[leader]]

\* where f may lie after a part of it, at most, was shared
Moved(f) ==
  {ext} \cup
  (IF {content[leader], content[f]} \cap {"empty"} # {} \/ None \in {ext[leader], ext[f]}
      \/ ext[f] = ext[leader] THEN {}
   ELSE {[ext EXCEPT ![f] = e] : e \in {x \in Extent : Free(x, f)}})

\* where it lies when all of the leader was
SharedWith(f) ==
  IF content[f] = content[leader] /\ content[f] # "empty" THEN {[ext EXCEPT ![f] = ext[leader]]}
  ELSE Moved(f)

\* DeduplicateFiles: f shares the extents of the leader and the bag says so, or
\* an error is logged and some of f may be shared by then.  Not supported ends
\* the run.
DedupMerge ==
  /\ pc = "merge"
  /\ \/ /\ system # "share" /\ Log("msg") /\ pc' = "result" /\ hadErrors' = TRUE
        /\ UNCHANGED <<ext, left, bag, touched>>
     \/ /\ system # "none" /\ pc' = "files"
        /\ \E f \in left :
             /\ left' = left \ {f}
             /\ \/ /\ system = "share" /\ Begins(f) /\ ext' \in SharedWith(f)
                   /\ bag' = Merged(bag, f) /\ touched' = touched \ {f}
                   /\ UNCHANGED <<logQ, hadErrors>>
                \/ /\ Log("msg") /\ hadErrors' = TRUE /\ UNCHANGED <<bag, touched>>
                   /\ ext' \in (IF system = "share" THEN Moved(f) ELSE {ext})
  /\ UNCHANGED <<content, system, dbVars, txVars, given, todo, hash, found, leader, fresh,
                 handlerVars, bounds>>

DedupBag ==
  /\ pc = "files" /\ left = {} /\ pc' = "dedup"
  /\ txBags' = [txBags EXCEPT ![hash] = bag]
  /\ UNCHANGED <<diskVars, dbVars, txGen, jobVars, hadErrors, logQ, handlerVars, bounds>>

DedupEnd == pc = "dedup" /\ todo = {} /\ Commit(txBags)

-----------------------------------------------------------------------------
(* runDedup around them, and handleDedupProgress                           *)

\* the goroutine has its result and sends nil
SendNil ==
  /\ pc = "result" /\ Log("nil") /\ pc' = "sent"
  /\ UNCHANGED <<diskVars, dbVars, txVars, jobVars, hadErrors, handlerVars, bounds>>

HandleLog ==
  /\ handler = "run" /\ logQ # <<>> /\ logQ' = Tail(logQ)
  /\ handler' = IF Head(logQ) = "nil" THEN "done" ELSE "run"
  /\ UNCHANGED <<diskVars, dbVars, pc, txVars, jobVars, hadErrors, doAbort, abortChan,
                 bounds>>

Reset ==
  /\ pc' = "idle" /\ given' = {} /\ txGen' = 0 /\ txBags' = NoBags
  /\ todo' = {} /\ hash' = None /\ left' = {} /\ found' = NoExtents
  /\ bag' = NoBag /\ leader' = None /\ fresh' = {}
  /\ logQ' = <<>> /\ handler' = "done" /\ abortChan' = 0

\* (mutant) the handler returns on the first interrupt
HandleAbortReturns ==
  /\ handler = "run" /\ abortChan = 1
  /\ doAbort' = TRUE /\ abortChan' = 0 /\ handler' = "done"
  /\ UNCHANGED <<diskVars, dbVars, pc, txVars, jobVars, hadErrors, logQ, bounds>>

\* the first interrupt asks for an abort and says so in LogQueue, the second
\* one ends the process
HandleAbort ==
  /\ handler = "run" /\ abortChan = 1
  /\ \/ /\ ~doAbort /\ doAbort' = TRUE /\ abortChan' = 0 /\ handler' = "send"
        /\ UNCHANGED <<pc, txVars, jobVars, logQ>>
     \/ doAbort /\ Reset /\ UNCHANGED doAbort
  /\ UNCHANGED <<diskVars, dbVars, hadErrors, bounds>>

HandleSend ==
  /\ handler = "send" /\ Log("msg") /\ handler' = "run"
  /\ UNCHANGED <<diskVars, dbVars, pc, txVars, jobVars, hadErrors, doAbort, abortChan,
                 bounds>>

\* the program ends when the handler has returned
Exit ==
  /\ pc = "sent" /\ handler = "done" /\ Reset
  /\ UNCHANGED <<diskVars, dbVars, hadErrors, doAbort, bounds>>

Stop == pc # "idle" /\ stops < MaxStops /\ stops' = stops + 1

Interrupt ==
  /\ Stop /\ abortChan' = 1
  /\ UNCHANGED <<diskVars, dbVars, pc, txVars, jobVars, hadErrors, logQ, handler,
                 doAbort, runs, changes>>

Kill == Stop /\ Reset /\ UNCHANGED <<diskVars, dbVars, hadErrors, doAbort, runs, changes>>

\* another program rewrites a file, which moves it (a restored copy has the content it
\* had), or deletes it
Rewrite(f) ==
  /\ changes < MaxChanges /\ changes' = changes + 1 /\ ext[f] # None
  /\ \/ /\ \E c \in Contents : content' = [content EXCEPT ![f] = c]
        /\ \E e \in Extent : Free(e, f) /\ ext' = [ext EXCEPT ![f] = e]
     \/ ext' = [ext EXCEPT ![f] = None] /\ UNCHANGED content
  /\ touched' = touched \cup {f} /\ fresh' = fresh \ {f}
  /\ UNCHANGED <<system, dbVars, pc, txVars, given, todo, hash, left, found, bag, leader,
                 hadErrors, logQ, handlerVars, runs, stops>>

Idle == pc = "idle" /\ UNCHANGED vars

Job == Detect \/ Collect \/ DetectHash \/ DetectFile \/ DetectBag \/ DetectEnd \/ Run \/ DedupHash
       \/ DedupFile \/ DedupMerge \/ DedupBag \/ DedupEnd \/ SendNil \/ Exit
Handler == HandleLog \/ HandleAbort \/ HandleSend

Next == Job \/ Handler \/ Interrupt \/ Kill \/ (\E f \in Files : Rewrite(f)) \/ Idle

Fairness == WF_vars(Job) /\ WF_vars(HandleLog) /\ WF_vars(HandleAbort) /\ WF_vars(HandleSend)

Spec == Init /\ [][Next]_vars /\ Fairness

-----------------------------------------------------------------------------
(* Properties                                                              *)

Bag == UNION {[gen : 0..MaxRuns, merged : [F -> BOOLEAN], shared : 0..(Word - 1),
               exclusive : 0..(Word - 1)] : F \in SUBSET Files}

TypeOK ==
  /\ fresh \subseteq Files /\ touched \subseteq Files
  /\ ext \in [Files -> Extent \cup {None}] /\ content \in [Files -> Contents \cup {"indexed"}]
  /\ system \in Systems
  /\ gen \in 0..MaxRuns /\ txGen \in 0..MaxRuns
  /\ \A h \in Hashes : bags[h] \in Bag \cup {None} /\ txBags[h] \in Bag \cup {None}
  /\ pc \in {"idle", "collect", "detect", "extents", "dedup", "files", "merge", "result", "sent"}
  /\ given \subseteq Hashes /\ todo \subseteq given /\ detected \subseteq Hashes /\ left \subseteq Files /\ bag \in Bag
  /\ hash \in Hashes \cup {None} /\ leader \in Files \cup {None}
  /\ logQ \in Seq({"msg", "nil"}) /\ Len(logQ) <= LogCap
  /\ handler \in {"run", "send", "done"}
  /\ pc \notin {"idle", "sent"} => handler # "done"
  /\ doAbort \in BOOLEAN /\ hadErrors \in BOOLEAN /\ abortChan \in 0..1

Stored == {h \in Hashes : bags[h] # None}
MergedFiles(b) == {f \in DOMAIN b.merged : b.merged[f]}

\* Files that the database shows as merged do lie in the same place, unless others
\* changed one of them since: also after runs that were aborted, killed or failed
\* for some of the files (DetectDupes, Dedup).  One changed file is enough to make
\* the others, which nobody touched, lie in two places: as the leader it takes those
\* merged next to its own place, or, if it was shortened, nowhere, and
\* DeduplicateFiles succeeds.
MergedShare ==
  \A h \in Stored : LET M == MergedFiles(bags[h]) IN
    (\A f \in M : content[f] = "indexed" /\ f \notin touched) =>
      \A f, g \in M : ext[f] = ext[g]

\* The shared size of a bag is that of its merged files, over detect and any
\* number of runs.
SharedIsMerged == \A h \in Stored : bags[h].shared = Cardinality(MergedFiles(bags[h]))

\* The database holds no hash that the last finished detect was not run for: a
\* hash that is gone from the index or below the minimal size does not stay,
\* whatever happened to the runs in between (the generations of DetectDupes).
NothingStale == Stored \subseteq detected

\* After a run of Dedup without errors all the files of the hashes it was given
\* are merged.
AllMerged ==
  pc = "sent" /\ ~hadErrors /\ leader # None =>
    \A h \in given : MergedFiles(bags[h]) = DOMAIN bags[h].merged

\* showDedupStatus: "Actual used space" is not less than "Minimum required
\* space", one file for each hash.
ActualAtLeastMinimum == \A h \in Stored : 1 <= bags[h].exclusive

\* Every run ends, also when it is aborted.
DedupEnds == pc # "idle" ~> pc = "idle"
=============================================================================
