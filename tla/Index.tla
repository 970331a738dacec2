------------------------------- MODULE Index -------------------------------
(***************************************************************************)
(* The index of one directory over many runs of check and update, while    *)
(* the directory changes under it: files are rewritten, restored from a    *)
(* backup, damaged on the disk or deleted, also while they are hashed.     *)
(*                                                                         *)
(* One run is scanDir's listing of the directory followed by runWorker:    *)
(* Index.load, calcHashes with one calcFile per file, checkFix and save.   *)
(* A step of the model is one system call of these functions, so that      *)
(* writers may come between any two of them; checkFix makes none and is    *)
(* one step.  A hash function is taken to be injective: a hash is the      *)
(* algorithm with the content it was computed from.                        *)
(*                                                                         *)
(* The index is stored as in split mode, one file per directory.           *)
(***************************************************************************)
EXTENDS Naturals, Sequences, FiniteSets

CONSTANTS
  Files, Subs,   \* names of the files and subdirectories the directory may hold
  Contents,      \* what a file may contain: sequences of blocks of one Read
  Algos,
  Options,       \* the command lines: records, see Option
  Budget,        \* bounds: how often each kind of event may happen
  LiveWrites,    \* bound: the rewrites that may happen while a run is active
  None           \* no file, no entry, no work

Event == {"run", "write", "live", "rot", "restore", "delete", "break", "mkdir",
          "ignore", "tamper", "fail", "kill", "total"}
Option == [update : BOOLEAN, skipCheck : BOOLEAN, force : BOOLEAN,
           keepMissing : BOOLEAN, logDeleted : BOOLEAN, trackDirs : BOOLEAN,
           showIgnored : BOOLEAN, algo : Algos]
Time == 1..(1 + Budget["write"] + Budget["live"])
Block == UNION {{c[i] : i \in DOMAIN c} : c \in Contents}
NoHash == <<>>
Entry == [mtime : Time \cup {0}, algo : Algos, hash : Seq(Block)]
File == [data : Contents, mtime : Time]

ASSUME IndexAssumption ==
  /\ IsFiniteSet(Files) /\ IsFiniteSet(Subs)
  /\ \A c \in Contents : c \in Seq(Block) /\ Len(c) > 0
  /\ "md5" \in Algos
  /\ "index" \notin Files \cup Subs /\ Files \cap Subs = {}
  /\ Options \subseteq Option
  /\ Budget \in [Event -> Nat]
  /\ LiveWrites \subseteq Contents \X Contents
  /\ None \notin File /\ None \notin Entry /\ None \notin Files
  /\ None \notin Options /\ None \notin Contents

VARIABLES
  (* the directory *)
  file,      \* file[f]: content and modification time, or None
  broken,    \* files whose content cannot be read
  ignored,   \* names the ignore files match
  subdirs,   \* subdirectories that exist
  store,     \* the index file: state, entries and directory list
  (* one run *)
  pc, opt,
  listing,   \* what scanDir found: files, ign(ored names), dirs
  cur,       \* Index.cur and .curDirList: entries, dirs
  new, newDirList, modified,  \* the fields of Index of these names
  left,      \* files calcHashes has still to look at
  work,      \* calcFile: the file, its times, the blocks read, which hash
  log,       \* <<status, name>> logged in this run
  (* bounds and history *)
  spent,     \* spent[k]: events of kind k so far
  now,       \* the clock: the last modification time given out
  truth,     \* truth[f][t]: what was written to f at time t
  rotted,    \* files whose content was ever damaged
  changed,   \* names touched in any way since the run listed the directory
  certified, \* certified[f]: the modification time for which the right hash of
             \* f was saved last, or 0; reset when the run that loses its entry
             \* reports the file or the index, or the file was gone, ignored
             \* or changing, but not by any other loss
  quiet      \* options of the last update, if nothing happened since; or None

dirVars == <<file, broken, ignored, subdirs>>
indexVars == <<cur, new, newDirList, modified>>
runVars == <<opt, listing, indexVars, left, work>>
worldHist == <<now, truth, rotted, changed>>
vars == <<dirVars, store, pc, runVars, log, spent, worldHist, certified, quiet>>

NoEntries == [f \in Files |-> None]
NoIndex == [state |-> "none", entries |-> NoEntries, dirs |-> {}]
Unparseable == [state |-> "corrupt", entries |-> NoEntries, dirs |-> {}]
NoList == [files |-> {}, ign |-> {}, dirs |-> {}]
NoWork == [name |-> None, mtime |-> 0, size |-> 0, buf |-> <<>>, pass |-> 0]
Present == {f \in Files : file[f] # None}
Has(entries) == {f \in Files : entries[f] # None}

\* one event of kind k, if the bounds allow it: that of its kind and, but for
\* runs, that of the total
Spend(k) ==
  /\ spent[k] < Budget[k] /\ (k = "run" \/ spent["total"] < Budget["total"])
  /\ spent' = [spent EXCEPT ![k] = @ + 1, !["total"] = IF k = "run" THEN @ ELSE @ + 1]

\* A directory with some files and no index, or with an index an old version
\* wrote for them (md5, no sizes, no directory list).
Init ==
  \E c \in [Files -> Contents], legacy \in BOOLEAN :
    /\ file = [f \in Files |-> [data |-> c[f], mtime |-> 1]]
    /\ truth = [f \in Files |-> [t \in Time |-> IF t = 1 THEN c[f] ELSE None]]
    /\ store = IF legacy
         THEN [state |-> "legacy", dirs |-> {}, entries |->
                [f \in Files |-> [mtime |-> 1, algo |-> "md5", hash |-> c[f]]]]
         ELSE NoIndex
    /\ certified = [f \in Files |-> IF legacy THEN 1 ELSE 0]
    /\ broken = {} /\ ignored = {} /\ subdirs = {}
    /\ pc = "idle" /\ opt = None /\ listing = NoList
    /\ cur = [entries |-> NoEntries, dirs |-> {}]
    /\ new = NoEntries /\ newDirList = {} /\ modified = FALSE
    /\ left = {} /\ work = NoWork /\ log = {}
    /\ spent = [k \in Event |-> 0] /\ now = 1 /\ rotted = {} /\ changed = {}
    /\ quiet = None

-----------------------------------------------------------------------------
(* One run                                                                 *)

\* scanDir for this directory: ReadDir and the ignore file; then newIndex
Begin ==
  /\ pc = "idle" /\ Spend("run") /\ pc' = "load"
  /\ opt' \in Options
  /\ listing' = [files |-> Present, ign |-> ignored, dirs |-> subdirs \ ignored]
  /\ newDirList' = listing'.dirs /\ left' = Present
  /\ changed' = {}
  /\ UNCHANGED <<dirVars, store, cur, new, modified, work, log, now, truth,
                 rotted, certified, quiet>>

\* (mutant) an index that does not parse is taken for a missing one
LoadForgives ==
  /\ pc = "load"
  /\ cur' = [entries |-> store.entries, dirs |-> store.dirs]
  /\ modified' = (store.state \in {"unverified", "legacy"})
  /\ log' = (IF store.state = "unverified" THEN {<<"ERX", "index">>} ELSE {})
  /\ pc' = IF opt.showIgnored THEN "done" ELSE "calc"
  /\ UNCHANGED <<dirVars, store, opt, listing, new, newDirList, left, work,
                 spent, worldHist, certified, quiet>>

\* Index.load, followed by showIgnoredOnly when only that is asked for
Load ==
  /\ pc = "load"
  /\ cur' = [entries |-> store.entries, dirs |-> store.dirs]
  /\ modified' = (store.state \in {"unverified", "legacy"})
  /\ log' = (IF store.state = "corrupt" THEN {<<"PNC", "index">>} ELSE {})
       \cup (IF store.state = "unverified" THEN {<<"ERX", "index">>} ELSE {})
       \cup (IF opt.showIgnored THEN {<<"ign", f>> : f \in listing.files \cap listing.ign}
             ELSE {})
  /\ pc' = IF opt.showIgnored THEN "done" ELSE "calc"
  /\ UNCHANGED <<dirVars, store, opt, listing, new, newDirList, left, work,
                 spent, worldHist, certified, quiet>>

Unmodified(f) == file[f] # None /\ file[f].mtime = cur.entries[f].mtime

\* The files calcHashes settles without reading them: ignored ones, unmodified
\* ones with --skip-existing, and new ones in a check.
SkipFile ==
  /\ pc = "calc"
  /\ \E f \in left :
       /\ left' = left \ {f}
       /\ \/ f \in listing.ign /\ log' = log \cup {<<"ign", f>>} /\ UNCHANGED new
          \/ /\ f \notin listing.ign /\ cur.entries[f] # None
             /\ opt.skipCheck /\ Unmodified(f)
             /\ new' = [new EXCEPT ![f] = cur.entries[f]] /\ UNCHANGED log
          \/ /\ f \notin listing.ign /\ cur.entries[f] = None /\ ~opt.update
             /\ new' = [new EXCEPT ![f] = [mtime |-> 0, algo |-> opt.algo, hash |-> NoHash]]
             /\ UNCHANGED log
  /\ UNCHANGED <<dirVars, store, pc, opt, listing, cur, newDirList, modified,
                 work, spent, worldHist, certified, quiet>>

\* (mutant) every file is hashed with the algorithm of the command line
AlgoOfCommand(f) == opt.algo

\* the algorithm of a known file is that of its entry
AlgoOf(f) == IF cur.entries[f] # None THEN cur.entries[f].algo ELSE opt.algo

\* (mutant) the error is logged and calcFile goes on
CalcErrorContinues(f) ==
  /\ pc' = "calc" /\ log' = log \cup {<<"PNC", f>>}
  /\ UNCHANGED <<work, new>>

\* calcFile fails: the file is reported and gets no entry in new
CalcError(f) ==
  /\ pc' = "calc" /\ work' = NoWork /\ log' = log \cup {<<"PNC", f>>}
  /\ UNCHANGED new

\* calcFile returns the blocks read and the modification time
CalcResult(f, mtime, blocks) ==
  /\ pc' = "calc" /\ work' = NoWork
  /\ new' = [new EXCEPT ![f] = [mtime |-> mtime, algo |-> AlgoOf(f), hash |-> blocks]]
  /\ UNCHANGED log

\* calcHashes calls calcFile, which begins with getMtS
Stat ==
  /\ pc = "calc"
  /\ \E f \in left :
       /\ left' = left \ {f} /\ f \notin listing.ign
       /\ IF cur.entries[f] = None THEN opt.update ELSE ~opt.skipCheck \/ ~Unmodified(f)
       /\ \/ file[f] = None /\ CalcError(f)
          \/ /\ file[f] # None /\ pc' = "open"
             /\ work' = [name |-> f, mtime |-> file[f].mtime, size |-> Len(file[f].data),
                         buf |-> <<>>, pass |-> 1]
             /\ UNCHANGED <<new, log>>
  /\ UNCHANGED <<dirVars, store, opt, listing, cur, newDirList, modified,
                 spent, worldHist, certified, quiet>>

calcFrame == <<dirVars, store, opt, listing, cur, newDirList, modified, left,
               spent, worldHist, certified, quiet>>

\* os.Open in Hashfile
Open ==
  /\ pc = "open"
  /\ \/ file[work.name] = None /\ CalcError(work.name)
     \/ file[work.name] # None /\ pc' = "read" /\ UNCHANGED <<work, new, log>>
  /\ UNCHANGED calcFrame

\* one file.Read in Hashfile: an error, the next block, or the end of the file
Read ==
  LET data == file[work.name].data
      pos == Len(work.buf) IN
  /\ pc = "read"
  /\ \/ work.name \in broken /\ CalcError(work.name)
     \/ /\ work.name \notin broken /\ pos < Len(data)
        /\ work' = [work EXCEPT !.buf = Append(@, data[pos + 1])]
        /\ UNCHANGED <<pc, new, log>>
     \/ /\ work.name \notin broken /\ pos >= Len(data) /\ work.pass = 1
        /\ pc' = "restat" /\ UNCHANGED <<work, new, log>>
     \/ /\ work.name \notin broken /\ pos >= Len(data) /\ work.pass = 2
        /\ CalcResult(work.name, work.mtime, work.buf)
  /\ UNCHANGED calcFrame

\* (mutant) the second getMtS is not looked at
RehashNever(mtime, size) == FALSE

\* the condition under which calcFile hashes again
Rehash(mtime, size) == mtime # work.mtime /\ size # work.size

\* the second getMtS
Restat ==
  LET f == file[work.name] IN
  /\ pc = "restat"
  /\ \/ f = None /\ CalcError(work.name)
     \/ /\ f # None /\ Rehash(f.mtime, Len(f.data))
        /\ pc' = "open" /\ UNCHANGED <<new, log>>
        /\ work' = [work EXCEPT !.mtime = f.mtime, !.size = Len(f.data),
                                !.buf = <<>>, !.pass = 2]
     \/ /\ f # None /\ ~Rehash(f.mtime, Len(f.data))
        /\ CalcResult(work.name, work.mtime, work.buf)
  /\ UNCHANGED calcFrame

\* (mutant) other content with an equal time is an update
VerdictNotOlder(f) ==
  LET a == cur.entries[f]
      b == new[f] IN
  CASE a = None -> "new"
    [] a # None /\ b.hash # NoHash /\ a.algo = b.algo /\ a.hash = b.hash -> "ok"
    [] OTHER -> IF a.mtime <= b.mtime THEN "upd" ELSE "old"

\* what checkFix says of a file calcHashes made an entry for
Verdict(f) ==
  LET a == cur.entries[f]
      b == new[f] IN
  CASE a = None -> "new"
    [] a # None /\ b.hash # NoHash /\ a.algo = b.algo /\ a.hash = b.hash -> "ok"
    [] OTHER -> IF a.mtime = b.mtime THEN "DMG" ELSE IF a.mtime < b.mtime THEN "upd" ELSE "old"

\* checkFix keeps the old entry of a missing file if asked to, and that of a
\* damaged file unless asked not to
KeepsOld(f) ==
  IF new[f] = None THEN opt.keepMissing ELSE Verdict(f) = "DMG" /\ ~opt.force

\* (mutant) every file that has an entry counts
NeedsSaveOk(gone, dirs) ==
  \/ Has(new) # {}
  \/ ~opt.keepMissing /\ gone # {}
  \/ Cardinality(dirs) # Cardinality(cur.dirs)

\* Whether checkFix finds something to save; gone is what is missing now, dirs
\* the directory list to be saved.
NeedsSave(gone, dirs) ==
  \/ \E f \in Has(new) :
       \/ Verdict(f) \in {"new", "upd", "old"}
       \/ Verdict(f) = "ok" /\ cur.entries[f].mtime # new[f].mtime
       \/ Verdict(f) = "DMG" /\ opt.force
  \/ ~opt.keepMissing /\ gone # {}
  \/ Cardinality(dirs) # Cardinality(cur.dirs)

CheckFix ==
  LET gone == Has(cur.entries) \ Has(new)
      goneDirs == cur.dirs \ newDirList IN
  /\ pc = "calc" /\ left = {}
  /\ new' = [f \in Files |->
       IF KeepsOld(f) THEN cur.entries[f] ELSE new[f]]
  /\ newDirList' = newDirList \cup (IF opt.keepMissing THEN goneDirs ELSE {})
  /\ modified' = (modified \/ NeedsSave(gone \cup goneDirs, newDirList'))
  /\ log' = log \cup {<<Verdict(f), f>> : f \in Has(new)}
       \cup (IF opt.logDeleted /\ ~opt.keepMissing
             THEN {<<"del", x>> : x \in gone \cup goneDirs} ELSE {})
  /\ pc' = IF opt.update /\ modified' THEN "save" ELSE "done"
  /\ UNCHANGED <<dirVars, store, opt, listing, cur, left, work, spent,
                 worldHist, certified, quiet>>

saveFrame == <<dirVars, runVars, worldHist, quiet>>

\* os.WriteFile opens the index file, which empties it
SaveOpen ==
  /\ pc = "save"
  /\ \/ pc' = "write" /\ store' = Unparseable /\ UNCHANGED <<log, spent>>
     \/ /\ Spend("fail") /\ pc' = "done" /\ log' = log \cup {<<"PNC", "index">>}
        /\ UNCHANGED store
  /\ UNCHANGED <<saveFrame, certified>>

\* and writes it; the worker reports the directory as updated
SaveWrite ==
  /\ pc = "write" /\ pc' = "done"
  /\ \/ /\ store' = [state |-> "ok", entries |-> new,
                     dirs |-> IF opt.trackDirs THEN newDirList ELSE {}]
        /\ log' = log \cup {<<"xup", "index">>}
        /\ certified' = [f \in Files |->
             IF new[f] # None /\ new[f].hash = truth[f][new[f].mtime] THEN new[f].mtime
             ELSE IF \/ new[f] # None /\ (new[f].mtime # certified[f] \/ opt.force)
                     \/ new[f] = None /\ f \notin listing.files \ (listing.ign \cup changed)
                     \/ \E x \in {f, "index"} : {<<"PNC", x>>, <<"ERX", x>>} \cap log # {}
             THEN 0 ELSE certified[f]]
        /\ UNCHANGED spent
     \/ /\ Spend("fail") /\ log' = log \cup {<<"PNC", "index">>}
        /\ UNCHANGED <<store, certified>>
  /\ UNCHANGED saveFrame

Reset ==
  /\ pc' = "idle" /\ opt' = None /\ listing' = NoList
  /\ cur' = [entries |-> NoEntries, dirs |-> {}]
  /\ new' = NoEntries /\ newDirList' = {} /\ modified' = FALSE
  /\ left' = {} /\ work' = NoWork /\ log' = {} /\ changed' = {}

\* the worker goes on to another directory; the run is over for this one
End ==
  /\ pc = "done" /\ Reset
  /\ quiet' = IF ~opt.update THEN quiet
              ELSE IF changed = {} /\ <<"PNC", "index">> \notin log THEN opt ELSE None
  /\ UNCHANGED <<dirVars, store, spent, now, truth, rotted, certified>>

\* the process is killed, by a second control+c or otherwise
Kill ==
  /\ pc # "idle" /\ Spend("kill") /\ Reset
  /\ quiet' = None
  /\ UNCHANGED <<dirVars, store, now, truth, rotted, certified>>

Run == Begin \/ Load \/ SkipFile \/ Stat \/ Open \/ Read \/ Restat \/ CheckFix
       \/ SaveOpen \/ SaveWrite \/ End

-----------------------------------------------------------------------------
(* The world around it.  A file is rewritten in place and not removed while *)
(* it is open, and no two writes get the same modification time.            *)

idleFrame == <<store, pc, runVars, log>>

\* while a run is active only the changes in LiveWrites happen
Allowed(kind, f, data) ==
  \/ /\ pc = "idle" /\ Spend(kind)
  \/ /\ pc # "idle" /\ Spend("live")
     /\ file[f] # None /\ <<file[f].data, data>> \in LiveWrites

\* some program writes or creates a file
WriteFile(f, data) ==
  /\ Allowed("write", f, data)
  /\ now' = now + 1
  /\ file' = [file EXCEPT ![f] = [data |-> data, mtime |-> now']]
  /\ truth' = [truth EXCEPT ![f][now'] = data]
  /\ changed' = changed \cup {f} /\ quiet' = None
  /\ UNCHANGED <<broken, ignored, subdirs, idleFrame, rotted, certified>>

\* an older version is copied back together with its modification time
RestoreFile(f, t) ==
  /\ file[f] # None /\ t < file[f].mtime /\ truth[f][t] # None
  /\ Allowed("restore", f, truth[f][t])
  /\ file' = [file EXCEPT ![f] = [data |-> truth[f][t], mtime |-> t]]
  /\ changed' = changed \cup {f} /\ quiet' = None
  /\ UNCHANGED <<broken, ignored, subdirs, idleFrame, now, truth, rotted, certified>>

\* the content is damaged behind the file system's back
Rot(f, data) ==
  /\ file[f] # None /\ data # file[f].data /\ Spend("rot")
  /\ file' = [file EXCEPT ![f].data = data]
  /\ rotted' = rotted \cup {f} /\ changed' = changed \cup {f} /\ quiet' = None
  /\ UNCHANGED <<broken, ignored, subdirs, idleFrame, now, truth, certified>>

Delete(f) ==
  /\ file[f] # None /\ ~(pc = "read" /\ work.name = f) /\ Spend("delete")
  /\ file' = [file EXCEPT ![f] = None]
  /\ changed' = changed \cup {f} /\ quiet' = None
  /\ UNCHANGED <<broken, ignored, subdirs, idleFrame, now, truth, rotted, certified>>

Toggle(S, x) == IF x \in S THEN S \ {x} ELSE S \cup {x}

\* a file becomes unreadable, or readable again
Break(f) ==
  /\ Spend("break") /\ broken' = Toggle(broken, f)
  /\ changed' = changed \cup {f} /\ quiet' = None
  /\ UNCHANGED <<file, ignored, subdirs, idleFrame, now, truth, rotted, certified>>

\* a directory is made or removed
MakeDir(d) ==
  /\ Spend("mkdir") /\ subdirs' = Toggle(subdirs, d)
  /\ changed' = changed \cup {d} /\ quiet' = None
  /\ UNCHANGED <<file, broken, ignored, idleFrame, now, truth, rotted, certified>>

\* the ignore file is edited
EditIgnore(x) ==
  /\ Spend("ignore") /\ ignored' = Toggle(ignored, x)
  /\ changed' = changed \cup {x} /\ quiet' = None
  /\ UNCHANGED <<file, broken, subdirs, idleFrame, now, truth, rotted, certified>>

\* the index file is damaged: it does not parse any more, or an entry differs
\* and the checksum of the index does not match
TamperIndex ==
  /\ pc = "idle" /\ store.state = "ok" /\ Spend("tamper")
  /\ \/ store' = Unparseable
     \/ \E f \in Has(store.entries), c \in Contents :
          store' = [store EXCEPT !.state = "unverified", !.entries[f].hash = c]
     \/ \E f \in Has(store.entries) :
          store' = [store EXCEPT !.state = "unverified", !.entries[f] = None]
  /\ quiet' = None
  /\ UNCHANGED <<dirVars, pc, runVars, log, worldHist, certified>>

Environment ==
  \/ \E f \in Files, c \in Contents : WriteFile(f, c) \/ Rot(f, c)
  \/ \E f \in Files : Delete(f) \/ Break(f)
  \/ \E f \in Files, t \in Time : RestoreFile(f, t)
  \/ \E d \in Subs : MakeDir(d)
  \/ \E x \in Files \cup Subs : EditIgnore(x)
  \/ TamperIndex

\* no run is active, and none has to follow
Idle == pc = "idle" /\ UNCHANGED vars

Next == Run \/ Kill \/ Environment \/ Idle

Spec == Init /\ [][Next]_vars

-----------------------------------------------------------------------------
(* Properties                                                              *)

TypeOK ==
  /\ file \in [Files -> File \cup {None}]
  /\ broken \subseteq Files /\ ignored \subseteq Files \cup Subs /\ subdirs \subseteq Subs
  /\ store.state \in {"none", "ok", "legacy", "unverified", "corrupt"}
  /\ \A entries \in {store.entries, cur.entries, new} :
       DOMAIN entries = Files /\ \A f \in Has(entries) : entries[f] \in Entry
  /\ store.dirs \cup cur.dirs \cup newDirList \subseteq Subs
  /\ pc \in {"idle", "load", "calc", "open", "read", "restat", "save", "write", "done"}
  /\ opt \in Options \cup {None} /\ modified \in BOOLEAN /\ left \subseteq Files
  /\ pc \in {"open", "read", "restat"} <=> work # NoWork
  /\ pc = "read" => file[work.name] # None

\* A hash in the index is the hash of what was in the file when it had the
\* modification time of the entry: calcFile never pairs the time of one version
\* with the content of another, whatever happens between its system calls.
HashMatchesMtime ==
  store.state \in {"ok", "legacy"} /\ spent["tamper"] = 0 =>
    \A f \in Has(store.entries) \ rotted :
      store.entries[f].hash = truth[f][store.entries[f].mtime]

\* DMG is never reported for a file whose content was not damaged, however the
\* file was rewritten, restored or recreated and whatever the algorithms are.
NoFalseDamage ==
  spent["tamper"] = 0 => \A f \in Files : <<"DMG", f>> \in log => f \in rotted

\* The right hash of this version was saved once; the content is different now.
Damaged(f) ==
  /\ file[f] # None /\ certified[f] = file[f].mtime
  /\ file[f].data # truth[f][file[f].mtime]

\* Damage to a file is reported by every run that reads it, check or update, as
\* long as the file stays damaged: no earlier run has put the damaged content
\* into the index, unless told to with --force or after it reported that the
\* file could not be read or that the index is damaged.
DamageReported ==
  pc = "done" /\ ~opt.showIgnored /\ ~opt.skipCheck =>
    \A f \in listing.files \ (listing.ign \cup changed) :
      Damaged(f) /\ f \notin broken =>
        {<<"DMG", f>>, <<"PNC", "index">>, <<"ERX", "index">>} \cap log # {}

\* An update right after an update with the same options reports no directory
\* as updated (save: only report actual modifications).  --no-dir-in-index is an
\* exception where there are subdirectories: checkFix then compares the number of
\* directories with a list that is never stored.
RepeatIsQuiet ==
  pc = "done" /\ quiet = opt /\ (opt.trackDirs \/ listing.dirs = {}) =>
    <<"xup", "index">> \notin log

\* A file whose hash was saved before is reported as new only in a run that also
\* reports the index as damaged: the index is never forgotten silently, not even
\* after a run was killed while it wrote it.
NoSilentAmnesia ==
  pc = "save" \/ (pc = "done" /\ ~opt.update) =>
    \A f \in Files : certified[f] # 0 /\ <<"new", f>> \in log =>
      <<"PNC", "index">> \in log \/ <<"ERX", "index">> \in log

\* help: "del: file/directory removed"; checkFix: "file missing".  A file that is
\* there, is not ignored and was not touched during the run is not reported as
\* removed.
DelMeansRemoved ==
  \A f \in Files : <<"del", f>> \in log =>
    file[f] = None \/ f \in listing.ign \cup changed
=============================================================================
