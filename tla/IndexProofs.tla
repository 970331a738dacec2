----------------------------- MODULE IndexProofs -----------------------------
(***************************************************************************)
(* Proofs about Index, for any files, contents, options and bounds: types, *)
(* that damage is reported and the index not forgotten, that an update     *)
(* after an update has nothing to do, and that a hash belongs to the time  *)
(* beside it.                                                              *)
(***************************************************************************)
EXTENDS Index, FiniteSetTheorems, SequenceTheorems, TLAPS

-----------------------------------------------------------------------------
(* The inductive invariant                                                 *)

Reading == {"open", "read", "restat"}
Calculating == {"calc"} \cup Reading
Finishing == {"save", "write", "done"}

Entries == [Files -> Entry \cup {None}]
Stores == [state : {"none", "ok", "legacy", "unverified", "corrupt"}, entries : Entries,
          dirs : SUBSET Subs]

\* What calcFile keeps of the file.
Works == [name : Files, mtime : Time, size : Nat, buf : Seq(Block), pass : 1..2]
DirType ==
  /\ file \in [Files -> File \cup {None}] /\ truth \in [Files -> [Time -> Contents \cup {None}]]
  /\ broken \subseteq Files /\ ignored \subseteq Files \cup Subs /\ subdirs \subseteq Subs
IndexType ==
  /\ store \in Stores /\ cur \in [entries : Entries, dirs : SUBSET Subs]
  /\ new \in Entries /\ newDirList \subseteq Subs
  /\ certified \in [Files -> Time \cup {0}]
RunType ==
  /\ pc \in {"idle", "load"} \cup Calculating \cup Finishing
  /\ opt \in Options \cup {None} /\ (pc # "idle" => opt \in Options)
  /\ listing \in [files : SUBSET Files, ign : SUBSET (Files \cup Subs), dirs : SUBSET Subs]
  /\ left \subseteq Files
  /\ pc \notin Reading => work = NoWork
  /\ pc \in Reading =>
       /\ work \in Works
       /\ pc = "read" => file[work.name] # None
       /\ pc = "restat" => work.buf # NoHash
SpentType == spent \in [Event -> Nat] /\ \A k \in Event : spent[k] <= Budget[k]
TypeInv == DirType /\ IndexType /\ RunType /\ SpentType

\* No time is later than the clock; a stored entry has a time and a hash.
Known(e) == e # None => e.mtime \in 1..now /\ e.hash # NoHash
TimeInv ==
  /\ now \in 1..(1 + spent["write"] + spent["live"])
  /\ \A f \in Files :
       /\ file[f] # None => file[f].mtime <= now
       /\ Known(store.entries[f]) /\ Known(cur.entries[f])
       /\ Known(new[f]) \/ (new[f] = [mtime |-> 0, algo |-> opt.algo, hash |-> NoHash]
                             /\ cur.entries[f] = None /\ pc # "idle" /\ ~opt.update)
       /\ certified[f] <= now
  /\ pc \in Reading => work.mtime \in 1..now

\* What calcHashes makes of a file nobody touches during the run.
Outcome(f) ==
  IF f \notin listing.files \ listing.ign THEN None
  ELSE IF cur.entries[f] = None /\ ~opt.update
       THEN [mtime |-> 0, algo |-> opt.algo, hash |-> NoHash]
  ELSE IF cur.entries[f] # None /\ opt.skipCheck /\ Unmodified(f) THEN cur.entries[f]
  ELSE IF f \in broken THEN None
  ELSE [mtime |-> file[f].mtime, algo |-> AlgoOf(f), hash |-> file[f].data]

\* buf holds the first blocks of data
Prefix(buf, data) == Len(buf) <= Len(data) /\ \A i \in 1..Len(buf) : buf[i] = data[i]

\* calcFile has read the file as it is now
Reads(f) ==
  /\ file[f] # None /\ work.mtime = file[f].mtime /\ work.size = Len(file[f].data)
  /\ Prefix(work.buf, file[f].data) /\ (pc = "restat" => work.buf = file[f].data)

\* What is settled is the outcome.  calcHashes reads a file that it has to read, and
\* only once if nobody touches it.
OutcomeInv ==
  /\ pc # "idle" => \A f \in Files \ changed : f \in listing.files <=> file[f] # None
  /\ pc \in {"idle", "load"} => new = NoEntries /\ log = {}
  /\ pc = "load" => left = listing.files
  /\ pc \in Calculating =>
       /\ left \subseteq listing.files /\ ~opt.showIgnored
       /\ \A f \in Files : f \in left \/ f = work.name => new[f] = None
       /\ \A f \in Files \ (changed \cup left \cup {work.name}) :
            /\ new[f] = Outcome(f)
            /\ new[f] = None /\ f \in listing.files \ listing.ign => <<"PNC", f>> \in log
  /\ pc \in Reading =>
       LET f == work.name IN
       /\ f \in listing.files \ (listing.ign \cup left)
       /\ cur.entries[f] = None => opt.update
       /\ f \notin changed =>
            /\ Reads(f) /\ work.pass = 1 /\ (pc = "restat" => f \notin broken)
            /\ cur.entries[f] = None \/ ~opt.skipCheck \/ ~Unmodified(f)

\* the log says that the index is damaged
Suspect == {<<"PNC", "index">>, <<"ERX", "index">>} \cap log # {}

\* e is the entry that was certified for f
Right(e, f) == e # None /\ e.mtime = certified[f] /\ e.hash = truth[f][certified[f]]

\* What was certified is in the index file, and in the index that was loaded, or the
\* index does not verify and the log says so.
CertInv ==
  /\ \A f \in Files : certified[f] # 0 =>
       store.state \in {"corrupt", "unverified"} \/ Right(store.entries[f], f)
  /\ pc \notin {"idle", "load"} /\ ~(pc = "done" /\ opt.update) =>
       \A f \in Files : certified[f] # 0 => Suspect \/ Right(cur.entries[f], f)
  /\ pc \in {"save", "write"} => opt.update /\ \A f \in Files :
       /\ certified[f] # 0 /\ new[f] # None /\ new[f].mtime = certified[f] /\ ~opt.force =>
            Suspect \/ new[f].hash = truth[f][certified[f]]
       /\ f \in listing.files \ (listing.ign \cup changed) /\ new[f] = None =>
            <<"PNC", f>> \in log

\* checkFix reported the damage, and what it reported as new had no entry.
Wrong(f) == file[f] # None /\ file[f].data # truth[f][file[f].mtime]
ReportInv ==
  /\ pc \in {"idle", "load"} \cup Calculating =>
       \A f \in Files : {<<"DMG", f>>, <<"new", f>>} \cap log = {}
  /\ pc \in Finishing => \A f \in Files : <<"new", f>> \in log => cur.entries[f] = None
  /\ pc \in Finishing /\ ~opt.showIgnored /\ ~opt.skipCheck =>
       \A f \in listing.files \ (listing.ign \cup changed \cup broken) :
         /\ Wrong(f)
         /\ \/ certified[f] = file[f].mtime
            \/ /\ pc \in {"save", "write"} /\ new[f] # None
               /\ new[f].mtime = file[f].mtime /\ new[f].hash = truth[f][file[f].mtime]
         => <<"DMG", f>> \in log \/ Suspect

\* An update with options o has nothing to save, given what the index holds.
Settled(o, state, entries, dirs) ==
  o.showIgnored \/
    /\ state \in {"none", "ok"}
    /\ \A f \in Files : LET e == entries[f] IN
         IF file[f] # None /\ f \notin ignored
         THEN \/ e # None /\ o.skipCheck /\ e.mtime = file[f].mtime
              \/ f \in broken /\ (e = None \/ o.keepMissing)
              \/ f \notin broken /\ e # None /\ e.mtime = file[f].mtime
                   /\ (o.force => e.hash = file[f].data)
         ELSE e = None \/ o.keepMissing
    /\ IF o.keepMissing THEN subdirs \ ignored \subseteq dirs ELSE dirs = subdirs \ ignored

SettledNew == Settled(opt, "ok", new, IF opt.trackDirs THEN newDirList ELSE {})
SettledOpt == Settled(opt, store.state, store.entries, store.dirs)
SettledQuiet == Settled(quiet, store.state, store.entries, store.dirs)

\* the options of which RepeatIsQuiet speaks
Tracks(o) == o.trackDirs \/ subdirs \ ignored = {}

\* The index is settled after an update, and a run in a settled index saves nothing.
QuietInv ==
  /\ pc # "idle" /\ changed = {} =>
       /\ listing.ign = ignored /\ listing.dirs = subdirs \ ignored
       /\ pc \in {"load"} \cup Calculating => newDirList = listing.dirs
  /\ pc \in Calculating =>
       /\ cur = [entries |-> store.entries, dirs |-> store.dirs]
       /\ modified = (store.state \in {"unverified", "legacy"})
       /\ store.state = "corrupt" => <<"PNC", "index">> \in log
  /\ pc \in {"save", "write"} =>
       ~opt.showIgnored /\ (changed = {} /\ Tracks(opt) => SettledNew)
  /\ pc = "done" /\ opt.update /\ changed = {} /\ Tracks(opt) =>
       <<"PNC", "index">> \in log \/ SettledOpt
  /\ quiet # None =>
       /\ changed = {} /\ quiet \in Options /\ quiet.update
       /\ pc \notin {"save", "write"} /\ ~(pc = "done" /\ opt.update) /\ Tracks(quiet) =>
            SettledQuiet
  /\ pc # "done" => <<"xup", "index">> \notin log
  /\ quiet # None /\ quiet = opt /\ Tracks(opt) =>
       pc \notin {"save", "write"} /\ <<"xup", "index">> \notin log

\* At most one rewrite while calcFile is at work on a file.
RewrittenOnce ==
  LET f == work.name IN
  pc \in Reading /\ file[f] # None /\ file'[f] # None /\ file'[f].mtime # file[f].mtime =>
    work.pass = 1 /\ file[f].mtime = work.mtime

\* calcFile at work on f has read what is there now, or will find the size changed.
WorkMatches(f) ==
  pc \in Reading /\ work.name = f =>
    IF file[f] # None /\ work.mtime = file[f].mtime THEN Reads(f)
    ELSE /\ work.pass = 1 /\ file[f] # None => work.size # Len(file[f].data)
         /\ work.pass = 2 => file[f] = None

\* As long as nobody tampers with the index: the hashes of what was never damaged
\* belong to their times, also while calcFile is at work.
Matches(e, f) == e # None => e.hash = truth[f][e.mtime]
MatchInv == spent["tamper"] = 0 => \A f \in Files \ rotted :
  /\ file[f] # None => file[f].data = truth[f][file[f].mtime]
  /\ Matches(store.entries[f], f) /\ Matches(cur.entries[f], f)
  /\ (new[f] # None /\ new[f].hash = NoHash) \/ Matches(new[f], f)
  /\ WorkMatches(f)

\* checkFix compares hashes of the same algorithm, and finds no damage where there
\* was none.
DamageInv ==
  /\ pc \in Calculating => \A f \in Files :
       new[f] # None /\ cur.entries[f] # None => new[f].algo = cur.entries[f].algo
  /\ NoFalseDamage

-----------------------------------------------------------------------------
(* Lemmas about the constants and the world                                *)

\* None is no file, entry or content; the kinds of events have a budget; what the
\* contents are made of.
LEMMA Constants ==
  /\ None \notin File /\ None \notin Entry /\ None \notin Files /\ None \notin Options
  /\ None \notin Contents /\ "index" \notin Files
  /\ {"run", "write", "live", "rot", "restore", "delete", "break", "mkdir", "ignore", "tamper",
      "fail", "kill", "total"} = Event
  /\ Budget \in [Event -> Nat] /\ 1 \in Time /\ "md5" \in Algos
  /\ \A o \in Options : o \in Option
BY IndexAssumption DEF Event, Time

\* A content is a sequence of blocks, and not empty.
LEMMA ContentFacts ==
  ASSUME NEW c \in Contents
  PROVE  c \in Seq(Block) /\ Len(c) \in Nat \ {0} /\ c # NoHash
<1>1. c \in Seq(Block) /\ Len(c) > 0
  BY IndexAssumption
<1>2. Len(c) \in Nat /\ Len(NoHash) = 0
  BY <1>1, LenProperties DEF NoHash
<1> QED
  BY <1>1, <1>2

\* An event is counted, within its bound.
LEMMA SpendStep ==
  ASSUME SpentType, NEW k \in Event \ {"total"}, Spend(k)
  PROVE  /\ SpentType' /\ spent'[k] = spent[k] + 1
         /\ \A j \in Event \ {k, "total"} : spent'[j] = spent[j]
<1> USE Constants DEF SpentType, Spend
<1>1. spent' = [spent EXCEPT ![k] = spent[k] + 1,
                             !["total"] = IF k = "run" THEN spent["total"] ELSE spent["total"] + 1]
  OBVIOUS
<1>2. \A j \in Event : spent'[j] = IF j = "total"
        THEN IF k = "run" THEN spent["total"] ELSE spent["total"] + 1
        ELSE IF j = k THEN spent[k] + 1 ELSE spent[j]
  BY <1>1
<1>3. spent' \in [Event -> Nat]
  BY <1>1
<1>4. \A j \in Event : spent'[j] <= Budget[j]
  <2> TAKE j \in Event
  <2>1. /\ spent[j] \in Nat /\ Budget[j] \in Nat /\ spent[j] <= Budget[j]
        /\ spent[k] \in Nat /\ Budget[k] \in Nat /\ spent[k] < Budget[k]
        /\ k # "run" => spent["total"] < Budget["total"]
    OBVIOUS
  <2> QED
    BY <1>2, <2>1
<1> QED
  BY <1>2, <1>3, <1>4

\* The events of a run are counted apart from the rewrites.
LEMMA SpendOther ==
  ASSUME SpentType, UNCHANGED spent \/ \E k \in {"run", "fail", "kill", "tamper"} : Spend(k)
  PROVE  SpentType' /\ spent'["write"] = spent["write"] /\ spent'["live"] = spent["live"]
<1>1. CASE UNCHANGED spent
  BY <1>1 DEF SpentType
<1>2. ASSUME NEW k \in {"run", "fail", "kill", "tamper"}, Spend(k)
      PROVE  SpentType' /\ spent'["write"] = spent["write"] /\ spent'["live"] = spent["live"]
  BY <1>2, SpendStep, Constants
<1> QED
  BY <1>1, <1>2

\* A rewrite is counted as the one or the other kind.
LEMMA AllowedStep ==
  ASSUME SpentType, NEW k \in {"write", "restore"}, NEW f, NEW data, Allowed(k, f, data)
  PROVE  /\ SpentType' /\ spent'["tamper"] = spent["tamper"]
         /\ spent'["write"] + spent'["live"] >= spent["write"] + spent["live"]
         /\ k = "write" => spent'["write"] + spent'["live"] = spent["write"] + spent["live"] + 1
<1> USE Constants
<1>1. \E j \in {k, "live"} : Spend(j)
  BY DEF Allowed
<1>2. PICK j \in {k, "live"} : Spend(j)
  BY <1>1
<1>3. /\ SpentType' /\ spent'[j] = spent[j] + 1
      /\ \A i \in Event \ {j, "total"} : spent'[i] = spent[i]
  BY <1>2, SpendStep
<1>4. spent["write"] \in Nat /\ spent["live"] \in Nat
  BY DEF SpentType
<1> QED
  BY <1>3, <1>4

\* The clock is a time, and a write leaves one for the next.
LEMMA ClockStep ==
  ASSUME SpentType, TimeInv
  PROVE  /\ now \in Time /\ 1..now \subseteq Time
         /\ \A n \in Nat : n <= 1 + spent["write"] + spent["live"] =>
              n \in 0..(1 + Budget["write"] + Budget["live"])
<1>1. /\ {spent["write"], spent["live"], Budget["write"], Budget["live"]} \subseteq Nat
      /\ spent["write"] <= Budget["write"] /\ spent["live"] <= Budget["live"]
  BY Constants DEF SpentType
<1> QED
  BY <1>1 DEF TimeInv, Time

\* Somebody touches what is called x, but not the index file.
Touch(x) ==
  /\ UNCHANGED <<store, pc, runVars, log, certified>> /\ quiet' = None
  /\ changed' = changed \cup {x} /\ spent'["tamper"] = spent["tamper"]
  /\ \A f \in Files \ {x} : file'[f] = file[f] /\ (f \in broken' <=> f \in broken)
  /\ \A f \in Files : pc = "read" /\ work.name = f => file'[f] # None
  /\ \A f \in Files, t \in 1..now : truth'[f][t] = truth[f][t]

\* The clock does not go back, and no time is ahead of it.
ClockMoves ==
  /\ now \in 1..now' /\ now' \in 1..(1 + spent'["write"] + spent'["live"])
  /\ \A f \in Files : file'[f] # None => file'[f].mtime <= now'

\* A step of the environment touches one name.
LEMMA EnvStep ==
  ASSUME DirType, SpentType, RunType, TimeInv, Environment, ~TamperIndex
  PROVE  DirType' /\ SpentType' /\ ClockMoves /\ \E x \in Files \cup Subs : Touch(x)
<1> USE Constants
<1>0. /\ spent["write"] \in Nat /\ spent["live"] \in Nat /\ now \in Nat /\ now \in Time
      /\ now \in 1..(1 + spent["write"] + spent["live"])
      /\ \A f \in Files : file[f] # None => file[f] \in File /\ file[f].mtime <= now
  BY ClockStep DEF SpentType, TimeInv, DirType
<1>a. \A f \in Files : pc = "read" /\ work.name = f => file[f] # None
  BY DEF RunType, Reading
<1>1. ASSUME NEW f \in Files, NEW c \in Contents, WriteFile(f, c)
      PROVE  DirType' /\ SpentType' /\ ClockMoves /\ Touch(f)
  <2>1. /\ SpentType' /\ spent'["tamper"] = spent["tamper"]
        /\ spent'["write"] + spent'["live"] = spent["write"] + spent["live"] + 1
    BY <1>1, AllowedStep DEF WriteFile
  <2>2. now' = now + 1 /\ now' \in 1..(1 + spent'["write"] + spent'["live"])
    BY <1>0, <1>1, <2>1 DEF WriteFile, SpentType
  <2>3. now' \in Time
    BY <2>1, <2>2 DEF SpentType, Time
  <2>4. /\ file' = [file EXCEPT ![f] = [data |-> c, mtime |-> now']]
        /\ truth' = [truth EXCEPT ![f][now'] = c]
        /\ UNCHANGED <<broken, ignored, subdirs>>
    BY <1>1 DEF WriteFile
  <2>5. [data |-> c, mtime |-> now'] \in File
    BY <2>3 DEF File
  <2>6. file' \in [Files -> File \cup {None}]
    BY <2>4, <2>5 DEF DirType
  <2>7. truth' \in [Files -> [Time -> Contents \cup {None}]]
    BY <2>3, <2>4 DEF DirType
  <2>8. DirType'
    BY <2>4, <2>6, <2>7 DEF DirType
  <2>9. ClockMoves
    <3>1. \A g \in Files : file'[g] # None => file'[g].mtime <= now'
      <4> TAKE g \in Files
      <4>1. file'[g] = IF g = f THEN [data |-> c, mtime |-> now'] ELSE file[g]
        BY <2>4 DEF DirType
      <4>2. file[g] # None => file[g].mtime \in Nat /\ file[g].mtime <= now
        BY <1>0 DEF File, Time
      <4> QED
        BY <1>0, <2>2, <4>1, <4>2
    <3> QED
      BY <1>0, <2>2, <3>1 DEF ClockMoves
  <2>10. \A g \in Files, t \in 1..now : truth'[g][t] = truth[g][t]
    BY <1>0, <2>2, <2>4 DEF DirType
  <2>11. Touch(f)
    BY <1>1, <1>a, <2>1, <2>4, <2>5, <2>10 DEF WriteFile, Touch, idleFrame, DirType
  <2> QED
    BY <2>1, <2>8, <2>9, <2>11
<1>2. ASSUME NEW f \in Files, NEW t \in Time, RestoreFile(f, t)
      PROVE  DirType' /\ SpentType' /\ ClockMoves /\ Touch(f)
  <2>1. /\ SpentType' /\ spent'["tamper"] = spent["tamper"]
        /\ spent'["write"] + spent'["live"] >= spent["write"] + spent["live"]
    BY <1>2, AllowedStep DEF RestoreFile
  <2>2. /\ file' = [file EXCEPT ![f] = [data |-> truth[f][t], mtime |-> t]]
        /\ file[f] # None /\ t < file[f].mtime /\ truth[f][t] # None
        /\ UNCHANGED <<broken, ignored, subdirs, now, truth>>
    BY <1>2 DEF RestoreFile
  <2>3. [data |-> truth[f][t], mtime |-> t] \in File /\ t <= now /\ t \in Nat
    BY <1>0, <2>2 DEF File, DirType, Time
  <2>4. DirType'
    BY <2>2, <2>3 DEF DirType
  <2>5. ClockMoves
    BY <1>0, <2>1, <2>2, <2>3 DEF ClockMoves, DirType, SpentType
  <2>6. Touch(f)
    BY <1>2, <1>a, <2>1, <2>2, <2>3 DEF RestoreFile, Touch, idleFrame, DirType
  <2> QED
    BY <2>1, <2>4, <2>5, <2>6
<1>3. ASSUME NEW f \in Files, NEW c \in Contents, Rot(f, c)
      PROVE  DirType' /\ SpentType' /\ ClockMoves /\ Touch(f)
  <2>1. /\ SpentType' /\ spent'["tamper"] = spent["tamper"] /\ spent'["write"] = spent["write"]
        /\ spent'["live"] = spent["live"]
    BY <1>3, SpendStep DEF Rot
  <2>2. /\ file' = [file EXCEPT ![f] = [file[f] EXCEPT !.data = c]] /\ file[f] # None
        /\ UNCHANGED <<broken, ignored, subdirs, now, truth>>
    BY <1>3 DEF Rot
  <2>3. [file[f] EXCEPT !.data = c] \in File /\ [file[f] EXCEPT !.data = c].mtime = file[f].mtime
    BY <1>0, <2>2 DEF File
  <2>4. DirType'
    BY <2>2, <2>3 DEF DirType
  <2>5. ClockMoves
    BY <1>0, <2>1, <2>2, <2>3 DEF ClockMoves, DirType
  <2>6. Touch(f)
    BY <1>3, <1>a, <2>1, <2>2, <2>3 DEF Rot, Touch, idleFrame, DirType
  <2> QED
    BY <2>1, <2>4, <2>5, <2>6
<1>4. ASSUME NEW f \in Files, Delete(f) \/ Break(f)
      PROVE  DirType' /\ SpentType' /\ ClockMoves /\ Touch(f)
  <2>1. /\ SpentType' /\ spent'["tamper"] = spent["tamper"] /\ spent'["write"] = spent["write"]
        /\ spent'["live"] = spent["live"]
    <3>1. Spend("delete") \/ Spend("break")
      BY <1>4 DEF Delete, Break
    <3> QED
      BY <3>1, SpendStep
  <2>2. /\ file' \in {file, [file EXCEPT ![f] = None]} /\ broken' \in {broken, Toggle(broken, f)}
        /\ UNCHANGED <<ignored, subdirs, now, truth>>
        /\ pc = "read" /\ work.name = f => file' = file
    BY <1>4 DEF Delete, Break
  <2>3. DirType'
    BY <2>2 DEF DirType, Toggle
  <2>4. ClockMoves
    BY <1>0, <2>1, <2>2 DEF ClockMoves, DirType
  <2>5. /\ UNCHANGED <<store, pc, runVars, log, certified>>
        /\ quiet' = None /\ changed' = changed \cup {f}
    BY <1>4 DEF Delete, Break, idleFrame
  <2>6. Touch(f)
    BY <1>a, <2>1, <2>2, <2>5 DEF Touch, Toggle, DirType
  <2> QED
    BY <2>1, <2>3, <2>4, <2>6
<1>5. ASSUME NEW x \in Files \cup Subs, (x \in Subs /\ MakeDir(x)) \/ EditIgnore(x)
      PROVE  DirType' /\ SpentType' /\ ClockMoves /\ Touch(x)
  <2>1. /\ SpentType' /\ spent'["tamper"] = spent["tamper"] /\ spent'["write"] = spent["write"]
        /\ spent'["live"] = spent["live"]
    <3>1. Spend("mkdir") \/ Spend("ignore")
      BY <1>5 DEF MakeDir, EditIgnore
    <3> QED
      BY <3>1, SpendStep
  <2>2. /\ UNCHANGED <<file, broken, now, truth, store, pc, runVars, log, certified>>
        /\ quiet' = None /\ changed' = changed \cup {x}
    BY <1>5 DEF MakeDir, EditIgnore, idleFrame
  <2>3. ignored' \subseteq Files \cup Subs /\ subdirs' \subseteq Subs
    BY <1>5 DEF MakeDir, EditIgnore, Toggle, DirType
  <2>4. DirType' /\ ClockMoves
    BY <1>0, <2>1, <2>2, <2>3 DEF DirType, ClockMoves
  <2>5. Touch(x)
    BY <1>a, <2>1, <2>2 DEF Touch
  <2> QED
    BY <2>1, <2>4, <2>5
<1> QED
  BY <1>1, <1>2, <1>3, <1>4, <1>5 DEF Environment

-----------------------------------------------------------------------------
(* Types and times                                                         *)

\* Entries as the actions make them.
LEMMA EntryFacts ==
  /\ NoEntries \in Entries /\ NoIndex \in Stores /\ Unparseable \in Stores
  /\ \A e \in Entry : e.mtime \in Time \cup {0} /\ e.algo \in Algos /\ e.hash \in Seq(Block)
  /\ \A t \in Time \cup {0}, a \in Algos, s \in Seq(Block) :
       [mtime |-> t, algo |-> a, hash |-> s] \in Entry
  /\ NoHash \in Seq(Block)
BY EmptySeq DEF Entries, NoEntries, NoIndex, Unparseable, Stores, Entry, NoHash

\* The algorithm of a file that is hashed, and of the command line.
LEMMA AlgoType ==
  ASSUME IndexType, RunType, pc # "idle"
  PROVE  opt \in Options /\ opt.algo \in Algos /\ \A f \in Files : AlgoOf(f) \in Algos
<1>1. opt \in Options /\ opt.algo \in Algos
  BY Constants DEF RunType, Option
<1>2. \A f \in Files : cur.entries[f] # None => cur.entries[f].algo \in Algos
  BY EntryFacts DEF IndexType, Entries
<1> QED
  BY <1>1, <1>2 DEF AlgoOf

\* The record of calcFile, at the start and when it hashes again.
LEMMA WorkMake ==
  ASSUME NEW f \in Files, NEW t \in Time, NEW n \in Nat
  PROVE  /\ [name |-> f, mtime |-> t, size |-> n, buf |-> <<>>, pass |-> 1] \in Works
         /\ \A w \in Works :
              [w EXCEPT !.mtime = t, !.size = n, !.buf = <<>>, !.pass = 2] \in Works
<1>1. <<>> \in Seq(Block) /\ 1 \in 1..2 /\ 2 \in 1..2
  BY EmptySeq
<1> QED
  BY <1>1 DEF Works

\* The ways calcFile ends or goes on.
LEMMA CalcCases ==
  ASSUME DirType, RunType, Open \/ Read \/ Restat
  PROVE  /\ pc \in Reading /\ work.name \in Files
         /\ UNCHANGED <<dirVars, store, opt, listing, cur, newDirList, modified, left, spent,
                        worldHist, certified, quiet>>
         /\ \/ CalcError(work.name)
            \/ CalcResult(work.name, work.mtime, work.buf) /\ work.buf # NoHash
            \/ UNCHANGED <<new, log>> /\ pc' \in Reading
<1>1. CASE Open \/ Restat
  BY <1>1 DEF RunType, Open, Restat, Reading, Works, calcFrame
<1>2. CASE Read
  <2>1. pc = "read" /\ work \in Works /\ file[work.name] # None /\ work.name \in Files
    BY <1>2 DEF Read, RunType, Reading, Works
  <2>2. file[work.name].data \in Contents
    BY <2>1 DEF DirType, File
  <2>3. Len(work.buf) >= Len(file[work.name].data) => work.buf # NoHash
    BY <2>2, ContentFacts, LenProperties DEF NoHash
  <2> QED
    BY <1>2, <2>1, <2>3 DEF Read, Reading, calcFrame
<1> QED
  BY <1>1, <1>2

\* Every step keeps the entries well formed.
LEMMA IndexTypeNext ==
  ASSUME DirType, IndexType, RunType, SpentType, TimeInv, [Next]_vars
  PROVE  IndexType'
<1> USE DEF IndexType
<1>1. CASE Begin
  BY <1>1 DEF Begin, dirVars, DirType
<1>2. CASE Load
  BY <1>2 DEF Load, dirVars, Stores
<1>3. CASE SkipFile
  <2>1. UNCHANGED <<store, cur, newDirList, certified>> /\ pc = "calc"
    BY <1>3 DEF SkipFile
  <2> DEFINE e == [mtime |-> 0, algo |-> opt.algo, hash |-> NoHash]
  <2>2. PICK f \in left : new' \in {new, [new EXCEPT ![f] = cur.entries[f]], [new EXCEPT ![f] = e]}
    BY <1>3 DEF SkipFile
  <2>3. f \in Files /\ e \in Entry /\ cur.entries[f] \in Entry \cup {None}
    BY <2>1, <2>2, AlgoType, EntryFacts DEF Entries, RunType
  <2> HIDE DEF e
  <2> QED
    BY <2>1, <2>2, <2>3 DEF Entries
<1>4. CASE Stat
  BY <1>4 DEF Stat, CalcError
<1>5. CASE Open
  <2>1. UNCHANGED <<store, cur, newDirList, certified>>
    BY <1>5, CalcCases
  <2>2. new' \in Entries
    <3>1. CASE CalcResult(work.name, work.mtime, work.buf) /\ work.buf # NoHash
      <4>1. [mtime |-> work.mtime, algo |-> AlgoOf(work.name), hash |-> work.buf] \in Entry
        BY <1>5, <3>1, AlgoType, EntryFacts, CalcCases DEF RunType, Reading, Works
      <4> QED
        BY <1>5, <3>1, <4>1, CalcCases DEF CalcResult, Entries
    <3> QED
      BY <1>5, <3>1, CalcCases DEF CalcError
  <2> QED
    BY <2>1, <2>2
<1>6. CASE Read
  <2>1. UNCHANGED <<store, cur, newDirList, certified>>
    BY <1>6, CalcCases
  <2>2. new' \in Entries
    <3>1. CASE CalcResult(work.name, work.mtime, work.buf) /\ work.buf # NoHash
      <4>1. [mtime |-> work.mtime, algo |-> AlgoOf(work.name), hash |-> work.buf] \in Entry
        BY <1>6, <3>1, AlgoType, EntryFacts, CalcCases DEF RunType, Reading, Works
      <4> QED
        BY <1>6, <3>1, <4>1, CalcCases DEF CalcResult, Entries
    <3> QED
      BY <1>6, <3>1, CalcCases DEF CalcError
  <2> QED
    BY <2>1, <2>2
<1>7. CASE Restat
  <2>1. UNCHANGED <<store, cur, newDirList, certified>>
    BY <1>7, CalcCases
  <2>2. new' \in Entries
    <3>1. CASE CalcResult(work.name, work.mtime, work.buf) /\ work.buf # NoHash
      <4>1. [mtime |-> work.mtime, algo |-> AlgoOf(work.name), hash |-> work.buf] \in Entry
        BY <1>7, <3>1, AlgoType, EntryFacts, CalcCases DEF RunType, Reading, Works
      <4> QED
        BY <1>7, <3>1, <4>1, CalcCases DEF CalcResult, Entries
    <3> QED
      BY <1>7, <3>1, CalcCases DEF CalcError
  <2> QED
    BY <2>1, <2>2
<1>8. CASE CheckFix
  <2>1. UNCHANGED <<store, cur, certified>>
    BY <1>8 DEF CheckFix
  <2>2. new' \in Entries
    BY <1>8 DEF CheckFix, Entries
  <2>3. newDirList' \subseteq Subs
    BY <1>8 DEF CheckFix
  <2> QED
    BY <2>1, <2>2, <2>3
<1>9. CASE SaveOpen
  BY <1>9, EntryFacts DEF SaveOpen, saveFrame, runVars, indexVars
<1>10. CASE SaveWrite
  <2>1. UNCHANGED <<cur, new, newDirList>> /\ certified' \in [Files -> Time \cup {0}]
    <3>1. \A f \in Files : new[f] # None => new[f].mtime \in Time \cup {0}
      BY EntryFacts DEF Entries
    <3> QED
      BY <1>10, <3>1 DEF SaveWrite, saveFrame, runVars, indexVars
  <2>2. store' \in Stores
    BY <1>10 DEF SaveWrite, Stores
  <2> QED
    BY <2>1, <2>2
<1>11. CASE End
  BY <1>11, EntryFacts DEF End, Reset
<1>12. CASE Kill
  BY <1>12, EntryFacts DEF Kill, Reset
<1>13. ASSUME NEW x \in Files \cup Subs, Touch(x)
      PROVE  IndexType'
  BY <1>13 DEF Touch, Works, runVars, indexVars
<1>14. CASE TamperIndex
  <2>1. UNCHANGED <<cur, new, newDirList, certified>>
    BY <1>14 DEF TamperIndex, runVars, indexVars
  <2>2. store' \in Stores
    <3>1. CASE store' = Unparseable
      BY <3>1, EntryFacts
    <3>2. ASSUME NEW f \in Has(store.entries), NEW c \in Contents,
                 store' = [store EXCEPT !.state = "unverified", !.entries[f].hash = c]
          PROVE  store' \in Stores
      <4>1. f \in Files /\ store.entries[f] \in Entry
        BY <3>2 DEF Has, Stores, Entries
      <4>2. [store.entries[f] EXCEPT !.hash = c] \in Entry
        BY <4>1, ContentFacts DEF Entry
      <4>3. [store.entries EXCEPT ![f] = [store.entries[f] EXCEPT !.hash = c]] \in Entries
        BY <4>1, <4>2 DEF Stores, Entries
      <4>4. store' = [store EXCEPT !.state = "unverified",
                                   !.entries =
              [store.entries EXCEPT ![f] = [store.entries[f] EXCEPT !.hash = c]]]
        BY <3>2
      <4> QED
        BY <4>3, <4>4 DEF Stores
    <3>3. ASSUME NEW f \in Has(store.entries),
                 store' = [store EXCEPT !.state = "unverified", !.entries[f] = None]
          PROVE  store' \in Stores
      BY <3>3 DEF Stores, Entries
    <3> QED
      BY <1>14, <3>1, <3>2, <3>3 DEF TamperIndex
  <2> QED
    BY <2>1, <2>2
<1>15. CASE UNCHANGED vars
  BY <1>15 DEF vars, dirVars, runVars, indexVars, worldHist
<1> QED
  BY <1>1, <1>2, <1>3, <1>4, <1>5, <1>6, <1>7, <1>8, <1>9, <1>10, <1>11, <1>12, <1>13, <1>14,
     <1>15, EnvStep DEF Next, Run, Idle

\* The steps of a run leave the directory alone.
LEMMA WorldNext ==
  ASSUME DirType, SpentType, RunType, TimeInv, [Next]_vars
  PROVE  /\ DirType' /\ SpentType'
         /\ \/ ClockMoves
            \/ UNCHANGED <<file, now, spent["write"], spent["live"]>>
<1> USE Constants
<1>1. CASE Load \/ SkipFile \/ Stat \/ Open \/ Read \/ Restat \/ CheckFix \/ End \/ UNCHANGED vars
  <2>1. UNCHANGED <<dirVars, spent, now, truth>>
    BY <1>1, CalcCases DEF Load, SkipFile, Stat, CheckFix, End, vars, worldHist
  <2> QED
    BY <2>1 DEF DirType, SpentType, dirVars
<1>2. CASE Begin \/ SaveOpen \/ SaveWrite \/ Kill
  <2>1. /\ UNCHANGED <<dirVars, now, truth>>
        /\ UNCHANGED spent \/ \E k \in {"run", "fail", "kill"} : Spend(k)
    BY <1>2 DEF Begin, SaveOpen, SaveWrite, Kill, saveFrame, worldHist
  <2>2. SpentType' /\ spent'["write"] = spent["write"] /\ spent'["live"] = spent["live"]
    <3>1. CASE UNCHANGED spent
      BY <3>1 DEF SpentType
    <3>2. CASE \E k \in {"run", "fail", "kill"} : Spend(k)
      BY <3>2, SpendStep
    <3> QED
      BY <2>1, <3>1, <3>2
  <2> QED
    BY <2>1, <2>2 DEF DirType, dirVars
<1>3. CASE TamperIndex
  <2>1. UNCHANGED <<dirVars, now, truth>> /\ Spend("tamper")
    BY <1>3 DEF TamperIndex, worldHist
  <2> QED
    BY <2>1, SpendStep DEF DirType, dirVars
<1>4. CASE Environment /\ ~TamperIndex
  BY <1>4, EnvStep
<1> QED
  BY <1>1, <1>2, <1>3, <1>4 DEF Next, Run, Idle

\* Every step keeps the variables of a run well formed.
LEMMA RunTypeNext ==
  ASSUME DirType, IndexType, RunType, SpentType, TimeInv, [Next]_vars
  PROVE  RunType'
<1> USE Constants DEF RunType, Reading, Calculating, Finishing
<1>1. CASE Begin
  BY <1>1 DEF Begin, Present, DirType
<1>2. CASE Load
  BY <1>2 DEF Load
<1>3. CASE SkipFile
  BY <1>3 DEF SkipFile
<1>4. CASE Stat
  <2>1. PICK f \in left :
          /\ left' = left \ {f}
          /\ \/ CalcError(f)
             \/ /\ file[f] # None /\ pc' = "open"
                /\ work' = [name |-> f, mtime |-> file[f].mtime, size |-> Len(file[f].data),
                            buf |-> <<>>, pass |-> 1]
    BY <1>4 DEF Stat
  <2>2. UNCHANGED <<opt, listing>> /\ pc = "calc"
    BY <1>4 DEF Stat
  <2>3. CASE CalcError(f)
    BY <2>1, <2>2, <2>3 DEF CalcError
  <2>4. CASE pc' = "open"
    <3>1. file[f].mtime \in Time /\ Len(file[f].data) \in Nat
      BY <2>1, <2>4, ContentFacts DEF CalcError, DirType, File
    <3>2. [name |-> f, mtime |-> file[f].mtime, size |-> Len(file[f].data), buf |-> <<>>,
           pass |-> 1] \in Works
      BY <3>1, WorkMake
    <3>3. work' = [name |-> f, mtime |-> file[f].mtime, size |-> Len(file[f].data), buf |-> <<>>,
                   pass |-> 1]
      BY <2>1, <2>4, Zenon DEF CalcError
    <3>4. work' \in Works
      BY <3>2, <3>3, Zenon
    <3> QED
      BY <2>1, <2>2, <2>4, <3>4 DEF CalcError
  <2> QED
    BY <2>1, <2>3, <2>4
<1>5. CASE Open
  <2>1. /\ work \in Works
        /\ UNCHANGED <<file, opt, listing, left>> /\ opt \in Options
        /\ file[work.name] # None =>
             file[work.name].data \in Contents /\ file[work.name].mtime \in Time
    BY <1>5, CalcCases DEF dirVars, DirType, File
  <2> QED
    BY <1>5, <2>1 DEF Open, CalcError
<1>6. CASE Read
  <2>1. /\ work \in Works
        /\ UNCHANGED <<file, opt, listing, left>> /\ opt \in Options /\ pc = "read"
        /\ file[work.name].data \in Contents /\ file[work.name] # None
    BY <1>6, CalcCases DEF Read, dirVars, DirType, File
  <2> DEFINE data == file[work.name].data
  <2>2. CASE CalcError(work.name) \/ CalcResult(work.name, work.mtime, work.buf)
    BY <2>1, <2>2 DEF CalcError, CalcResult
  <2>3. CASE /\ Len(work.buf) < Len(data) /\ UNCHANGED pc
             /\ work' = [work EXCEPT !.buf = Append(@, data[Len(work.buf) + 1])]
    <3>1. data[Len(work.buf) + 1] \in Block
      BY <2>1, <2>3, ContentFacts, LenProperties, ElementOfSeq DEF Works
    <3>2. Append(work.buf, data[Len(work.buf) + 1]) \in Seq(Block)
      BY <2>1, <3>1, AppendProperties DEF Works
    <3> QED
      BY <2>1, <2>3, <3>2 DEF Works
  <2>4. CASE Len(work.buf) >= Len(data) /\ pc' = "restat" /\ UNCHANGED work
    <3>1. work.buf # NoHash
      BY <2>1, <2>4, ContentFacts, LenProperties DEF NoHash, Works
    <3> QED
      BY <2>1, <2>4, <3>1
  <2> QED
    BY <1>6, <2>2, <2>3, <2>4 DEF Read
<1>7. CASE Restat
  <2>1. /\ work \in Works
        /\ UNCHANGED <<file, opt, listing, left>> /\ opt \in Options
        /\ file[work.name] # None =>
             file[work.name].data \in Contents /\ file[work.name].mtime \in Time
    BY <1>7, CalcCases DEF dirVars, DirType, File
  <2>2. CASE CalcError(work.name) \/ CalcResult(work.name, work.mtime, work.buf)
    BY <2>1, <2>2 DEF CalcError, CalcResult
  <2>3. CASE /\ file[work.name] # None /\ pc' = "open"
             /\ work' = [work EXCEPT !.mtime = file[work.name].mtime, !.buf = <<>>, !.pass = 2,
                                     !.size = Len(file[work.name].data)]
    <3>1. /\ Len(file[work.name].data) \in Nat /\ file[work.name].mtime \in Time
          /\ work.name \in Files
      BY <2>1, <2>3, ContentFacts DEF Works
    <3>2. \A w \in Works :
            [w EXCEPT !.mtime = file[work.name].mtime, !.size = Len(file[work.name].data),
                      !.buf = <<>>, !.pass = 2] \in Works
      BY <3>1, WorkMake, Zenon
    <3>3. work' \in Works
      BY <2>1, <2>3, <3>2, Zenon
    <3> QED
      BY <2>1, <2>3, <3>3
  <2> QED
    BY <1>7, <2>2, <2>3 DEF Restat
<1>8. CASE CheckFix
  BY <1>8 DEF CheckFix
<1>9. CASE SaveOpen
  BY <1>9 DEF SaveOpen, saveFrame, runVars
<1>10. CASE SaveWrite
  BY <1>10 DEF SaveWrite, saveFrame, runVars
<1>11. CASE End
  BY <1>11 DEF End, Reset, NoList
<1>12. CASE Kill
  BY <1>12 DEF Kill, Reset, NoList
<1>13. ASSUME NEW x \in Files \cup Subs, Touch(x)
      PROVE  RunType'
  BY <1>13 DEF Touch, Works, runVars, indexVars
<1>14. CASE TamperIndex
  BY <1>14 DEF TamperIndex, runVars
<1>15. CASE UNCHANGED vars
  BY <1>15 DEF vars, dirVars, runVars, indexVars, worldHist
<1> QED
  BY <1>1, <1>2, <1>3, <1>4, <1>5, <1>6, <1>7, <1>8, <1>9, <1>10, <1>11, <1>12, <1>13, <1>14,
     <1>15, EnvStep DEF Next, Run, Idle

\* A damaged index file does not parse or is one that does not verify, with the same
\* times.
LEMMA TamperFacts ==
  ASSUME IndexType, TimeInv, TamperIndex
  PROVE  /\ store'.state \in {"corrupt", "unverified"} /\ store.state = "ok"
         /\ \A f \in Files : Known(store'.entries[f])
<1>1. CASE store' = Unparseable
  BY <1>1 DEF TamperIndex, Unparseable, NoEntries, Known
<1>2. ASSUME NEW f \in Has(store.entries), NEW c \in Contents,
             store' = [store EXCEPT !.state = "unverified", !.entries[f].hash = c]
      PROVE  store'.state = "unverified" /\ \A g \in Files : Known(store'.entries[g])
  <2>1. store' = [store EXCEPT !.state = "unverified",
                               !.entries =
              [store.entries EXCEPT ![f] = [store.entries[f] EXCEPT !.hash = c]]]
    BY <1>2
  <2>2. /\ f \in Files /\ store.entries[f] \in Entry /\ store.entries[f] # None
        /\ store \in Stores /\ c # NoHash
    BY <1>2, ContentFacts DEF Has, Stores, Entries, IndexType
  <2>3. store'.state = "unverified"
        /\ store'.entries = [store.entries EXCEPT ![f] = [store.entries[f] EXCEPT !.hash = c]]
    BY <2>1, <2>2 DEF Stores
  <2>4. \A g \in Files : store'.entries[g] =
          IF g = f THEN [store.entries[f] EXCEPT !.hash = c] ELSE store.entries[g]
    BY <2>2, <2>3 DEF Stores, Entries
  <2>5. [store.entries[f] EXCEPT !.hash = c].mtime = store.entries[f].mtime
        /\ [store.entries[f] EXCEPT !.hash = c].hash = c
    BY <2>2 DEF Entry
  <2>6. now' = now
    BY DEF TamperIndex, worldHist
  <2>7. Known(store.entries[f]) /\ \A g \in Files : Known(store.entries[g])
    BY <2>2 DEF TimeInv
  <2> QED
    BY <2>2, <2>3, <2>4, <2>5, <2>6, <2>7 DEF Known
<1>3. ASSUME NEW f \in Has(store.entries),
             store' = [store EXCEPT !.state = "unverified", !.entries[f] = None]
      PROVE  store'.state = "unverified" /\ \A g \in Files : Known(store'.entries[g])
  BY <1>3 DEF TimeInv, Known, TamperIndex, IndexType, Stores, Entries
<1> QED
  BY <1>1, <1>2, <1>3 DEF TamperIndex, Unparseable

\* Every step keeps the times at most at the clock.
LEMMA TimeNext ==
  ASSUME TypeInv, TimeInv, OutcomeInv, CertInv, [Next]_vars
  PROVE  TimeInv'
<1> USE Constants DEF TimeInv, TypeInv, Known, Reading
<1>0. /\ now \in Nat /\ \A f \in Files : file[f] # None => file[f].mtime \in 1..now
  BY DEF DirType, File, Time
<1>1. CASE Begin
  BY <1>1, <1>0, SpendOther DEF Begin, dirVars, worldHist
<1>2. CASE Load
  BY <1>2, <1>0 DEF Load, dirVars, OutcomeInv, NoEntries, worldHist
<1>3. CASE SkipFile
  <2>1. UNCHANGED <<file, store, pc, opt, cur, spent, now, certified>> /\ pc = "calc"
    BY <1>3 DEF SkipFile, dirVars, worldHist
  <2>2. PICK f \in left :
          \/ UNCHANGED new
          \/ new' = [new EXCEPT ![f] = cur.entries[f]]
          \/ /\ new' = [new EXCEPT ![f] = [mtime |-> 0, algo |-> opt.algo, hash |-> NoHash]]
             /\ cur.entries[f] = None /\ ~opt.update
    BY <1>3 DEF SkipFile
  <2>3. \A g \in Files : Known(new'[g])
          \/ (new'[g] = [mtime |-> 0, algo |-> opt.algo, hash |-> NoHash]
              /\ cur.entries[g] = None /\ ~opt.update)
    BY <2>2 DEF IndexType, Entries
  <2> QED
    BY <2>1, <2>3
<1>4. CASE Stat
  <2>1. UNCHANGED <<file, store, opt, cur, spent, now, certified, new>> /\ pc = "calc"
    BY <1>4 DEF Stat, dirVars, worldHist, CalcError
  <2>2. pc' \in Reading => \E f \in Files : work'.mtime = file[f].mtime /\ file[f] # None
    BY <1>4 DEF Stat, CalcError, RunType
  <2>3. \A f \in Files : file[f] # None => file[f].mtime \in 1..now
    BY DEF DirType, File, Time
  <2>4. pc' # "idle"
    BY <1>4 DEF Stat, CalcError
  <2> QED
    BY <2>1, <2>2, <2>3, <2>4
<1>5. CASE Open
  <2>1. UNCHANGED <<file, store, opt, cur, spent, now, certified>> /\ pc \in Reading
    BY <1>5, CalcCases DEF dirVars, worldHist
  <2>2. \A f \in Files : Known(new'[f]) \/ new'[f] = new[f]
    <3>1. CASE CalcResult(work.name, work.mtime, work.buf) /\ work.buf # NoHash
      BY <2>1, <3>1 DEF CalcResult, IndexType, Entries
    <3> QED
      BY <1>5, <3>1, CalcCases DEF CalcError
  <2>3. pc' \in Reading => work'.mtime \in 1..now
    BY <1>5, <1>0 DEF Open, CalcError, CalcResult, RunType, Works, DirType, File, Time
  <2>4. pc' # "idle"
    BY <1>5 DEF Open, CalcError, CalcResult
  <2> QED
    BY <2>1, <2>2, <2>3, <2>4
<1>6. CASE Read
  <2>1. UNCHANGED <<file, store, opt, cur, spent, now, certified>> /\ pc \in Reading
    BY <1>6, CalcCases DEF dirVars, worldHist
  <2>2. \A f \in Files : Known(new'[f]) \/ new'[f] = new[f]
    <3>1. CASE CalcResult(work.name, work.mtime, work.buf) /\ work.buf # NoHash
      BY <2>1, <3>1 DEF CalcResult, IndexType, Entries
    <3> QED
      BY <1>6, <3>1, CalcCases DEF CalcError
  <2>3. pc' \in Reading => work'.mtime \in 1..now
    BY <1>6, <1>0 DEF Read, CalcError, CalcResult, RunType, Works, DirType, File, Time
  <2>4. pc' # "idle"
    BY <1>6 DEF Read, CalcError, CalcResult
  <2> QED
    BY <2>1, <2>2, <2>3, <2>4
<1>7. CASE Restat
  <2>1. UNCHANGED <<file, store, opt, cur, spent, now, certified>> /\ pc \in Reading
    BY <1>7, CalcCases DEF dirVars, worldHist
  <2>2. \A f \in Files : Known(new'[f]) \/ new'[f] = new[f]
    <3>1. CASE CalcResult(work.name, work.mtime, work.buf) /\ work.buf # NoHash
      BY <2>1, <3>1 DEF CalcResult, IndexType, Entries
    <3> QED
      BY <1>7, <3>1, CalcCases DEF CalcError
  <2>3. pc' \in Reading => work'.mtime \in 1..now
    <3>1. work \in Works
      BY <2>1 DEF RunType
    <3> QED
      BY <1>7, <1>0, <3>1 DEF Restat, CalcError, CalcResult, Works
  <2>4. pc' # "idle"
    BY <1>7 DEF Restat, CalcError, CalcResult
  <2> QED
    BY <2>1, <2>2, <2>3, <2>4
<1>8. CASE CheckFix
  <2>1. UNCHANGED <<file, store, opt, cur, spent, now, certified>> /\ pc' \in {"save", "done"}
    BY <1>8 DEF CheckFix, dirVars, worldHist
  <2>2. \A f \in Files : new'[f] \in {new[f], cur.entries[f]}
    BY <1>8 DEF CheckFix
  <2> QED
    BY <2>1, <2>2
<1>9. CASE SaveOpen
  <2>1. UNCHANGED <<file, cur, new, opt, now, certified>> /\ pc' \in {"write", "done"}
    BY <1>9 DEF SaveOpen, saveFrame, dirVars, runVars, indexVars, worldHist
  <2>2. \A f \in Files : Known(store'.entries[f])
    BY <1>9 DEF SaveOpen, Unparseable, NoEntries
  <2>3. spent'["write"] = spent["write"] /\ spent'["live"] = spent["live"]
    BY <1>9, SpendOther DEF SaveOpen
  <2> QED
    BY <2>1, <2>2, <2>3
<1>10. CASE SaveWrite
  <2>1. UNCHANGED <<file, cur, new, opt, now>> /\ pc' = "done" /\ opt.update
    BY <1>10 DEF SaveWrite, saveFrame, dirVars, runVars, indexVars, worldHist, CertInv
  <2>2. \A f \in Files : Known(new[f])
    BY <2>1
  <2>3. \A f \in Files : new[f] # None => new[f].mtime <= now /\ 0 <= now
    BY <2>2
  <2>4. \A f \in Files : Known(store'.entries[f]) /\ certified'[f] <= now
    BY <1>10, <2>2, <2>3 DEF SaveWrite
  <2>5. spent'["write"] = spent["write"] /\ spent'["live"] = spent["live"]
    BY <1>10, SpendOther DEF SaveWrite
  <2> QED
    BY <2>1, <2>2, <2>4, <2>5
<1>11. CASE End
  BY <1>11 DEF End, Reset, dirVars, NoEntries
<1>12. CASE Kill
  BY <1>12, SpendOther DEF Kill, Reset, dirVars, NoEntries
<1>13. ASSUME NEW x \in Files \cup Subs, Touch(x)
      PROVE  TimeInv'
  <2>1. ClockMoves \/ UNCHANGED <<file, now, spent["write"], spent["live"]>>
    BY WorldNext
  <2>2. UNCHANGED <<store, cur, new, opt, pc, work, certified>> /\ now \in Nat
    BY <1>13 DEF Touch, runVars, indexVars
  <2>3. now' \in 1..(1 + spent'["write"] + spent'["live"]) /\ now <= now' /\ now' \in Nat
        /\ \A f \in Files : file'[f] # None => file'[f].mtime <= now'
    BY <2>1, <2>2 DEF ClockMoves
  <2>4. \A f \in Files :
          (Known(store.entries[f]) /\ Known(cur.entries[f]))' /\ (Known(new[f]) => Known(new[f])')
    BY <2>2, <2>3
  <2>5. \A f \in Files : certified'[f] <= now'
    <3>1. \A f \in Files : certified[f] \in Nat
      BY DEF IndexType, Time
    <3> QED
      BY <2>2, <2>3, <3>1
  <2>6. pc' \in Reading => work'.mtime \in 1..now'
    BY <2>2, <2>3
  <2> QED
    BY <2>2, <2>3, <2>4, <2>5, <2>6
<1>14. CASE TamperIndex
  <2>1. UNCHANGED <<file, cur, new, opt, pc, work, now, certified>>
    BY <1>14 DEF TamperIndex, dirVars, runVars, indexVars, worldHist
  <2>2. spent'["write"] = spent["write"] /\ spent'["live"] = spent["live"]
    BY <1>14, SpendOther DEF TamperIndex
  <2>3. \A f \in Files : Known(store'.entries[f])
    BY <1>14, TamperFacts
  <2> QED
    BY <2>1, <2>2, <2>3 DEF Reading
<1>15. CASE UNCHANGED vars
  BY <1>15 DEF vars, dirVars, runVars, indexVars, worldHist
<1> QED
  BY <1>1, <1>2, <1>3, <1>4, <1>5, <1>6, <1>7, <1>8, <1>9, <1>10, <1>11, <1>12, <1>13, <1>14,
     <1>15, EnvStep DEF Next, Run, Idle

-----------------------------------------------------------------------------
(* What calcHashes finds                                                   *)

\* A file is read from the start, one block more with each Read, up to its end.
LEMMA PrefixFacts ==
  ASSUME NEW data \in Seq(Block), NEW buf \in Seq(Block), Prefix(buf, data)
  PROVE  /\ Len(buf) < Len(data) => Prefix(Append(buf, data[Len(buf) + 1]), data)
         /\ Len(buf) >= Len(data) => buf = data
<1>1. Len(buf) \in Nat /\ Len(data) \in Nat
  BY LenProperties
<1>2. ASSUME Len(buf) < Len(data)
      PROVE  Prefix(Append(buf, data[Len(buf) + 1]), data)
  <2>1. data[Len(buf) + 1] \in Block
    BY <1>1, <1>2, ElementOfSeq
  <2> QED
    BY <1>1, <1>2, <2>1, AppendProperties DEF Prefix
<1>3. ASSUME Len(buf) >= Len(data)
      PROVE  buf = data
  <2>1. Len(buf) = Len(data)
    BY <1>1, <1>3 DEF Prefix
  <2> QED
    BY <1>1, <2>1, SeqEqual DEF Prefix
<1> QED
  BY <1>2, <1>3

LEMMA EmptyPrefix ==
  ASSUME NEW data \in Seq(Block)
  PROVE  Prefix(<<>>, data)
BY LenProperties, EmptySeq DEF Prefix

\* Every step of calcHashes keeps the outcome for the files that nobody touches.
LEMMA OutcomeNext ==
  ASSUME TypeInv, TimeInv, OutcomeInv, [Next]_vars
  PROVE  OutcomeInv'
<1> USE Constants DEF OutcomeInv, TypeInv, Calculating, Reading
<1>1. CASE Begin
  BY <1>1 DEF Begin, Present, dirVars
<1>2. CASE Load
  <2>1. UNCHANGED <<file, opt, listing, new, left, work, changed>> /\ pc = "load"
        /\ pc' \in {"calc", "done"} /\ (pc' = "calc" => ~opt.showIgnored)
    BY <1>2 DEF Load, dirVars, worldHist
  <2>2. \A f \in Files \ left : Outcome(f)' = None
    BY <2>1 DEF Outcome
  <2> QED
    BY <2>1, <2>2 DEF NoEntries
<1>3. CASE SkipFile
  <2>1. UNCHANGED <<file, broken, opt, listing, cur, changed>> /\ pc = "calc" /\ pc' = "calc"
        /\ UNCHANGED work /\ log \subseteq log'
    BY <1>3 DEF SkipFile, dirVars, worldHist
  <2>2. \A f \in Files : Outcome(f)' = Outcome(f)
    BY <2>1 DEF Outcome, Unmodified, AlgoOf
  <2>3. PICK f \in left :
          /\ left' = left \ {f}
          /\ \/ f \in listing.ign /\ UNCHANGED new
             \/ /\ f \notin listing.ign /\ cur.entries[f] # None /\ opt.skipCheck /\ Unmodified(f)
                /\ new' = [new EXCEPT ![f] = cur.entries[f]]
             \/ /\ f \notin listing.ign /\ cur.entries[f] = None /\ ~opt.update
                /\ new' = [new EXCEPT ![f] = [mtime |-> 0, algo |-> opt.algo, hash |-> NoHash]]
    BY <1>3 DEF SkipFile
  <2>4. /\ f \in Files /\ f \in listing.files /\ new[f] = None
        /\ \A g \in Files \ {f} : new'[g] = new[g]
        /\ [mtime |-> 0, algo |-> opt.algo, hash |-> NoHash] # None
    <3>1. f \in Files /\ f \in listing.files
      BY <2>1, <2>3 DEF RunType
    <3>2. new[f] = None /\ \A g \in Files \ {f} : new'[g] = new[g]
      BY <2>1, <2>3, <3>1 DEF IndexType, Entries
    <3>3. [mtime |-> 0, algo |-> opt.algo, hash |-> NoHash] \in Entry
      BY <2>1, AlgoType, EntryFacts
    <3> QED
      BY <3>1, <3>2, <3>3
  <2>5. new'[f] = Outcome(f) /\ (f \notin listing.ign => new'[f] # None)
    BY <2>3, <2>4 DEF Outcome, IndexType, Entries
  <2>6. work = NoWork /\ work.name = None
    BY <2>1 DEF RunType, NoWork
  <2> QED
    BY <2>1, <2>2, <2>3, <2>4, <2>5, <2>6
<1>4. CASE Stat
  <2>1. UNCHANGED <<file, broken, opt, listing, cur, changed>> /\ pc = "calc" /\ log \subseteq log'
        /\ UNCHANGED new
    BY <1>4 DEF Stat, CalcError, dirVars, worldHist
  <2>2. \A f \in Files : Outcome(f)' = Outcome(f)
    BY <2>1 DEF Outcome, Unmodified, AlgoOf
  <2>3. PICK f \in left :
          /\ left' = left \ {f} /\ f \notin listing.ign
          /\ IF cur.entries[f] = None THEN opt.update ELSE ~opt.skipCheck \/ ~Unmodified(f)
          /\ \/ file[f] = None /\ CalcError(f)
             \/ /\ file[f] # None /\ pc' = "open"
                /\ work' = [name |-> f, mtime |-> file[f].mtime, size |-> Len(file[f].data),
                            buf |-> <<>>, pass |-> 1]
    BY <1>4 DEF Stat
  <2>4. f \in Files /\ f \in listing.files /\ new[f] = None
    BY <2>1, <2>3 DEF RunType
  <2>5. work = NoWork /\ work.name = None
    BY <2>1 DEF RunType, NoWork
  <2>6. CASE file[f] = None /\ CalcError(f)
    <3>1. f \in changed /\ work' = NoWork /\ pc' = "calc"
      BY <2>1, <2>4, <2>6 DEF CalcError
    <3> QED
      BY <2>1, <2>2, <2>3, <2>4, <2>5, <3>1
  <2>7. CASE file[f] # None /\ pc' = "open"
    <3>1. /\ work'.name = f /\ work'.mtime = file[f].mtime /\ work'.size = Len(file[f].data)
          /\ work'.buf = <<>> /\ work'.pass = 1
      BY <2>3, <2>7 DEF CalcError
    <3>2. Prefix(<<>>, file[f].data)
      BY <2>4, <2>7, EmptyPrefix, ContentFacts DEF DirType, File
    <3>3. Reads(f)'
      BY <2>1, <2>7, <3>1, <3>2 DEF Reads
    <3>4. Unmodified(f)' = Unmodified(f)
      BY <2>1 DEF Unmodified
    <3> QED
      BY <2>1, <2>2, <2>3, <2>4, <2>5, <2>7, <3>1, <3>3, <3>4
  <2> QED
    BY <2>3, <2>6, <2>7
<1>5. CASE Open
  <2>1. /\ UNCHANGED <<file, broken, opt, listing, cur, changed, left, new>> /\ pc = "open"
        /\ log \subseteq log'
    BY <1>5 DEF Open, calcFrame, CalcError, dirVars, worldHist
  <2>2. \A f \in Files : Outcome(f)' = Outcome(f) /\ Unmodified(f)' = Unmodified(f)
    BY <2>1 DEF Outcome, Unmodified, AlgoOf
  <2>3. work.name \in Files
    BY <2>1 DEF RunType, Works
  <2>4. CASE file[work.name] = None /\ CalcError(work.name)
    <3>1. work.name \in changed /\ work' = NoWork /\ pc' = "calc" /\ work'.name = None
      BY <2>1, <2>3, <2>4 DEF CalcError, Reads, NoWork
    <3> QED
      BY <2>1, <2>2, <2>3, <3>1
  <2>5. CASE pc' = "read" /\ UNCHANGED work
    <3>1. \A f \in Files : Reads(f) => Reads(f)'
      BY <2>1, <2>5 DEF Reads
    <3> QED
      BY <2>1, <2>2, <2>3, <2>5, <3>1
  <2> QED
    BY <1>5, <2>4, <2>5 DEF Open
<1>6. CASE Read
  <2>1. /\ UNCHANGED <<file, broken, opt, listing, cur, changed, left>> /\ pc = "read"
        /\ work.name \in Files /\ work \in Works
    BY <1>6 DEF Read, calcFrame, dirVars, worldHist, RunType, Works
  <2> DEFINE f == work.name
  <2>2. \A g \in Files : Outcome(g)' = Outcome(g) /\ Unmodified(g)' = Unmodified(g)
    BY <2>1 DEF Outcome, Unmodified, AlgoOf
  <2>3. ASSUME pc' = "calc", work' = NoWork, log \subseteq log',
               \A g \in Files \ {f} : new'[g] = new[g],
               f \notin changed => new'[f] = Outcome(f) /\ (new'[f] = None => <<"PNC", f>> \in log')
        PROVE  OutcomeInv'
    <3>1. work'.name = None
      BY <2>3 DEF NoWork
    <3> QED
      BY <2>1, <2>2, <2>3, <3>1
  <2>4. /\ file[f] # None /\ file[f].data \in Seq(Block) /\ file[f].mtime \in Nat
        /\ work.buf \in Seq(Block)
    BY <2>1, ContentFacts DEF RunType, DirType, File, Time, Works
  <2>5. CASE f \in broken /\ CalcError(f)
    <3>1. f \notin changed => Outcome(f) = None
      BY <2>1, <2>5 DEF Outcome
    <3> QED
      BY <2>1, <2>3, <2>5, <3>1 DEF CalcError
  <2>6. CASE /\ f \notin broken /\ Len(work.buf) < Len(file[f].data)
             /\ work' = [work EXCEPT !.buf = Append(@, file[f].data[Len(work.buf) + 1])]
             /\ UNCHANGED <<pc, new, log>>
    <3>1. /\ work'.name = f /\ work'.mtime = work.mtime /\ work'.size = work.size
          /\ work'.pass = work.pass
          /\ work'.buf = Append(work.buf, file[f].data[Len(work.buf) + 1])
      BY <2>1, <2>6 DEF Works
    <3>2. Reads(f) => Reads(f)'
      BY <2>1, <2>4, <2>6, <3>1, PrefixFacts DEF Reads
    <3> QED
      BY <2>1, <2>2, <2>6, <3>1, <3>2
  <2>7. CASE /\ f \notin broken /\ Len(work.buf) >= Len(file[f].data) /\ pc' = "restat"
             /\ UNCHANGED <<work, new, log>>
    <3>1. Reads(f) => Reads(f)'
      BY <2>1, <2>4, <2>7, PrefixFacts DEF Reads
    <3> QED
      BY <2>1, <2>2, <2>7, <3>1
  <2>8. CASE work.pass = 2 /\ CalcResult(f, work.mtime, work.buf)
    BY <2>1, <2>3, <2>8 DEF CalcResult, IndexType, Entries
  <2> QED
    BY <1>6, <2>5, <2>6, <2>7, <2>8 DEF Read
<1>7. CASE Restat
  <2>1. /\ UNCHANGED <<file, broken, opt, listing, cur, changed, left>> /\ pc = "restat"
        /\ work.name \in Files /\ work \in Works
    BY <1>7 DEF Restat, calcFrame, dirVars, worldHist, RunType, Works
  <2> DEFINE f == work.name
  <2>2. \A g \in Files : Outcome(g)' = Outcome(g) /\ Unmodified(g)' = Unmodified(g)
    BY <2>1 DEF Outcome, Unmodified, AlgoOf
  <2>3. ASSUME pc' = "calc", work' = NoWork, log \subseteq log',
               \A g \in Files \ {f} : new'[g] = new[g],
               f \notin changed => new'[f] = Outcome(f) /\ (new'[f] = None => <<"PNC", f>> \in log')
        PROVE  OutcomeInv'
    <3>1. work'.name = None
      BY <2>3 DEF NoWork
    <3> QED
      BY <2>1, <2>2, <2>3, <3>1
  <2>4. CASE file[f] = None /\ CalcError(f)
    BY <2>1, <2>3, <2>4 DEF CalcError, Reads
  <2>5. CASE /\ file[f] # None /\ Rehash(file[f].mtime, Len(file[f].data)) /\ pc' = "open"
             /\ work' = [work EXCEPT !.mtime = file[f].mtime, !.size = Len(file[f].data),
                                     !.buf = <<>>, !.pass = 2]
             /\ UNCHANGED <<new, log>>
    <3>1. f \in changed /\ work'.name = f
      BY <2>1, <2>5 DEF Rehash, Reads, Works
    <3> QED
      BY <2>1, <2>2, <2>5, <3>1
  <2>6. CASE CalcResult(f, work.mtime, work.buf)
    <3>1. new'[f] = [mtime |-> work.mtime, algo |-> AlgoOf(f), hash |-> work.buf] /\ new'[f] # None
      BY <2>1, <2>6, AlgoType, EntryFacts DEF CalcResult, IndexType, Entries, Works
    <3>2. f \notin changed => new'[f] = Outcome(f)
      BY <2>1, <3>1 DEF Outcome, Reads
    <3> QED
      BY <2>1, <2>3, <2>6, <3>1, <3>2 DEF CalcResult, IndexType, Entries
  <2> QED
    BY <1>7, <2>4, <2>5, <2>6 DEF Restat
<1>8. CASE CheckFix
  BY <1>8 DEF CheckFix, dirVars, worldHist
<1>9. CASE SaveOpen
  BY <1>9 DEF SaveOpen, saveFrame, dirVars, runVars, worldHist
<1>10. CASE SaveWrite
  BY <1>10 DEF SaveWrite, saveFrame, dirVars, runVars, worldHist
<1>11. CASE End
  BY <1>11 DEF End, Reset, dirVars
<1>12. CASE Kill
  BY <1>12 DEF Kill, Reset, dirVars
<1>13. ASSUME NEW x \in Files \cup Subs, Touch(x)
      PROVE  OutcomeInv'
  <2>1. /\ UNCHANGED <<pc, opt, listing, cur, new, left, work, log>> /\ changed' = changed \cup {x}
        /\ \A f \in Files \ changed' : file'[f] = file[f] /\ (f \in broken' <=> f \in broken)
    BY <1>13 DEF Touch, runVars, indexVars
  <2>2. \A f \in Files \ changed' : Outcome(f)' = Outcome(f)
    BY <2>1 DEF Outcome, Unmodified, AlgoOf
  <2>3. \A f \in Files \ changed' : Reads(f) => Reads(f)'
    BY <2>1 DEF Reads
  <2>4. \A f \in Files \ changed' : Unmodified(f)' = Unmodified(f)
    BY <2>1 DEF Unmodified
  <2>5. pc \in Reading => work.name \in Files
    BY DEF RunType, Works
  <2> QED
    BY <2>1, <2>2, <2>3, <2>4, <2>5
<1>14. CASE TamperIndex
  BY <1>14 DEF TamperIndex, dirVars, runVars, indexVars, worldHist
<1>15. CASE UNCHANGED vars
  <2>1. UNCHANGED <<file, broken, pc, opt, listing, cur, new, left, work, log, changed>>
    BY <1>15 DEF vars, dirVars, runVars, indexVars, worldHist
  <2>2. \A f \in Files : /\ Outcome(f)' = Outcome(f) /\ (Reads(f) => Reads(f)')
                        /\ Unmodified(f)' = Unmodified(f)
    BY <2>1 DEF Outcome, Unmodified, AlgoOf, Reads
  <2>3. pc \in Reading => work.name \in Files
    BY DEF RunType, Works
  <2> QED
    BY <2>1, <2>2, <2>3
<1> QED
  BY <1>1, <1>2, <1>3, <1>4, <1>5, <1>6, <1>7, <1>8, <1>9, <1>10, <1>11, <1>12, <1>13, <1>14,
     <1>15, EnvStep DEF Next, Run, Idle

-----------------------------------------------------------------------------
(* What was certified, and the reports                                     *)

\* calcHashes changes nothing but its own variables, and reports files that are
\* ignored or cannot be read.
LEMMA CalcStep ==
  ASSUME DirType, RunType, SkipFile \/ Stat \/ Open \/ Read \/ Restat
  PROVE  /\ pc \in Calculating /\ pc' \in Calculating
         /\ UNCHANGED <<dirVars, store, opt, listing, cur, newDirList, modified, spent, worldHist,
                        certified, quiet>>
         /\ log \subseteq log'
         /\ \A m \in log' \ log : \E f \in Files : m = <<"ign", f>> \/ m = <<"PNC", f>>
<1> USE DEF Calculating, Reading
<1>1. CASE SkipFile
  BY <1>1 DEF SkipFile, RunType
<1>2. CASE Stat
  BY <1>2 DEF Stat, CalcError, RunType
<1>3. CASE Open
  BY <1>3, CalcCases DEF CalcError, Open, CalcResult
<1>4. CASE Read
  BY <1>4, CalcCases DEF CalcError, Read, CalcResult
<1>5. CASE Restat
  BY <1>5, CalcCases DEF CalcError, Restat, CalcResult
<1> QED
  BY <1>1, <1>2, <1>3, <1>4, <1>5

\* Every step keeps what was certified, or says that the index is damaged.  A hash that
\* calcHashes finds other than certified, at the same time, is taken for damage.
LEMMA CertNext ==
  ASSUME TypeInv, TimeInv, OutcomeInv, CertInv, [Next]_vars
  PROVE  CertInv'
<1> USE Constants DEF TypeInv, CertInv, Suspect, Right, Calculating, Reading
<1>1. CASE Begin
  BY <1>1 DEF Begin, worldHist
<1>2. CASE Load
  <2>1. /\ UNCHANGED <<store, truth, certified>> /\ pc' \in {"calc", "done"}
        /\ cur'.entries = store.entries
        /\ store.state = "corrupt" => <<"PNC", "index">> \in log'
        /\ store.state = "unverified" => <<"ERX", "index">> \in log'
    BY <1>2 DEF Load, worldHist
  <2> QED
    BY <2>1
<1>3. CASE SkipFile
  <2>1. /\ UNCHANGED <<store, cur, opt, truth, certified>> /\ log \subseteq log'
        /\ pc \in Calculating /\ pc' \in Calculating
    BY <1>3, CalcStep DEF worldHist
  <2> QED
    BY <2>1
<1>4. CASE Stat
  <2>1. /\ UNCHANGED <<store, cur, opt, truth, certified>> /\ log \subseteq log'
        /\ pc \in Calculating /\ pc' \in Calculating
    BY <1>4, CalcStep DEF worldHist
  <2> QED
    BY <2>1
<1>5. CASE Open
  <2>1. /\ UNCHANGED <<store, cur, opt, truth, certified>> /\ log \subseteq log'
        /\ pc \in Calculating /\ pc' \in Calculating
    BY <1>5, CalcStep DEF worldHist
  <2> QED
    BY <2>1
<1>6. CASE Read
  <2>1. /\ UNCHANGED <<store, cur, opt, truth, certified>> /\ log \subseteq log'
        /\ pc \in Calculating /\ pc' \in Calculating
    BY <1>6, CalcStep DEF worldHist
  <2> QED
    BY <2>1
<1>7. CASE Restat
  <2>1. /\ UNCHANGED <<store, cur, opt, truth, certified>> /\ log \subseteq log'
        /\ pc \in Calculating /\ pc' \in Calculating
    BY <1>7, CalcStep DEF worldHist
  <2> QED
    BY <2>1
<1>8. CASE CheckFix
  <2>1. /\ UNCHANGED <<store, cur, opt, listing, truth, changed, certified>> /\ log \subseteq log'
        /\ pc = "calc" /\ left = {} /\ pc' \in {"save", "done"} /\ (pc' = "save" => opt.update)
        /\ \A f \in Files : new'[f] = IF KeepsOld(f) THEN cur.entries[f] ELSE new[f]
    BY <1>8 DEF CheckFix, worldHist
  <2>2. \A f \in Files : certified[f] # 0 => Suspect' \/ Right(cur.entries[f], f)
    BY <2>1
  <2>3. ASSUME NEW f \in Files, Right(cur.entries[f], f), new'[f] # None,
               new'[f].mtime = certified[f], ~opt.force
        PROVE  new'[f].hash = truth[f][certified[f]]
    BY <2>1, <2>3 DEF KeepsOld, Verdict
  <2>4. ASSUME NEW f \in listing.files \ (listing.ign \cup changed), new'[f] = None
        PROVE  <<"PNC", f>> \in log'
    <3>1. f \in Files /\ work.name = None
      BY <2>1, <2>4 DEF RunType, NoWork, Reading
    <3>2. new[f] = None
      BY <2>1, <2>4, <3>1 DEF KeepsOld, Verdict
    <3> QED
      BY <2>1, <2>4, <3>1, <3>2 DEF OutcomeInv
  <2> QED
    BY <2>1, <2>2, <2>3, <2>4
<1>9. CASE SaveOpen
  <2>1. /\ UNCHANGED <<cur, new, opt, listing, truth, changed, certified>> /\ pc = "save"
        /\ log \subseteq log' /\ pc' \in {"write", "done"}
        /\ store' = store \/ store'.state = "corrupt"
    BY <1>9 DEF SaveOpen, saveFrame, runVars, indexVars, worldHist, Unparseable
  <2> QED
    BY <2>1
<1>10. CASE SaveWrite
  <2>1. UNCHANGED <<new, opt, truth>> /\ pc = "write" /\ pc' = "done" /\ opt.update
    BY <1>10 DEF SaveWrite, saveFrame, runVars, indexVars, worldHist
  <2>2. CASE UNCHANGED <<store, certified>>
    BY <2>1, <2>2
  <2>3. CASE /\ store'.entries = new
             /\ certified' = [f \in Files |->
                  IF new[f] # None /\ new[f].hash = truth[f][new[f].mtime] THEN new[f].mtime
                  ELSE IF \/ new[f] # None /\ (new[f].mtime # certified[f] \/ opt.force)
                          \/ new[f] = None /\ f \notin listing.files \ (listing.ign \cup changed)
                          \/ \E x \in {f, "index"} : {<<"PNC", x>>, <<"ERX", x>>} \cap log # {}
                  THEN 0 ELSE certified[f]]
    <3> SUFFICES ASSUME NEW f \in Files, certified'[f] # 0
                 PROVE  /\ new[f] # None /\ new[f].mtime = certified'[f]
                        /\ new[f].hash = truth[f][certified'[f]]
      BY <2>1, <2>3
    <3>1. CASE new[f] # None /\ new[f].hash = truth[f][new[f].mtime]
      BY <2>3, <3>1
    <3>2. CASE ~(new[f] # None /\ new[f].hash = truth[f][new[f].mtime])
      <4>1. /\ certified[f] # 0 /\ (new[f] # None => new[f].mtime = certified[f] /\ ~opt.force)
            /\ new[f] = None => f \in listing.files \ (listing.ign \cup changed)
            /\ <<"PNC", f>> \notin log /\ ~Suspect
        BY <2>3, <3>2
      <4> QED
        BY <2>1, <3>2, <4>1
    <3> QED
      BY <3>1, <3>2
  <2> QED
    BY <1>10, <2>2, <2>3 DEF SaveWrite
<1>11. CASE End
  BY <1>11 DEF End, Reset
<1>12. CASE Kill
  BY <1>12 DEF Kill, Reset
<1>13. ASSUME NEW x \in Files \cup Subs, Touch(x)
      PROVE  CertInv'
  <2>1. /\ UNCHANGED <<store, pc, opt, listing, cur, new, log, certified>>
        /\ changed \subseteq changed'
        /\ \A f \in Files, t \in 1..now : truth'[f][t] = truth[f][t]
    BY <1>13 DEF Touch, runVars, indexVars
  <2>2. \A f \in Files : certified[f] # 0 => truth'[f][certified[f]] = truth[f][certified[f]]
    <3>1. \A f \in Files : certified[f] # 0 => certified[f] \in 1..now
      BY DEF IndexType, TimeInv, Time
    <3> QED
      BY <2>1, <3>1
  <2> QED
    BY <2>1, <2>2
<1>14. CASE TamperIndex
  <2>1. store'.state \in {"corrupt", "unverified"} /\ pc' = "idle"
    BY <1>14, TamperFacts DEF TamperIndex
  <2> QED
    BY <2>1
<1>15. CASE UNCHANGED vars
  <2>1. UNCHANGED <<store, pc, opt, listing, cur, new, log, certified, changed, truth>>
    BY <1>15 DEF vars, dirVars, runVars, indexVars, worldHist
  <2> QED
    BY <2>1
<1> QED
  BY <1>1, <1>2, <1>3, <1>4, <1>5, <1>6, <1>7, <1>8, <1>9, <1>10, <1>11, <1>12, <1>13, <1>14,
     <1>15, EnvStep DEF Next, Run, Idle

\* Every step keeps the reports right.  checkFix compares the content of a file that
\* nobody touched with what was certified for the same time.
LEMMA ReportNext ==
  ASSUME TypeInv, TimeInv, OutcomeInv, CertInv, ReportInv, [Next]_vars
  PROVE  ReportInv'
<1> USE Constants DEF TypeInv, ReportInv, Calculating, Reading, Finishing
<1>1. CASE Begin
  BY <1>1 DEF Begin
<1>2. CASE Load
  <2>1. /\ \A m \in log' : m \in {<<"PNC", "index">>, <<"ERX", "index">>} \/ m[1] = "ign"
        /\ pc' = IF opt.showIgnored THEN "done" ELSE "calc"
        /\ UNCHANGED opt
    BY <1>2 DEF Load
  <2> QED
    BY <2>1
<1>3. CASE SkipFile
  <2>1. /\ pc \in Calculating /\ pc' \in Calculating
        /\ \A m \in log' \ log : \E f \in Files : m = <<"ign", f>> \/ m = <<"PNC", f>>
    BY <1>3, CalcStep
  <2> QED
    BY <2>1
<1>4. CASE Stat
  <2>1. /\ pc \in Calculating /\ pc' \in Calculating
        /\ \A m \in log' \ log : \E f \in Files : m = <<"ign", f>> \/ m = <<"PNC", f>>
    BY <1>4, CalcStep
  <2> QED
    BY <2>1
<1>5. CASE Open
  <2>1. /\ pc \in Calculating /\ pc' \in Calculating
        /\ \A m \in log' \ log : \E f \in Files : m = <<"ign", f>> \/ m = <<"PNC", f>>
    BY <1>5, CalcStep
  <2> QED
    BY <2>1
<1>6. CASE Read
  <2>1. /\ pc \in Calculating /\ pc' \in Calculating
        /\ \A m \in log' \ log : \E f \in Files : m = <<"ign", f>> \/ m = <<"PNC", f>>
    BY <1>6, CalcStep
  <2> QED
    BY <2>1
<1>7. CASE Restat
  <2>1. /\ pc \in Calculating /\ pc' \in Calculating
        /\ \A m \in log' \ log : \E f \in Files : m = <<"ign", f>> \/ m = <<"PNC", f>>
    BY <1>7, CalcStep
  <2> QED
    BY <2>1
<1>8. CASE CheckFix
  <2>1. /\ UNCHANGED <<cur, opt, listing, file, broken, truth, changed, certified>>
        /\ log \subseteq log' /\ pc = "calc" /\ left = {}
        /\ pc' \in {"save", "done"} /\ (pc' = "save" => opt.update)
        /\ \A f \in Files : new'[f] = IF KeepsOld(f) THEN cur.entries[f] ELSE new[f]
        /\ \A f \in Has(new) : <<Verdict(f), f>> \in log'
        /\ \A m \in log' \ log : (\E f \in Has(new) : m = <<Verdict(f), f>>) \/ m[1] = "del"
    BY <1>8 DEF CheckFix, dirVars, worldHist
  <2>2. ASSUME NEW f \in Files, <<"new", f>> \in log'
        PROVE  cur'.entries[f] = None
    BY <2>1, <2>2 DEF Verdict
  <2>3. ASSUME NEW f \in listing.files \ (listing.ign \cup changed \cup broken),
               ~opt.skipCheck, Wrong(f),
               \/ certified[f] = file[f].mtime
               \/ /\ pc' = "save" /\ new'[f] # None
                  /\ new'[f].mtime = file[f].mtime /\ new'[f].hash = truth[f][file[f].mtime]
        PROVE  <<"DMG", f>> \in log' \/ Suspect'
    <3>1. f \in Files /\ work.name = None
      BY <2>1, <2>3 DEF RunType, NoWork
    <3>2. new[f] = Outcome(f)
      BY <2>1, <2>3, <3>1 DEF OutcomeInv
    <3>3. file[f] # None /\ file[f].mtime \in Nat /\ file[f].mtime # 0 /\ file[f].data # NoHash
      BY <2>3, <3>1, ContentFacts DEF Wrong, DirType, File, Time
    <3>4. [mtime |-> file[f].mtime, algo |-> AlgoOf(f), hash |-> file[f].data] \in Entry
      <4>1. file[f].mtime \in Time \cup {0} /\ file[f].data \in Seq(Block)
        BY <3>1, <3>3, ContentFacts DEF DirType, File
      <4> QED
        BY <2>1, <3>1, <4>1, AlgoType, EntryFacts
    <3>5. CASE certified[f] = file[f].mtime
      <4>1. Suspect \/ Right(cur.entries[f], f)
        BY <2>1, <3>1, <3>3, <3>5 DEF CertInv
      <4>2. CASE Right(cur.entries[f], f)
        <5>1. new[f] = [mtime |-> file[f].mtime, algo |-> AlgoOf(f), hash |-> file[f].data]
          BY <2>3, <3>1, <3>2, <4>2 DEF Outcome, Right
        <5>2. f \in Has(new) /\ Verdict(f) = "DMG"
          BY <2>3, <3>1, <3>4, <3>5, <4>2, <5>1 DEF Has, Verdict, Right, Wrong
        <5> QED
          BY <2>1, <5>2
      <4>3. CASE Suspect
        BY <2>1, <4>3 DEF Suspect
      <4> QED
        BY <4>1, <4>2, <4>3
    <3>6. CASE /\ pc' = "save" /\ new'[f] # None
               /\ new'[f].mtime = file[f].mtime /\ new'[f].hash = truth[f][file[f].mtime]
      <4>1. new[f] = [mtime |-> file[f].mtime, algo |-> AlgoOf(f), hash |-> file[f].data]
        BY <2>1, <2>3, <3>1, <3>2, <3>6 DEF Outcome
      <4>2. KeepsOld(f)
        BY <2>1, <2>3, <3>1, <3>6, <4>1 DEF Wrong
      <4>3. f \in Has(new) /\ Verdict(f) = "DMG"
        BY <3>1, <3>4, <4>1, <4>2 DEF Has, KeepsOld
      <4> QED
        BY <2>1, <4>3
    <3> QED
      BY <2>3, <3>5, <3>6
  <2>4. \A f : Wrong(f)' = Wrong(f)
    BY <2>1 DEF Wrong
  <2> QED
    BY <2>1, <2>2, <2>3, <2>4
<1>9. CASE SaveOpen
  <2>1. /\ UNCHANGED <<cur, new, opt, listing, file, broken, truth, changed, certified>>
        /\ pc = "save" /\ pc' \in {"write", "done"} /\ log \subseteq log'
        /\ \A m \in log' \ log : m = <<"PNC", "index">>
    BY <1>9 DEF SaveOpen, saveFrame, dirVars, runVars, indexVars, worldHist
  <2>2. (\A f : Wrong(f)' = Wrong(f)) /\ (Suspect => Suspect')
    BY <2>1 DEF Wrong, Suspect
  <2> QED
    BY <2>1, <2>2
<1>10. CASE SaveWrite
  <2>1. /\ UNCHANGED <<cur, new, opt, listing, file, broken, truth, changed>>
        /\ pc = "write" /\ pc' = "done" /\ log \subseteq log'
        /\ \A m \in log' \ log : m = <<"PNC", "index">> \/ m = <<"xup", "index">>
    BY <1>10 DEF SaveWrite, saveFrame, dirVars, runVars, indexVars, worldHist
  <2>2. (\A f : Wrong(f)' = Wrong(f)) /\ (Suspect => Suspect')
    BY <2>1 DEF Wrong, Suspect
  <2>3. \A f \in Files :
          \/ certified'[f] \in {0, certified[f]}
          \/ new[f] # None /\ new[f].hash = truth[f][new[f].mtime] /\ certified'[f] = new[f].mtime
    BY <1>10 DEF SaveWrite
  <2>4. \A f \in Files : file[f] # None => file[f].mtime # 0
    BY DEF DirType, File, Time
  <2> QED
    BY <2>1, <2>2, <2>3, <2>4 DEF Wrong, RunType
<1>11. CASE End
  BY <1>11 DEF End, Reset
<1>12. CASE Kill
  BY <1>12 DEF Kill, Reset
<1>13. ASSUME NEW x \in Files \cup Subs, Touch(x)
      PROVE  ReportInv'
  <2>1. /\ UNCHANGED <<pc, opt, listing, cur, new, log, certified>> /\ changed' = changed \cup {x}
        /\ \A f \in Files \ changed' : file'[f] = file[f] /\ (f \in broken' <=> f \in broken)
        /\ \A f \in Files, t \in 1..now : truth'[f][t] = truth[f][t]
    BY <1>13 DEF Touch, runVars, indexVars
  <2>2. \A f \in Files \ changed' : file[f] # None =>
          truth'[f][file[f].mtime] = truth[f][file[f].mtime]
    <3>1. \A f \in Files : file[f] # None => file[f].mtime \in 1..now
      BY DEF DirType, File, TimeInv, Time
    <3> QED
      BY <2>1, <3>1
  <2>3. \A f \in Files \ changed' : Wrong(f)' = Wrong(f)
    BY <2>1, <2>2 DEF Wrong
  <2>4. Suspect' = Suspect /\ listing.files \subseteq Files
    BY <2>1 DEF Suspect, RunType
  <2>5. ASSUME NEW f \in listing'.files \ (listing'.ign \cup changed' \cup broken'),
               pc' \in Finishing, ~opt'.showIgnored, ~opt'.skipCheck, Wrong(f)',
               \/ certified'[f] = file'[f].mtime
               \/ /\ pc' \in {"save", "write"} /\ new'[f] # None
                  /\ new'[f].mtime = file'[f].mtime /\ new'[f].hash = truth'[f][file'[f].mtime]
        PROVE  <<"DMG", f>> \in log' \/ Suspect'
    <3>1. f \in Files \ changed' /\ f \in listing.files \ (listing.ign \cup changed \cup broken)
      BY <2>1, <2>4, <2>5
    <3>2. file'[f] = file[f] /\ Wrong(f) /\ truth'[f][file[f].mtime] = truth[f][file[f].mtime]
      BY <2>1, <2>2, <2>3, <2>5, <3>1 DEF Wrong
    <3> QED
      BY <2>1, <2>4, <2>5, <3>1, <3>2
  <2> QED
    BY <2>1, <2>5
<1>14. CASE TamperIndex
  <2>1. pc' = "idle" /\ pc = "idle" /\ UNCHANGED log
    BY <1>14 DEF TamperIndex
  <2> QED
    BY <2>1
<1>15. CASE UNCHANGED vars
  <2>1. UNCHANGED <<pc, opt, listing, cur, new, log, certified, changed, truth, file, broken>>
    BY <1>15 DEF vars, dirVars, runVars, indexVars, worldHist
  <2>2. (\A f : Wrong(f)' = Wrong(f)) /\ Suspect' = Suspect
    BY <2>1 DEF Wrong, Suspect
  <2> QED
    BY <2>1, <2>2
<1> QED
  BY <1>1, <1>2, <1>3, <1>4, <1>5, <1>6, <1>7, <1>8, <1>9, <1>10, <1>11, <1>12, <1>13, <1>14,
     <1>15, EnvStep DEF Next, Run, Idle

-----------------------------------------------------------------------------
(* Types, and the damage that is reported                                  *)

\* The directory starts with files that have the first time, the index empty or with
\* their hashes.
LEMMA InitFacts ==
  ASSUME Init
  PROVE  /\ TypeInv /\ TimeInv
         /\ \A f \in Files : file[f] # None => file[f].data = truth[f][file[f].mtime]
         /\ \A f \in Files : store.entries[f] # None =>
              /\ store.entries[f].mtime = 1 /\ certified[f] = 1
              /\ store.entries[f].hash = truth[f][1]
         /\ \A f \in Files : certified[f] # 0 => store.entries[f] # None
         /\ store.state \in {"none", "legacy"} /\ pc = "idle" /\ log = {} /\ new = NoEntries
         /\ cur.entries = NoEntries /\ quiet = None /\ opt = None
<1> USE Constants DEF Init
<1>1. PICK c \in [Files -> Contents], legacy \in BOOLEAN :
        /\ file = [f \in Files |-> [data |-> c[f], mtime |-> 1]]
        /\ truth = [f \in Files |-> [t \in Time |-> IF t = 1 THEN c[f] ELSE None]]
        /\ store = IF legacy
             THEN [state |-> "legacy", dirs |-> {}, entries |->
                    [f \in Files |-> [mtime |-> 1, algo |-> "md5", hash |-> c[f]]]]
             ELSE NoIndex
        /\ certified = [f \in Files |-> IF legacy THEN 1 ELSE 0]
  BY Zenon
<1>2. \A f \in Files : /\ [data |-> c[f], mtime |-> 1] \in File /\ c[f] \in Contents
                      /\ c[f] # NoHash /\ [mtime |-> 1, algo |-> "md5", hash |-> c[f]] \in Entry
  BY ContentFacts, EntryFacts DEF File
<1>3. DirType
  BY <1>1, <1>2 DEF DirType
<1>4. IndexType
  <2>1. [f \in Files |-> [mtime |-> 1, algo |-> "md5", hash |-> c[f]]] \in Entries
    BY <1>2 DEF Entries
  <2>2. store \in Stores
    BY <1>1, <2>1, EntryFacts DEF Stores
  <2>3. cur = [entries |-> NoEntries, dirs |-> {}] /\ new = NoEntries /\ newDirList = {}
    OBVIOUS
  <2>4. certified \in [Files -> Time \cup {0}]
    BY <1>1
  <2> QED
    BY <2>2, <2>3, <2>4, EntryFacts DEF IndexType
<1>5. RunType
  BY DEF RunType, Reading, NoList
<1>6. SpentType
  BY DEF SpentType
<1>7. /\ \A f \in Files : file[f] = [data |-> c[f], mtime |-> 1] /\ truth[f][1] = c[f]
      /\ \A f \in Files : store.entries[f] =
           IF legacy THEN [mtime |-> 1, algo |-> "md5", hash |-> c[f]] ELSE None
      /\ \A f \in Files : certified[f] = IF legacy THEN 1 ELSE 0
  BY <1>1 DEF NoIndex, NoEntries
<1>8. ASSUME NEW f \in Files
      PROVE  /\ store.entries[f] # None =>
                  /\ store.entries[f].mtime = 1 /\ certified[f] = 1
                  /\ store.entries[f].hash = truth[f][1] /\ store.entries[f].hash # NoHash
             /\ certified[f] # 0 => store.entries[f] # None
  <2>1. CASE legacy
    <3> DEFINE e == [mtime |-> 1, algo |-> "md5", hash |-> c[f]]
    <3>1. store.entries[f] = e /\ e # None /\ certified[f] = 1
      BY <1>2, <1>7, <2>1
    <3>2. e.mtime = 1 /\ e.hash = truth[f][1] /\ e.hash # NoHash
      BY <1>2, <1>7
    <3> HIDE DEF e
    <3> QED
      BY <3>1, <3>2
  <2>2. CASE ~legacy
    BY <1>7, <2>2
  <2> QED
    BY <2>1, <2>2
<1>9. TimeInv
  BY <1>7, <1>8 DEF TimeInv, Known, NoEntries, Reading
<1> QED
  BY <1>1, <1>3, <1>4, <1>5, <1>6, <1>7, <1>8, <1>9 DEF TypeInv, NoIndex

\* The part of the invariant that the reports rest on.
Reports == TypeInv /\ TimeInv /\ OutcomeInv /\ CertInv /\ ReportInv

LEMMA ReportsInit ==
  ASSUME Init
  PROVE  Reports
<1>1. OutcomeInv /\ CertInv /\ ReportInv
  BY InitFacts DEF OutcomeInv, CertInv, ReportInv, Right, Calculating, Reading, Finishing
<1> QED
  BY <1>1, InitFacts DEF Reports

LEMMA ReportsNext ==
  ASSUME Reports, [Next]_vars
  PROVE  Reports'
<1>1. TypeInv'
  BY IndexTypeNext, WorldNext, RunTypeNext DEF Reports, TypeInv
<1> QED
  BY <1>1, TimeNext, OutcomeNext, CertNext, ReportNext DEF Reports

LEMMA ReportsInvariant == Spec => []Reports
<1>1. Init => Reports
  BY ReportsInit
<1>2. Reports /\ [Next]_vars => Reports'
  BY ReportsNext
<1> QED
  BY <1>1, <1>2, PTL DEF Spec

\* The flag of a modified index is a Boolean.
LEMMA FlagInvariant == Spec => [](modified \in BOOLEAN)
<1>1. Init => modified \in BOOLEAN
  BY DEF Init
<1>2. modified \in BOOLEAN /\ [Next]_vars => (modified \in BOOLEAN)'
  <2> SUFFICES ASSUME modified \in BOOLEAN, [Next]_vars
               PROVE  modified' \in BOOLEAN
    OBVIOUS
  <2>1. CASE Load \/ CheckFix
    <3> DEFINE parsed == store.state \in {"unverified", "legacy"}
    <3> DEFINE fixed(dirs, gone) == modified \/ NeedsSave(gone, dirs)
    <3>1. modified' = parsed \/ \E dirs, gone : modified' = fixed(dirs, gone)
      BY <2>1, Zenon DEF Load, CheckFix
    <3>2. parsed \in BOOLEAN /\ \A dirs, gone : fixed(dirs, gone) \in BOOLEAN
      OBVIOUS
    <3> HIDE DEF parsed, fixed
    <3> QED
      BY <3>1, <3>2, Zenon
  <2>2. CASE Begin \/ SkipFile \/ Stat \/ Open \/ Read \/ Restat
    BY <2>2 DEF Begin, SkipFile, Stat, Open, Read, Restat, calcFrame
  <2>3. CASE SaveOpen \/ SaveWrite \/ End \/ Kill
    BY <2>3 DEF SaveOpen, SaveWrite, saveFrame, End, Kill, Reset, runVars, indexVars
  <2>4. CASE Environment
    BY <2>4 DEF Environment, WriteFile, RestoreFile, Rot, Delete, Break, MakeDir, EditIgnore,
                TamperIndex, idleFrame, runVars, indexVars
  <2>5. CASE UNCHANGED vars
    BY <2>5 DEF vars, runVars, indexVars
  <2> QED
    BY <2>1, <2>2, <2>3, <2>4, <2>5 DEF Next, Run, Idle
<1> QED
  BY <1>1, <1>2, PTL DEF Spec

\* Every run keeps its variables within their types, and calcFile is at work on a file
\* exactly between its system calls, of which Read has the file open.
THEOREM TypeCorrect == Spec => []TypeOK
<1>1. Reports /\ modified \in BOOLEAN => TypeOK
  <2> SUFFICES ASSUME Reports, modified \in BOOLEAN
               PROVE  TypeOK
    OBVIOUS
  <2> USE DEF Reports, TypeInv
  <2>1. /\ file \in [Files -> File \cup {None}]
        /\ broken \subseteq Files /\ ignored \subseteq Files \cup Subs /\ subdirs \subseteq Subs
    BY DEF DirType
  <2>2. /\ store.state \in {"none", "ok", "legacy", "unverified", "corrupt"}
        /\ \A entries \in {store.entries, cur.entries, new} : entries \in Entries
        /\ store.dirs \cup cur.dirs \cup newDirList \subseteq Subs
    BY DEF IndexType, Stores
  <2>3. \A entries \in Entries :
          DOMAIN entries = Files /\ \A f \in Has(entries) : entries[f] \in Entry
    BY DEF Entries, Has
  <2>4. /\ pc \in {"idle", "load", "calc", "open", "read", "restat", "save", "write", "done"}
        /\ opt \in Options \cup {None} /\ left \subseteq Files
        /\ pc = "read" => file[work.name] # None
    BY DEF RunType, Calculating, Finishing, Reading
  <2>5. pc \in {"open", "read", "restat"} <=> work # NoWork
    BY Constants DEF RunType, Reading, Works, NoWork
  <2> QED
    BY <2>1, <2>2, <2>3, <2>4, <2>5 DEF TypeOK
<1> QED
  BY <1>1, ReportsInvariant, FlagInvariant, PTL

\* A run that reads a damaged file reports the damage (or that the index is damaged),
\* for any number of runs, of files and of rewrites around it: an update never certifies
\* the content it calls damaged.
THEOREM DamageIsReported == Spec => []DamageReported
<1>1. Reports => DamageReported
  <2> SUFFICES ASSUME Reports, pc = "done", ~opt.showIgnored, ~opt.skipCheck,
                      NEW f \in listing.files \ (listing.ign \cup changed),
                      Damaged(f), f \notin broken
               PROVE  {<<"DMG", f>>, <<"PNC", "index">>, <<"ERX", "index">>} \cap log # {}
    BY DEF DamageReported
  <2>1. <<"DMG", f>> \in log \/ Suspect
    BY DEF Reports, ReportInv, Finishing, Damaged, Wrong
  <2> QED
    BY <2>1 DEF Suspect
<1> QED
  BY <1>1, ReportsInvariant, PTL

\* A file that has been certified is never taken for a new one, unless the same run
\* reports the index: no crash, error or damage of the index file makes chkbit forget
\* silently.
THEOREM NothingForgotten == Spec => []NoSilentAmnesia
<1>1. Reports => NoSilentAmnesia
  BY DEF Reports, CertInv, ReportInv, Finishing, NoSilentAmnesia, Suspect, Right
<1> QED
  BY <1>1, ReportsInvariant, PTL

-----------------------------------------------------------------------------
(* An update after an update                                               *)

LEMMA SettledSame ==
  ASSUME UNCHANGED dirVars
  PROVE  /\ UNCHANGED <<opt, new, newDirList>> => SettledNew' = SettledNew
         /\ UNCHANGED <<opt, store>> => SettledOpt' = SettledOpt
         /\ UNCHANGED <<quiet, store>> => SettledQuiet' = SettledQuiet
         /\ UNCHANGED opt => Tracks(opt)' = Tracks(opt)
         /\ UNCHANGED quiet => Tracks(quiet)' = Tracks(quiet)
BY DEF dirVars, SettledNew, SettledOpt, SettledQuiet, Settled, Tracks

\* checkFix keeps the times of the files that are there, and of those that are not just
\* what it is asked to keep.
LEMMA FixSettles ==
  ASSUME TypeInv, TimeInv, OutcomeInv, QuietInv, CheckFix, changed = {}, Tracks(opt), opt.update
  PROVE  SettledNew'
<1> USE Constants DEF TypeInv, Calculating, Reading
<1>1. /\ UNCHANGED <<file, broken, ignored, subdirs, opt, cur>> /\ pc = "calc" /\ left = {}
      /\ \A f \in Files : new'[f] = IF KeepsOld(f) THEN cur.entries[f] ELSE new[f]
      /\ newDirList' = newDirList \cup (IF opt.keepMissing THEN cur.dirs \ newDirList ELSE {})
  BY DEF CheckFix, dirVars
<1>2. /\ listing.ign = ignored /\ newDirList = subdirs \ ignored /\ work.name = None
      /\ \A f \in Files : f \in listing.files <=> file[f] # None
  BY <1>1 DEF QuietInv, OutcomeInv, RunType, NoWork
<1>3. \A f \in Files : new[f] = Outcome(f)
  BY <1>1, <1>2 DEF OutcomeInv
<1>4. ASSUME NEW f \in Files, file[f] # None, f \notin ignored
      PROVE  \/ new'[f] # None /\ opt.skipCheck /\ new'[f].mtime = file[f].mtime
             \/ f \in broken /\ (new'[f] = None \/ opt.keepMissing)
             \/ /\ f \notin broken /\ new'[f] # None /\ new'[f].mtime = file[f].mtime
                /\ opt.force => new'[f].hash = file[f].data
  <2>1. CASE cur.entries[f] # None /\ opt.skipCheck /\ Unmodified(f)
    <3>1. new[f] = cur.entries[f]
      BY <1>2, <1>3, <1>4, <2>1 DEF Outcome
    <3> QED
      BY <1>1, <2>1, <3>1 DEF Unmodified
  <2>2. CASE ~(cur.entries[f] # None /\ opt.skipCheck /\ Unmodified(f)) /\ f \in broken
    <3>1. new[f] = None
      BY <1>2, <1>3, <1>4, <2>2 DEF Outcome
    <3> QED
      BY <1>1, <2>2, <3>1 DEF KeepsOld
  <2>3. CASE ~(cur.entries[f] # None /\ opt.skipCheck /\ Unmodified(f)) /\ f \notin broken
    <3> DEFINE e == [mtime |-> file[f].mtime, algo |-> AlgoOf(f), hash |-> file[f].data]
    <3>1. new[f] = e
      BY <1>2, <1>3, <1>4, <2>3 DEF Outcome
    <3>2. e \in Entry
      BY <1>1, <1>4, AlgoType, EntryFacts, ContentFacts DEF DirType, File
    <3>3. e.mtime = file[f].mtime /\ e.hash = file[f].data
      OBVIOUS
    <3> HIDE DEF e
    <3> QED
      BY <1>1, <2>3, <3>1, <3>2, <3>3 DEF KeepsOld, Verdict
  <2> QED
    BY <2>1, <2>2, <2>3
<1>5. ASSUME NEW f \in Files, file[f] = None \/ f \in ignored
      PROVE  new'[f] = None \/ opt.keepMissing
  <2>1. new[f] = None
    BY <1>2, <1>3, <1>5 DEF Outcome
  <2> QED
    BY <1>1, <2>1 DEF KeepsOld
<1>6. \A f \in Files : LET e == new'[f] IN
        IF file'[f] # None /\ f \notin ignored'
        THEN \/ e # None /\ opt'.skipCheck /\ e.mtime = file'[f].mtime
             \/ f \in broken' /\ (e = None \/ opt'.keepMissing)
             \/ f \notin broken' /\ e # None /\ e.mtime = file'[f].mtime
                  /\ (opt'.force => e.hash = file'[f].data)
        ELSE e = None \/ opt'.keepMissing
  BY <1>1, <1>4, <1>5
<1>7. LET dirs == IF opt'.trackDirs THEN newDirList' ELSE {} IN
        IF opt'.keepMissing THEN subdirs' \ ignored' \subseteq dirs ELSE dirs = subdirs' \ ignored'
  BY <1>1, <1>2 DEF Tracks
<1> QED
  BY <1>6, <1>7 DEF SettledNew, Settled

\* What checkFix finds to save for f, and the same in terms of the directory.
Differs(f) ==
  /\ f \in Has(new)
  /\ \/ Verdict(f) \in {"new", "upd", "old"}
     \/ Verdict(f) = "ok" /\ cur.entries[f].mtime # new[f].mtime
     \/ Verdict(f) = "DMG" /\ opt.force
SettledFile(f) == LET e == cur.entries[f] IN
  IF file[f] # None /\ f \notin ignored
  THEN \/ e # None /\ opt.skipCheck /\ e.mtime = file[f].mtime
       \/ f \in broken /\ (e = None \/ opt.keepMissing)
       \/ f \notin broken /\ e # None /\ e.mtime = file[f].mtime
            /\ (opt.force => e.hash = file[f].data)
  ELSE e = None \/ opt.keepMissing

LEMMA FileSettled ==
  ASSUME TypeInv, TimeInv, opt \in Options, pc # "idle", opt.update, NEW f \in Files,
         f \in listing.files <=> file[f] # None, listing.ign = ignored, new[f] = Outcome(f)
  PROVE  SettledFile(f) <=>
           ~Differs(f) /\ (opt.keepMissing \/ cur.entries[f] = None \/ new[f] # None)
<1> USE Constants DEF TypeInv
<1>1. cur.entries[f] # None => cur.entries[f] \in Entry /\ cur.entries[f].hash # NoHash
  BY DEF IndexType, Entries, TimeInv, Known
<1>2. CASE file[f] = None \/ f \in ignored
  <2>1. new[f] = None
    BY <1>2 DEF Outcome
  <2> QED
    BY <1>2, <2>1 DEF SettledFile, Differs, Has
<1>3. CASE /\ file[f] # None /\ f \notin ignored
           /\ cur.entries[f] # None /\ opt.skipCheck /\ Unmodified(f)
  <2>1. new[f] = cur.entries[f]
    BY <1>3 DEF Outcome
  <2>2. Verdict(f) = "ok"
    BY <1>1, <1>3, <2>1 DEF Verdict
  <2> QED
    BY <1>3, <2>1, <2>2 DEF SettledFile, Differs, Unmodified
<1>4. CASE /\ file[f] # None /\ f \notin ignored /\ f \in broken
           /\ ~(cur.entries[f] # None /\ opt.skipCheck /\ Unmodified(f))
  <2>1. new[f] = None
    BY <1>4 DEF Outcome
  <2> QED
    BY <1>4, <2>1 DEF SettledFile, Differs, Has, Unmodified
<1>5. CASE /\ file[f] # None /\ f \notin ignored /\ f \notin broken
           /\ ~(cur.entries[f] # None /\ opt.skipCheck /\ Unmodified(f))
  <2> DEFINE e == [mtime |-> file[f].mtime, algo |-> AlgoOf(f), hash |-> file[f].data]
  <2>1. new[f] = e
    BY <1>5 DEF Outcome
  <2>2. file[f].data \in Contents /\ file[f].mtime \in Time
    BY <1>5 DEF DirType, File
  <2>3. e \in Entry /\ file[f].data # NoHash
    BY <2>2, AlgoType, EntryFacts, ContentFacts
  <2>4. /\ e.mtime = file[f].mtime /\ e.hash = file[f].data
        /\ cur.entries[f] # None => e.algo = cur.entries[f].algo
    BY DEF AlgoOf
  <2> HIDE DEF e
  <2>5. CASE cur.entries[f] = None
    BY <1>5, <2>1, <2>3, <2>5 DEF SettledFile, Differs, Has, Verdict
  <2>6. CASE cur.entries[f] # None /\ cur.entries[f].hash = file[f].data
    <3>1. Verdict(f) = "ok"
      BY <2>1, <2>3, <2>4, <2>6 DEF Verdict
    <3> QED
      BY <1>5, <2>1, <2>3, <2>4, <2>6, <3>1 DEF SettledFile, Differs, Has, Unmodified
  <2>7. CASE cur.entries[f] # None /\ cur.entries[f].hash # file[f].data
    <3>1. /\ Verdict(f) \in {"DMG", "upd", "old"}
          /\ Verdict(f) = "DMG" <=> cur.entries[f].mtime = file[f].mtime
      BY <2>1, <2>3, <2>4, <2>7 DEF Verdict
    <3> QED
      BY <1>5, <2>1, <2>3, <2>4, <2>7, <3>1 DEF SettledFile, Differs, Has, Unmodified
  <2> QED
    BY <2>5, <2>6, <2>7
<1> QED
  BY <1>2, <1>3, <1>4, <1>5

\* Comparing the numbers of directories is enough: when none is dropped, or none is
\* gone, one list contains the other.
LEMMA DirsSettled ==
  ASSUME NEW have, NEW old, have \subseteq Subs, old \subseteq Subs
  PROVE  /\ have \subseteq old <=> Cardinality(have \cup (old \ have)) = Cardinality(old)
         /\ old = have <=> old \ have = {} /\ Cardinality(have) = Cardinality(old)
<1>1. IsFiniteSet(have \cup old) /\ IsFiniteSet(have) /\ IsFiniteSet(old)
  BY IndexAssumption, FS_Subset
<1>2. Cardinality(have \cup old) = Cardinality(old) => have \cup old = old
  BY <1>1, FS_Subset
<1>3. have \cup (old \ have) = have \cup old /\ (have \subseteq old <=> have \cup old = old)
  OBVIOUS
<1>4. old \subseteq have /\ Cardinality(have) = Cardinality(old) => have = old
  BY <1>1, FS_Subset
<1> QED
  BY <1>2, <1>3, <1>4

\* checkFix finds nothing to save just when the index is settled already.
LEMMA SettledFix ==
  ASSUME TypeInv, TimeInv, OutcomeInv, QuietInv, CheckFix, changed = {}, Tracks(opt), opt.update
  PROVE  /\ ~modified' => SettledOpt' \/ <<"PNC", "index">> \in log'
         /\ SettledOpt => ~modified'
<1> USE Constants DEF TypeInv, Calculating, Reading
<1> DEFINE gone == Has(cur.entries) \ Has(new)
           goneDirs == cur.dirs \ newDirList
           sameDirs == IF opt.keepMissing THEN subdirs \ ignored \subseteq cur.dirs
                       ELSE cur.dirs = subdirs \ ignored
           dirs == newDirList \cup (IF opt.keepMissing THEN goneDirs ELSE {})
<1>1. /\ UNCHANGED <<dirVars, opt, store>> /\ pc = "calc" /\ left = {} /\ log \subseteq log'
      /\ modified' = (modified \/ NeedsSave(gone \cup goneDirs, dirs))
  BY DEF CheckFix, dirVars
<1>2. /\ listing.ign = ignored /\ newDirList = subdirs \ ignored /\ work.name = None
      /\ \A f \in Files : f \in listing.files <=> file[f] # None
      /\ opt \in Options /\ ~opt.showIgnored /\ opt.keepMissing \in BOOLEAN
      /\ cur.entries = store.entries /\ cur.dirs = store.dirs
      /\ modified = (store.state \in {"unverified", "legacy"})
      /\ store.state = "corrupt" => <<"PNC", "index">> \in log
  BY <1>1 DEF QuietInv, OutcomeInv, RunType, NoWork, Option
<1>3. \A f \in Files : new[f] = Outcome(f)
  BY <1>1, <1>2 DEF OutcomeInv
<1>4. \A f \in Files : SettledFile(f) <=> ~Differs(f) /\ (opt.keepMissing \/ f \notin gone)
  <2>1. \A f \in Files : f \in gone <=> cur.entries[f] # None /\ new[f] = None
    BY DEF Has
  <2> HIDE DEF gone
  <2> QED
    BY <1>1, <1>2, <1>3, <2>1, FileSettled
<1>5. sameDirs <=> (opt.keepMissing \/ goneDirs = {}) /\ Cardinality(dirs) = Cardinality(cur.dirs)
  <2>1. newDirList \subseteq Subs /\ cur.dirs \subseteq Subs /\ opt.keepMissing \in BOOLEAN
    BY <1>2 DEF IndexType
  <2>2. /\ newDirList \subseteq cur.dirs
             <=> Cardinality(newDirList \cup goneDirs) = Cardinality(cur.dirs)
        /\ cur.dirs = newDirList
             <=> goneDirs = {} /\ Cardinality(newDirList) = Cardinality(cur.dirs)
    BY <2>1, DirsSettled
  <2>3. CASE opt.keepMissing
    <3>1. dirs = newDirList \cup goneDirs
      BY <2>3
    <3> QED
      BY <1>2, <2>2, <2>3, <3>1, Zenon
  <2>4. CASE ~opt.keepMissing
    <3>1. dirs = newDirList
      BY <2>4
    <3> QED
      BY <1>2, <2>2, <2>4, <3>1, Zenon
  <2> QED
    BY <2>3, <2>4
<1>6. NeedsSave(gone \cup goneDirs, dirs) <=>
        \/ \E f \in Files : Differs(f)
        \/ ~opt.keepMissing /\ gone \cup goneDirs # {}
        \/ Cardinality(dirs) # Cardinality(cur.dirs)
  BY DEF NeedsSave, Differs, Has
<1>7. SettledOpt <=>
        /\ store.state \in {"none", "ok"} /\ \A f \in Files : SettledFile(f)
        /\ sameDirs
  BY <1>2 DEF SettledOpt, Settled, SettledFile
<1>8. gone \subseteq Files /\ store.state \in {"none", "ok", "legacy", "unverified", "corrupt"}
  BY DEF Has, IndexType, Stores
<1> HIDE DEF gone, goneDirs, dirs, sameDirs
<1>9. NeedsSave(gone \cup goneDirs, dirs) <=>
        ~((\A f \in Files : SettledFile(f)) /\ sameDirs)
  BY <1>4, <1>5, <1>6, <1>8
<1>10. SettledOpt' = SettledOpt
  BY <1>1, SettledSame
<1> QED
  BY <1>1, <1>2, <1>7, <1>8, <1>9, <1>10

\* Every step keeps the index settled after an update that nothing disturbed.
LEMMA QuietNext ==
  ASSUME TypeInv, TimeInv, OutcomeInv, CertInv, QuietInv, [Next]_vars
  PROVE  QuietInv'
<1> USE Constants DEF TypeInv, QuietInv, RunType, Calculating, Reading, Finishing
<1>1. CASE Begin
  <2>1. /\ UNCHANGED <<dirVars, store, log, quiet>> /\ pc = "idle" /\ pc' = "load" /\ changed' = {}
        /\ listing'.ign = ignored /\ listing'.dirs = subdirs \ ignored
        /\ newDirList' = listing'.dirs
    BY <1>1 DEF Begin
  <2> QED
    BY <2>1, SettledSame DEF dirVars
<1>2. CASE Load
  <2>1. /\ UNCHANGED <<dirVars, store, opt, listing, newDirList, changed, quiet>>
        /\ pc = "load" /\ pc' = IF opt.showIgnored THEN "done" ELSE "calc"
        /\ cur' = [entries |-> store.entries, dirs |-> store.dirs]
        /\ modified' = (store.state \in {"unverified", "legacy"})
        /\ store.state = "corrupt" => <<"PNC", "index">> \in log'
        /\ <<"xup", "index">> \notin log'
    BY <1>2 DEF Load, worldHist
  <2>2. opt.showIgnored => SettledOpt
    BY DEF SettledOpt, Settled
  <2> QED
    BY <2>1, <2>2, SettledSame DEF dirVars
<1>3. CASE SkipFile
  <2>1. /\ UNCHANGED <<dirVars, store, cur, opt, listing, newDirList, modified, changed, quiet>>
        /\ log \subseteq log' /\ pc \in Calculating /\ pc' \in Calculating
        /\ \A m \in log' \ log : \E f \in Files : m = <<"ign", f>> \/ m = <<"PNC", f>>
    BY <1>3, CalcStep DEF worldHist
  <2>2. <<"xup", "index">> \notin log'
    BY <2>1
  <2> QED
    BY <2>1, <2>2, SettledSame DEF dirVars
<1>4. CASE Stat
  <2>1. /\ UNCHANGED <<dirVars, store, cur, opt, listing, newDirList, modified, changed, quiet>>
        /\ log \subseteq log' /\ pc \in Calculating /\ pc' \in Calculating
        /\ \A m \in log' \ log : \E f \in Files : m = <<"ign", f>> \/ m = <<"PNC", f>>
    BY <1>4, CalcStep DEF worldHist
  <2>2. <<"xup", "index">> \notin log'
    BY <2>1
  <2> QED
    BY <2>1, <2>2, SettledSame DEF dirVars
<1>5. CASE Open
  <2>1. /\ UNCHANGED <<dirVars, store, cur, opt, listing, newDirList, modified, changed, quiet>>
        /\ log \subseteq log' /\ pc \in Calculating /\ pc' \in Calculating
        /\ \A m \in log' \ log : \E f \in Files : m = <<"ign", f>> \/ m = <<"PNC", f>>
    BY <1>5, CalcStep DEF worldHist
  <2>2. <<"xup", "index">> \notin log'
    BY <2>1
  <2> QED
    BY <2>1, <2>2, SettledSame DEF dirVars
<1>6. CASE Read
  <2>1. /\ UNCHANGED <<dirVars, store, cur, opt, listing, newDirList, modified, changed, quiet>>
        /\ log \subseteq log' /\ pc \in Calculating /\ pc' \in Calculating
        /\ \A m \in log' \ log : \E f \in Files : m = <<"ign", f>> \/ m = <<"PNC", f>>
    BY <1>6, CalcStep DEF worldHist
  <2>2. <<"xup", "index">> \notin log'
    BY <2>1
  <2> QED
    BY <2>1, <2>2, SettledSame DEF dirVars
<1>7. CASE Restat
  <2>1. /\ UNCHANGED <<dirVars, store, cur, opt, listing, newDirList, modified, changed, quiet>>
        /\ log \subseteq log' /\ pc \in Calculating /\ pc' \in Calculating
        /\ \A m \in log' \ log : \E f \in Files : m = <<"ign", f>> \/ m = <<"PNC", f>>
    BY <1>7, CalcStep DEF worldHist
  <2>2. <<"xup", "index">> \notin log'
    BY <2>1
  <2> QED
    BY <2>1, <2>2, SettledSame DEF dirVars
<1>8. CASE CheckFix
  <2>1. /\ UNCHANGED <<dirVars, store, opt, listing, changed, quiet>> /\ log \subseteq log'
        /\ pc = "calc" /\ pc' \in {"save", "done"} /\ (pc' = "save" <=> opt.update /\ modified')
    BY <1>8 DEF CheckFix, worldHist
  <2>11. \A m \in log' \ log : m[1] = "del" \/ \E f \in Files : m = <<Verdict(f), f>>
    BY <1>8 DEF CheckFix, Has
  <2>2. \A f : Verdict(f) # "xup"
    BY DEF Verdict
  <2>3. <<"xup", "index">> \notin log' /\ ~opt.showIgnored
    <3>1. /\ <<"xup", "index">>[1] = "xup"
          /\ \A f : <<"xup", "index">> = <<Verdict(f), f>> => Verdict(f) = "xup"
      OBVIOUS
    <3> QED
      BY <2>1, <2>11, <2>2, <3>1 DEF OutcomeInv
  <2>4. changed = {} /\ Tracks(opt) /\ opt.update =>
          /\ SettledNew'
          /\ ~modified' => SettledOpt' \/ <<"PNC", "index">> \in log'
          /\ SettledOpt => ~modified'
    BY <1>8, FixSettles, SettledFix DEF TypeInv
  <2>5. quiet # None /\ quiet = opt => SettledOpt = SettledQuiet /\ opt.update /\ changed = {}
    BY DEF SettledOpt, SettledQuiet
  <2>6. /\ Tracks(opt)' = Tracks(opt) /\ Tracks(quiet)' = Tracks(quiet)
        /\ SettledQuiet' = SettledQuiet
    BY <2>1, SettledSame
  <2>7. quiet # None =>
          /\ pc # "done" /\ changed = {} /\ quiet \in Options /\ quiet.update
          /\ Tracks(quiet) => SettledQuiet
    BY <2>1
  <2>8. pc' = "save" /\ changed = {} /\ Tracks(opt) => SettledNew'
    BY <2>1, <2>4
  <2>9. pc' = "done" /\ opt.update /\ changed = {} /\ Tracks(opt) =>
          <<"PNC", "index">> \in log' \/ SettledOpt'
    BY <2>1, <2>4
  <2>10. quiet # None /\ quiet = opt /\ Tracks(opt) => pc' # "save"
    BY <2>1, <2>4, <2>5, <2>7
  <2> QED
    BY <2>1, <2>3, <2>6, <2>7, <2>8, <2>9, <2>10 DEF dirVars
<1>9. CASE SaveOpen
  <2>1. /\ UNCHANGED <<dirVars, new, newDirList, opt, listing, changed, quiet>> /\ opt.update
        /\ pc = "save" /\ log \subseteq log' /\ \A m \in log' \ log : m = <<"PNC", "index">>
        /\ pc' = "write" \/ (pc' = "done" /\ <<"PNC", "index">> \in log')
    BY <1>9 DEF SaveOpen, saveFrame, dirVars, runVars, indexVars, worldHist, CertInv
  <2>2. <<"xup", "index">> \notin log'
    BY <2>1
  <2> QED
    BY <2>1, <2>2, SettledSame DEF dirVars
<1>10. CASE SaveWrite
  <2>1. /\ UNCHANGED <<dirVars, new, newDirList, opt, listing, changed, quiet>> /\ opt.update
        /\ pc = "write" /\ pc' = "done"
        /\ \/ store' = [state |-> "ok", entries |-> new,
                        dirs |-> IF opt.trackDirs THEN newDirList ELSE {}]
           \/ <<"PNC", "index">> \in log'
    BY <1>10 DEF SaveWrite, saveFrame, dirVars, runVars, indexVars, worldHist, CertInv
  <2>2. store' = [state |-> "ok", entries |-> new,
                  dirs |-> IF opt.trackDirs THEN newDirList ELSE {}] => SettledOpt' = SettledNew
    BY <2>1 DEF SettledOpt, SettledNew, Settled, dirVars
  <2> QED
    BY <2>1, <2>2, SettledSame DEF dirVars
<1>11. CASE End
  <2>1. /\ UNCHANGED <<dirVars, store>> /\ pc = "done" /\ pc' = "idle" /\ log' = {} /\ changed' = {}
        /\ opt' = None /\ opt \in Options
        /\ quiet' = IF ~opt.update THEN quiet
                    ELSE IF changed = {} /\ <<"PNC", "index">> \notin log THEN opt ELSE None
    BY <1>11 DEF End, Reset
  <2>2. CASE ~opt.update
    BY <2>1, <2>2, SettledSame DEF dirVars
  <2>3. CASE opt.update
    <3>1. quiet' = opt => SettledQuiet' = SettledOpt /\ Tracks(quiet)' = Tracks(opt)
      BY <2>1 DEF SettledOpt, SettledQuiet, Settled, Tracks, dirVars
    <3> QED
      BY <2>1, <2>3, <3>1
  <2> QED
    BY <2>2, <2>3
<1>12. CASE Kill
  BY <1>12 DEF Kill, Reset
<1>13. ASSUME NEW x \in Files \cup Subs, Touch(x)
      PROVE  QuietInv'
  <2>1. /\ UNCHANGED <<pc, opt, listing, cur, store, modified, log>>
        /\ changed' # {} /\ quiet' = None
    BY <1>13 DEF Touch, runVars, indexVars
  <2> QED
    BY <2>1
<1>14. CASE TamperIndex
  <2>1. pc' = "idle" /\ pc = "idle" /\ UNCHANGED log /\ quiet' = None
    BY <1>14 DEF TamperIndex
  <2> QED
    BY <2>1
<1>15. CASE UNCHANGED vars
  <2>1. UNCHANGED <<dirVars, store, pc, opt, listing, cur, new, newDirList, modified, log, changed,
                    quiet>>
    BY <1>15 DEF vars, runVars, indexVars, worldHist
  <2> QED
    BY <2>1, SettledSame DEF dirVars
<1> QED
  BY <1>1, <1>2, <1>3, <1>4, <1>5, <1>6, <1>7, <1>8, <1>9, <1>10, <1>11, <1>12, <1>13, <1>14,
     <1>15, EnvStep DEF Next, Run, Idle

\* An update straight after an update with the same options writes no index, whatever
\* the directory holds and however often it is repeated.
THEOREM RepeatedUpdateIsQuiet == Spec => []RepeatIsQuiet
<1> DEFINE I == Reports /\ QuietInv
<1>1. Init => I
  <2> SUFFICES ASSUME Init
               PROVE  QuietInv
    BY ReportsInit
  <2> QED
    BY InitFacts DEF QuietInv, Calculating, Reading, Finishing
<1>2. I /\ [Next]_vars => I'
  BY ReportsNext, QuietNext DEF Reports
<1>3. I => RepeatIsQuiet
  <2> SUFFICES ASSUME I, pc = "done", quiet = opt, opt.trackDirs \/ listing.dirs = {}
               PROVE  <<"xup", "index">> \notin log
    BY DEF RepeatIsQuiet
  <2>1. quiet # None
    BY Constants DEF Reports, TypeInv, RunType
  <2> QED
    BY <2>1 DEF QuietInv, Tracks
<1> QED
  BY <1>1, <1>2, <1>3, PTL DEF Spec

-----------------------------------------------------------------------------
(* Hashes and the times beside them                                        *)

\* A rewrite during a run changes the size.
SizesChange == \A p \in LiveWrites : Len(p[1]) # Len(p[2])

\* A run leaves the files alone, and the index to itself.
LEMMA RunStep ==
  ASSUME DirType, RunType, SpentType, Run \/ Kill \/ UNCHANGED vars
  PROVE  UNCHANGED <<file, truth, rotted>> /\ spent'["tamper"] = spent["tamper"]
<1>1. CASE SkipFile \/ Stat \/ Open \/ Read \/ Restat
  BY <1>1, CalcStep DEF dirVars, worldHist
<1>2. CASE Begin \/ Kill
  <2>1. \E k \in {"run", "kill"} : Spend(k)
    BY <1>2 DEF Begin, Kill
  <2>2. spent'["tamper"] = spent["tamper"]
    BY <2>1, SpendStep, Constants
  <2> QED
    BY <1>2, <2>2 DEF Begin, Kill, dirVars
<1>3. CASE Load \/ CheckFix \/ End \/ UNCHANGED vars
  BY <1>3 DEF Load, CheckFix, End, vars, dirVars, worldHist
<1>4. CASE SaveOpen \/ SaveWrite
  <2>1. UNCHANGED <<file, truth, rotted>> /\ (UNCHANGED spent \/ Spend("fail"))
    BY <1>4 DEF SaveOpen, SaveWrite, saveFrame, dirVars, worldHist
  <2>2. spent'["tamper"] = spent["tamper"]
    BY <2>1, SpendStep, Constants
  <2> QED
    BY <2>1, <2>2
<1> QED
  BY <1>1, <1>2, <1>3, <1>4 DEF Run

\* A change of the file is noticed by calcFile.
LEMMA MatchEnv ==
  ASSUME TypeInv, TimeInv, MatchInv, SizesChange, RewrittenOnce, Environment, ~TamperIndex
  PROVE  MatchInv'
<1> USE Constants DEF TypeInv
<1>0. now \in Nat /\ \A f \in Files : file[f] # None =>
        file[f].mtime \in 1..now /\ file[f].data \in Contents /\ Len(file[f].data) \in Nat
  BY ContentFacts DEF DirType, File, TimeInv, Time
<1>1. /\ UNCHANGED <<store, pc, cur, new, work>> /\ spent'["tamper"] = spent["tamper"]
      /\ \A f \in Files, t \in 1..now : truth'[f][t] = truth[f][t]
  BY EnvStep DEF Touch, runVars, indexVars
<1>2. \A f \in Files : /\ (Matches(store.entries[f], f) => Matches(store.entries[f], f)')
                      /\ (Matches(cur.entries[f], f) => Matches(cur.entries[f], f)')
                      /\ (Known(new[f]) /\ Matches(new[f], f) => Matches(new[f], f)')
  <2>1. \A f \in Files : Known(store.entries[f]) /\ Known(cur.entries[f])
    BY DEF TimeInv
  <2> QED
    BY <1>1, <2>1 DEF Matches, Known
<1>3. \A f \in Files : Known(new[f]) \/ (new[f] # None /\ new[f].hash = NoHash)
  <2>1. pc # "idle" => [mtime |-> 0, algo |-> opt.algo, hash |-> NoHash] \in Entry
    BY AlgoType, EntryFacts
  <2> QED
    BY <2>1 DEF TimeInv
<1>4. spent["tamper"] = 0 => \A f \in Files \ rotted :
        /\ file[f] # None => file[f].data = truth[f][file[f].mtime]
        /\ WorkMatches(f)
  BY DEF MatchInv, WorkMatches
<1>5. ASSUME spent["tamper"] = 0, rotted \subseteq rotted', NEW f \in Files \ rotted',
             file'[f] = file[f]
      PROVE  /\ file'[f] # None => file'[f].data = truth'[f][file'[f].mtime]
             /\ WorkMatches(f)'
  BY <1>0, <1>1, <1>4, <1>5 DEF WorkMatches, Reads
<1>6. ASSUME spent["tamper"] = 0, rotted' = rotted, NEW f \in Files \ rotted, NEW c \in Contents,
             file[f] # None \/ pc = "idle", file'[f] # None, file'[f].data = c,
             file[f] # None => file'[f].mtime # file[f].mtime,
             pc # "idle" => <<file[f].data, c>> \in LiveWrites,
             file'[f].data = truth'[f][file'[f].mtime]
      PROVE  /\ file'[f] # None => file'[f].data = truth'[f][file'[f].mtime]
             /\ WorkMatches(f)'
  <2> SUFFICES ASSUME pc \in Reading, work.name = f
               PROVE  WorkMatches(f)'
    BY <1>1, <1>6 DEF WorkMatches
  <2>1. work.pass = 1 /\ file[f].mtime = work.mtime /\ file[f] # None
    BY <1>6 DEF RewrittenOnce, Reading
  <2>2. Reads(f) /\ <<file[f].data, c>> \in LiveWrites
    BY <1>4, <1>6, <2>1 DEF WorkMatches, Reading
  <2>3. Len(file[f].data) # Len(c)
    BY <2>2 DEF SizesChange
  <2> QED
    BY <1>1, <1>6, <2>1, <2>2, <2>3 DEF WorkMatches, Reads
<1>7. spent["tamper"] = 0 => rotted \subseteq rotted' /\ \A f \in Files \ rotted' :
        /\ file'[f] # None => file'[f].data = truth'[f][file'[f].mtime]
        /\ WorkMatches(f)'
  <2> SUFFICES ASSUME spent["tamper"] = 0
               PROVE  rotted \subseteq rotted' /\ \A f \in Files \ rotted' :
                        /\ file'[f] # None => file'[f].data = truth'[f][file'[f].mtime]
                        /\ WorkMatches(f)'
    OBVIOUS
  <2>1. ASSUME NEW f \in Files, NEW c \in Contents, WriteFile(f, c)
        PROVE  rotted' = rotted /\ \A g \in Files \ rotted' :
                 /\ file'[g] # None => file'[g].data = truth'[g][file'[g].mtime]
                 /\ WorkMatches(g)'
    <3>1. /\ now' = now + 1 /\ rotted' = rotted /\ now' \in Time
          /\ file' = [file EXCEPT ![f] = [data |-> c, mtime |-> now']]
          /\ truth' = [truth EXCEPT ![f][now'] = c]
      <4>1. now' = now + 1 /\ file' = [file EXCEPT ![f] = [data |-> c, mtime |-> now']]
        BY <2>1 DEF WriteFile
      <4>2. now' \in 1..(1 + spent'["write"] + spent'["live"]) /\ SpentType'
        BY <4>1, <1>0, WorldNext, EnvStep DEF ClockMoves, Next
      <4>3. now' \in Time
        BY <4>2, <4>1, <1>0 DEF SpentType, Time
      <4> QED
        BY <2>1, <4>3 DEF WriteFile
    <3>2. [data |-> c, mtime |-> now'] \in File
      BY <3>1 DEF File
    <3>3. /\ file'[f] = [data |-> c, mtime |-> now'] /\ file'[f] # None /\ truth'[f][now'] = c
          /\ \A g \in Files \ {f} : file'[g] = file[g]
      BY <3>1, <3>2 DEF DirType
    <3>4. /\ file[f] # None \/ pc = "idle"
          /\ pc # "idle" => <<file[f].data, c>> \in LiveWrites
      BY <2>1 DEF WriteFile, Allowed
    <3>5. file[f] # None => now' # file[f].mtime
      BY <1>0, <3>1
    <3> QED
      BY <1>5, <1>6, <3>1, <3>3, <3>4, <3>5
  <2>2. ASSUME NEW f \in Files, NEW t \in Time, RestoreFile(f, t)
        PROVE  rotted' = rotted /\ \A g \in Files \ rotted' :
                 /\ file'[g] # None => file'[g].data = truth'[g][file'[g].mtime]
                 /\ WorkMatches(g)'
    <3>1. /\ file' = [file EXCEPT ![f] = [data |-> truth[f][t], mtime |-> t]]
          /\ file[f] # None /\ t < file[f].mtime /\ truth[f][t] # None
          /\ UNCHANGED <<rotted, truth>>
      BY <2>2 DEF RestoreFile
    <3>2. truth[f][t] \in Contents /\ [data |-> truth[f][t], mtime |-> t] \in File
      BY <3>1 DEF DirType, File
    <3>3. /\ file'[f] = [data |-> truth[f][t], mtime |-> t] /\ file'[f] # None
          /\ \A g \in Files \ {f} : file'[g] = file[g]
      BY <3>1, <3>2 DEF DirType
    <3>4. pc # "idle" => <<file[f].data, truth[f][t]>> \in LiveWrites
      BY <2>2 DEF RestoreFile, Allowed
    <3>5. t # file[f].mtime
      BY <1>0, <3>1 DEF Time
    <3> QED
      BY <1>5, <1>6, <3>1, <3>2, <3>3, <3>4, <3>5
  <2>3. ASSUME NEW f \in Files, NEW c \in Contents, Rot(f, c)
        PROVE  rotted \subseteq rotted' /\ \A g \in Files \ rotted' : file'[g] = file[g]
    BY <2>3 DEF Rot, DirType
  <2>4. ASSUME NEW f \in Files, Delete(f)
        PROVE  rotted' = rotted /\ \A g \in Files \ rotted' :
                 /\ file'[g] # None => file'[g].data = truth'[g][file'[g].mtime]
                 /\ WorkMatches(g)'
    <3>1. rotted' = rotted /\ file'[f] = None /\ \A g \in Files \ {f} : file'[g] = file[g]
      BY <2>4 DEF Delete, DirType
    <3>2. WorkMatches(f)'
      BY <3>1 DEF WorkMatches
    <3> QED
      BY <1>5, <3>1, <3>2
  <2>5. ASSUME NEW f \in Files \cup Subs, Break(f) \/ MakeDir(f) \/ EditIgnore(f)
        PROVE  rotted' = rotted /\ file' = file
    BY <2>5 DEF Break, MakeDir, EditIgnore
  <2> QED
    BY <1>5, <2>1, <2>2, <2>3, <2>4, <2>5 DEF Environment
<1>8. ASSUME spent["tamper"] = 0, NEW f \in Files \ rotted
      PROVE  /\ Matches(store.entries[f], f)' /\ Matches(cur.entries[f], f)'
             /\ (new'[f] # None /\ new'[f].hash = NoHash) \/ Matches(new[f], f)'
  <2>1. /\ Matches(store.entries[f], f) /\ Matches(cur.entries[f], f)
        /\ (new[f] # None /\ new[f].hash = NoHash) \/ Matches(new[f], f)
    BY <1>8 DEF MatchInv
  <2> QED
    BY <1>1, <1>2, <1>3, <1>8, <2>1
<1> QED
  <2> SUFFICES ASSUME spent["tamper"] = 0, NEW f \in Files \ rotted'
               PROVE  /\ file'[f] # None => file'[f].data = truth'[f][file'[f].mtime]
                      /\ Matches(store.entries[f], f)' /\ Matches(cur.entries[f], f)'
                      /\ (new'[f] # None /\ new'[f].hash = NoHash) \/ Matches(new[f], f)'
                      /\ WorkMatches(f)'
    BY <1>1 DEF MatchInv, WorkMatches
  <2> QED
    BY <1>7, <1>8

\* What a step of a run has to keep.
LEMMA MatchKept ==
  ASSUME TypeInv, MatchInv, UNCHANGED <<file, truth, rotted>>, spent'["tamper"] = spent["tamper"],
         \A f \in Files : store'.entries[f] \in {None, store.entries[f], new[f]},
         \A f \in Files : cur'.entries[f] \in {None, store.entries[f], cur.entries[f]},
         spent["tamper"] = 0 => \A f \in Files \ rotted :
           /\ store'.entries[f] = new[f] => Matches(store.entries[f], f)'
           /\ \/ new'[f] # None /\ new'[f].hash = NoHash
              \/ Matches(new[f], f)'
           /\ WorkMatches(f)'
  PROVE  MatchInv'
<1> SUFFICES ASSUME spent["tamper"] = 0, NEW f \in Files \ rotted
             PROVE  /\ file'[f] # None => file'[f].data = truth'[f][file'[f].mtime]
                    /\ Matches(store.entries[f], f)' /\ Matches(cur.entries[f], f)'
                    /\ (new'[f] # None /\ new'[f].hash = NoHash) \/ Matches(new[f], f)'
                    /\ WorkMatches(f)'
  BY DEF MatchInv, WorkMatches
<1>1. /\ file[f] # None => file[f].data = truth[f][file[f].mtime]
      /\ Matches(store.entries[f], f) /\ Matches(cur.entries[f], f)
  BY DEF MatchInv
<1> QED
  BY <1>1 DEF Matches

\* Every step keeps the hashes with their times, if a rewrite during the run changes the
\* size and calcFile meets at most one: the second getMtS sees that one, and the second
\* pass reads what is there.
LEMMA MatchNext ==
  ASSUME TypeInv, TimeInv, OutcomeInv, CertInv, MatchInv, SizesChange,
         RewrittenOnce \/ UNCHANGED vars, [Next]_vars
  PROVE  MatchInv'
<1> USE DEF TypeInv, Reading
<1>1. CASE Begin
  <2>1. UNCHANGED <<file, truth, rotted>> /\ spent'["tamper"] = spent["tamper"]
    BY <1>1, RunStep DEF Run
  <2>2. /\ UNCHANGED <<store, cur, new>> /\ pc' \notin Reading
    BY <1>1 DEF Begin
  <2>3. spent["tamper"] = 0 => \A f \in Files \ rotted :
          /\ (new[f] # None /\ new[f].hash = NoHash) \/ Matches(new[f], f)'
          /\ Matches(store.entries[f], f)' /\ WorkMatches(f)'
    BY <2>1, <2>2 DEF MatchInv, Matches, WorkMatches
  <2> QED
    BY <2>1, <2>2, <2>3, MatchKept DEF TypeInv
<1>2. CASE Load
  <2>1. UNCHANGED <<file, truth, rotted>> /\ spent'["tamper"] = spent["tamper"]
    BY <1>2, RunStep DEF Run
  <2>2. UNCHANGED <<store, new>> /\ cur'.entries = store.entries /\ pc' \notin Reading
    BY <1>2 DEF Load
  <2>3. spent["tamper"] = 0 => \A f \in Files \ rotted :
          /\ (new[f] # None /\ new[f].hash = NoHash) \/ Matches(new[f], f)'
          /\ Matches(store.entries[f], f)' /\ WorkMatches(f)'
    BY <2>1, <2>2 DEF MatchInv, Matches, WorkMatches
  <2> QED
    BY <2>1, <2>2, <2>3, MatchKept DEF TypeInv
<1>3. CASE SkipFile
  <2>1. UNCHANGED <<file, truth, rotted>> /\ spent'["tamper"] = spent["tamper"]
    BY <1>3, RunStep DEF Run
  <2>2. /\ UNCHANGED <<store, cur>> /\ pc = "calc" /\ pc' = "calc"
        /\ \E f \in Files :
             \/ UNCHANGED new
             \/ new' = [new EXCEPT ![f] = cur.entries[f]]
             \/ new' = [new EXCEPT ![f] = [mtime |-> 0, algo |-> opt.algo, hash |-> NoHash]]
    BY <1>3 DEF SkipFile, RunType
  <2>3. spent["tamper"] = 0 => \A f \in Files \ rotted :
          /\ (new'[f] # None /\ new'[f].hash = NoHash) \/ Matches(new[f], f)'
          /\ Matches(store.entries[f], f)' /\ WorkMatches(f)'
    <3>1. [mtime |-> 0, algo |-> opt.algo, hash |-> NoHash] \in Entry
      BY <2>2, AlgoType, EntryFacts
    <3>2. \A f \in Files : \/ new'[f] \in {new[f], cur.entries[f]}
                           \/ new'[f] # None /\ new'[f].hash = NoHash
      BY <2>2, <3>1, Constants DEF IndexType, Entries
    <3> QED
      BY <2>1, <2>2, <3>2 DEF MatchInv, Matches, WorkMatches
  <2> QED
    BY <2>1, <2>2, <2>3, MatchKept DEF TypeInv
<1>4. CASE Stat
  <2>1. UNCHANGED <<file, truth, rotted>> /\ spent'["tamper"] = spent["tamper"]
    BY <1>4, RunStep DEF Run
  <2>2. /\ UNCHANGED <<store, cur, new>>
        /\ \/ pc' = "calc"
           \/ \E g \in Files :
                /\ file[g] # None /\ pc' = "open" /\ work'.name = g /\ work'.mtime = file[g].mtime
                /\ work'.size = Len(file[g].data) /\ work'.buf = <<>> /\ work'.pass = 1
    BY <1>4 DEF Stat, CalcError, RunType
  <2>3. spent["tamper"] = 0 => \A f \in Files \ rotted :
          /\ (new'[f] # None /\ new'[f].hash = NoHash) \/ Matches(new[f], f)'
          /\ Matches(store.entries[f], f)' /\ WorkMatches(f)'
    <3>1. \A f \in Files : file[f] # None => Prefix(<<>>, file[f].data)
      BY EmptyPrefix, ContentFacts DEF DirType, File
    <3>2. \A f \in Files : WorkMatches(f)'
      BY <2>1, <2>2, <3>1 DEF WorkMatches, Reads
    <3> QED
      BY <2>1, <2>2, <3>2 DEF MatchInv, Matches
  <2> QED
    BY <2>1, <2>2, <2>3, MatchKept DEF TypeInv
<1>5. CASE Open
  <2>1. UNCHANGED <<file, truth, rotted>> /\ spent'["tamper"] = spent["tamper"]
    BY <1>5, RunStep DEF Run
  <2>2. UNCHANGED <<store, cur>> /\ work.name \in Files /\ pc \in Reading /\ work \in Works
    BY <1>5, CalcCases, CalcStep DEF RunType, Reading
  <2>4. ASSUME spent["tamper"] = 0, NEW f \in Files \ rotted
        PROVE  WorkMatches(f)' /\ ((new'[f] # None /\ new'[f].hash = NoHash) \/ Matches(new[f], f)')
    <3>1. WorkMatches(f) /\ ((new[f] # None /\ new[f].hash = NoHash) \/ Matches(new[f], f))
      BY <2>4 DEF MatchInv, WorkMatches
    <3>2. Matches(new[f], f) /\ new'[f] = new[f] => Matches(new[f], f)'
      BY <2>1 DEF Matches
    <3>3. CASE CalcError(work.name)
      BY <3>1, <3>2, <3>3 DEF CalcError, WorkMatches, Reading
    <3>4. CASE pc' = "read" /\ UNCHANGED <<work, new>>
      BY <1>5, <2>1, <2>2, <3>1, <3>2, <3>4 DEF Open, WorkMatches, Reads, Reading
    <3> QED
      BY <1>5, <3>3, <3>4 DEF Open
  <2>3. spent["tamper"] = 0 => \A f \in Files \ rotted :
          /\ (new'[f] # None /\ new'[f].hash = NoHash) \/ Matches(new[f], f)'
          /\ Matches(store.entries[f], f)' /\ WorkMatches(f)'
    BY <2>1, <2>2, <2>4 DEF MatchInv, Matches
  <2> QED
    BY <2>1, <2>2, <2>3, MatchKept DEF TypeInv
<1>6. CASE Read
  <2>1. UNCHANGED <<file, truth, rotted>> /\ spent'["tamper"] = spent["tamper"]
    BY <1>6, RunStep DEF Run
  <2>2. UNCHANGED <<store, cur>> /\ work.name \in Files /\ pc \in Reading /\ work \in Works
    BY <1>6, CalcCases, CalcStep DEF RunType, Reading
  <2>4. ASSUME spent["tamper"] = 0, NEW f \in Files \ rotted
        PROVE  WorkMatches(f)' /\ ((new'[f] # None /\ new'[f].hash = NoHash) \/ Matches(new[f], f)')
    <3>1. WorkMatches(f) /\ ((new[f] # None /\ new[f].hash = NoHash) \/ Matches(new[f], f))
      BY <2>4 DEF MatchInv, WorkMatches
    <3>2. Matches(new[f], f) /\ new'[f] = new[f] => Matches(new[f], f)'
      BY <2>1 DEF Matches
    <3>3. CASE CalcError(work.name)
      BY <3>1, <3>2, <3>3 DEF CalcError, WorkMatches, Reading
    <3>5. file[work.name] # None /\ pc = "read"
      BY <1>6 DEF Read, RunType, Reading
    <3>6. work.buf \in Seq(Block) /\ file[work.name].data \in Seq(Block) /\ work.pass \in 1..2
      BY <2>2, <3>5, ContentFacts DEF DirType, File, Works
    <3>7. CASE work' = [work EXCEPT !.buf = Append(@, file[work.name].data[Len(work.buf) + 1])]
               /\ Len(work.buf) < Len(file[work.name].data) /\ UNCHANGED <<pc, new>>
      <4>1. /\ work'.name = work.name /\ work'.mtime = work.mtime /\ work'.size = work.size
            /\ work'.pass = work.pass
            /\ work'.buf = Append(work.buf, file[work.name].data[Len(work.buf) + 1])
        BY <2>2, <3>7 DEF Works
      <4>2. work.name = f /\ Reads(f) => Reads(f)'
        BY <2>1, <3>5, <3>6, <3>7, <4>1, PrefixFacts DEF Reads
      <4> QED
        BY <2>1, <3>1, <3>2, <3>5, <3>7, <4>1, <4>2 DEF WorkMatches
    <3>8. CASE /\ Len(work.buf) >= Len(file[work.name].data)
               /\ pc' = "restat" /\ UNCHANGED <<work, new>>
      <4>1. work.name = f /\ Reads(f) => Reads(f)'
        BY <2>1, <3>5, <3>6, <3>8, PrefixFacts DEF Reads
      <4> QED
        BY <2>1, <2>2, <3>1, <3>2, <3>5, <3>8, <4>1 DEF WorkMatches
    <3>9. CASE /\ Len(work.buf) >= Len(file[work.name].data) /\ work.pass = 2
               /\ CalcResult(work.name, work.mtime, work.buf)
      <4>1. CASE work.name # f
        BY <3>1, <3>2, <3>9, <4>1 DEF CalcResult, WorkMatches, Reading, IndexType, Entries
      <4>2. CASE work.name = f
        <5>1. work.mtime = file[f].mtime /\ work.buf = file[f].data
          BY <2>2, <3>1, <3>5, <3>6, <3>9, <4>2, PrefixFacts DEF WorkMatches, Reads
        <5>2. file[f].data = truth[f][file[f].mtime]
          BY <2>4, <3>5, <4>2 DEF MatchInv
        <5>3. new'[f].mtime = work.mtime /\ new'[f].hash = work.buf
          BY <3>9, <4>2 DEF CalcResult, IndexType, Entries
        <5> QED
          BY <2>1, <3>9, <5>1, <5>2, <5>3 DEF CalcResult, WorkMatches, Matches, Reading
      <4> QED
        BY <4>1, <4>2
    <3> QED
      BY <1>6, <3>3, <3>7, <3>8, <3>9 DEF Read
  <2>3. spent["tamper"] = 0 => \A f \in Files \ rotted :
          /\ (new'[f] # None /\ new'[f].hash = NoHash) \/ Matches(new[f], f)'
          /\ Matches(store.entries[f], f)' /\ WorkMatches(f)'
    BY <2>1, <2>2, <2>4 DEF MatchInv, Matches
  <2> QED
    BY <2>1, <2>2, <2>3, MatchKept DEF TypeInv
<1>7. CASE Restat
  <2>1. UNCHANGED <<file, truth, rotted>> /\ spent'["tamper"] = spent["tamper"]
    BY <1>7, RunStep DEF Run
  <2>2. UNCHANGED <<store, cur>> /\ work.name \in Files /\ pc \in Reading /\ work \in Works
    BY <1>7, CalcCases, CalcStep DEF RunType, Reading
  <2>4. ASSUME spent["tamper"] = 0, NEW f \in Files \ rotted
        PROVE  WorkMatches(f)' /\ ((new'[f] # None /\ new'[f].hash = NoHash) \/ Matches(new[f], f)')
    <3>1. WorkMatches(f) /\ ((new[f] # None /\ new[f].hash = NoHash) \/ Matches(new[f], f))
      BY <2>4 DEF MatchInv, WorkMatches
    <3>2. Matches(new[f], f) /\ new'[f] = new[f] => Matches(new[f], f)'
      BY <2>1 DEF Matches
    <3>3. CASE CalcError(work.name)
      BY <3>1, <3>2, <3>3 DEF CalcError, WorkMatches, Reading
    <3>5. work.pass \in 1..2 /\ pc = "restat"
      BY <1>7, <2>2 DEF Restat, Works
    <3>6. CASE /\ file[work.name] # None /\ pc' = "open" /\ UNCHANGED new
               /\ work' = [work EXCEPT !.mtime = file[work.name].mtime, !.buf = <<>>, !.pass = 2,
                                       !.size = Len(file[work.name].data)]
      <4>1. /\ work'.name = work.name /\ work'.mtime = file[work.name].mtime
            /\ work'.size = Len(file[work.name].data) /\ work'.buf = <<>>
        BY <2>2, <3>6 DEF Works
      <4>2. Prefix(<<>>, file[work.name].data)
        BY <2>2, <3>6, EmptyPrefix, ContentFacts DEF DirType, File
      <4>3. work.name = f => Reads(f)'
        BY <2>1, <3>6, <4>1, <4>2 DEF Reads
      <4> QED
        BY <2>1, <3>1, <3>2, <3>6, <4>1, <4>3 DEF WorkMatches
    <3>7. CASE /\ file[work.name] # None /\ CalcResult(work.name, work.mtime, work.buf)
               /\ ~Rehash(file[work.name].mtime, Len(file[work.name].data))
      <4>1. CASE work.name # f
        BY <3>1, <3>2, <3>7, <4>1 DEF CalcResult, WorkMatches, Reading, IndexType, Entries
      <4>2. CASE work.name = f
        <5>1. work.mtime = file[f].mtime /\ work.buf = file[f].data
          BY <2>2, <3>1, <3>5, <3>7, <4>2 DEF WorkMatches, Reads, Rehash
        <5>2. file[f].data = truth[f][file[f].mtime]
          BY <2>4, <3>7, <4>2 DEF MatchInv
        <5>3. new'[f].mtime = work.mtime /\ new'[f].hash = work.buf
          BY <3>7, <4>2 DEF CalcResult, IndexType, Entries
        <5> QED
          BY <2>1, <3>7, <5>1, <5>2, <5>3 DEF CalcResult, WorkMatches, Matches, Reading
      <4> QED
        BY <4>1, <4>2
    <3> QED
      BY <1>7, <3>3, <3>6, <3>7 DEF Restat
  <2>3. spent["tamper"] = 0 => \A f \in Files \ rotted :
          /\ (new'[f] # None /\ new'[f].hash = NoHash) \/ Matches(new[f], f)'
          /\ Matches(store.entries[f], f)' /\ WorkMatches(f)'
    BY <2>1, <2>2, <2>4 DEF MatchInv, Matches
  <2> QED
    BY <2>1, <2>2, <2>3, MatchKept DEF TypeInv
<1>8. CASE CheckFix
  <2>1. UNCHANGED <<file, truth, rotted>> /\ spent'["tamper"] = spent["tamper"]
    BY <1>8, RunStep DEF Run
  <2>2. /\ UNCHANGED <<store, cur>> /\ pc' \notin Reading
        /\ \A f \in Files : new'[f] \in {new[f], cur.entries[f]}
    BY <1>8 DEF CheckFix, Reading
  <2>3. spent["tamper"] = 0 => \A f \in Files \ rotted :
          /\ (new'[f] # None /\ new'[f].hash = NoHash) \/ Matches(new[f], f)'
          /\ Matches(store.entries[f], f)' /\ WorkMatches(f)'
    BY <2>1, <2>2 DEF MatchInv, Matches, WorkMatches
  <2> QED
    BY <2>1, <2>2, <2>3, MatchKept DEF TypeInv
<1>9. CASE SaveOpen
  <2>1. UNCHANGED <<file, truth, rotted>> /\ spent'["tamper"] = spent["tamper"]
    BY <1>9, RunStep DEF Run
  <2>2. /\ UNCHANGED <<cur, new>> /\ pc' \notin Reading
        /\ store' = store \/ \A f \in Files : store'.entries[f] = None
    BY <1>9 DEF SaveOpen, saveFrame, runVars, indexVars, Reading, Unparseable, NoEntries
  <2>3. spent["tamper"] = 0 => \A f \in Files \ rotted :
          /\ (new[f] # None /\ new[f].hash = NoHash) \/ Matches(new[f], f)'
          /\ Matches(store.entries[f], f)' /\ WorkMatches(f)'
    BY <2>1, <2>2 DEF MatchInv, Matches, WorkMatches
  <2> QED
    BY <2>1, <2>2, <2>3, MatchKept DEF TypeInv
<1>10. CASE SaveWrite
  <2>1. UNCHANGED <<file, truth, rotted>> /\ spent'["tamper"] = spent["tamper"]
    BY <1>10, RunStep DEF Run
  <2>2. /\ UNCHANGED <<cur, new>> /\ pc' \notin Reading /\ opt.update
        /\ store' = store \/ store'.entries = new
    BY <1>10 DEF SaveWrite, saveFrame, runVars, indexVars, Reading, CertInv
  <2>3. spent["tamper"] = 0 => \A f \in Files \ rotted :
          /\ (new[f] # None /\ new[f].hash = NoHash) \/ Matches(new[f], f)'
          /\ Matches(store.entries[f], f)' /\ WorkMatches(f)'
    <3>1. \A f \in Files : new[f] # None => new[f].hash # NoHash
      BY <2>2 DEF TimeInv, Known
    <3> QED
      BY <2>1, <2>2, <3>1 DEF MatchInv, Matches, WorkMatches
  <2> QED
    BY <2>1, <2>2, <2>3, MatchKept DEF TypeInv
<1>11. CASE End
  <2>1. UNCHANGED <<file, truth, rotted>> /\ spent'["tamper"] = spent["tamper"]
    BY <1>11, RunStep DEF Run
  <2>2. /\ UNCHANGED store /\ pc' \notin Reading
        /\ \A f \in Files : new'[f] = None /\ cur'.entries[f] = None
    BY <1>11 DEF End, Reset, NoEntries, Reading
  <2>3. spent["tamper"] = 0 => \A f \in Files \ rotted :
          Matches(new[f], f)' /\ Matches(store.entries[f], f)' /\ WorkMatches(f)'
    BY <2>1, <2>2 DEF MatchInv, Matches, WorkMatches
  <2> QED
    BY <2>1, <2>2, <2>3, MatchKept DEF TypeInv
<1>12. CASE Kill
  <2>1. UNCHANGED <<file, truth, rotted>> /\ spent'["tamper"] = spent["tamper"]
    BY <1>12, RunStep DEF Run
  <2>2. /\ UNCHANGED store /\ pc' \notin Reading
        /\ \A f \in Files : new'[f] = None /\ cur'.entries[f] = None
    BY <1>12 DEF Kill, Reset, NoEntries, Reading
  <2>3. spent["tamper"] = 0 => \A f \in Files \ rotted :
          Matches(new[f], f)' /\ Matches(store.entries[f], f)' /\ WorkMatches(f)'
    BY <2>1, <2>2 DEF MatchInv, Matches, WorkMatches
  <2> QED
    BY <2>1, <2>2, <2>3, MatchKept DEF TypeInv
<1>13. CASE Environment /\ ~TamperIndex /\ RewrittenOnce
  BY <1>13, MatchEnv
<1>14. CASE TamperIndex
  <2>1. SpentType' /\ spent'["tamper"] = spent["tamper"] + 1 /\ spent["tamper"] \in Nat
    BY <1>14, SpendStep, Constants DEF TamperIndex, SpentType
  <2> QED
    BY <2>1 DEF MatchInv
<1>15. CASE UNCHANGED vars
  <2>1. UNCHANGED <<file, truth, rotted, spent>>
    BY <1>15 DEF vars, dirVars, worldHist
  <2>2. UNCHANGED <<store, cur, new, pc, work>>
    BY <1>15 DEF vars, runVars, indexVars
  <2>3. spent["tamper"] = 0 => \A f \in Files \ rotted :
          /\ (new'[f] # None /\ new'[f].hash = NoHash) \/ Matches(new[f], f)'
          /\ Matches(store.entries[f], f)' /\ WorkMatches(f)'
    BY <2>1, <2>2 DEF MatchInv, Matches, WorkMatches, Reads
  <2> QED
    BY <2>1, <2>2, <2>3, MatchKept DEF TypeInv
<1> QED
  BY <1>1, <1>2, <1>3, <1>4, <1>5, <1>6, <1>7, <1>8, <1>9, <1>10, <1>11, <1>12, <1>13, <1>14,
     <1>15 DEF Next, Run, Idle

\* checkFix compares two hashes of one algorithm, which belong to the same time: they
\* differ only where the content was damaged.
LEMMA DamageNext ==
  ASSUME TypeInv, TimeInv, OutcomeInv, MatchInv, DamageInv, [Next]_vars
  PROVE  DamageInv'
<1> USE DEF TypeInv, DamageInv, Reading, Calculating
<1>1. CASE Begin
  <2>1. /\ UNCHANGED <<file, truth, rotted>> /\ spent'["tamper"] = spent["tamper"] /\ UNCHANGED log
        /\ pc' = "load"
    BY <1>1, RunStep DEF Run, Begin
  <2> QED
    BY <2>1 DEF NoFalseDamage
<1>2. CASE Load
  <2>1. UNCHANGED <<rotted, spent, new>> /\ pc = "load"
        /\ \A m \in log' : m \in {<<"PNC", "index">>, <<"ERX", "index">>} \/ m[1] = "ign"
    BY <1>2 DEF Load, worldHist
  <2>2. \A f \in Files : new[f] = None
    BY <2>1 DEF OutcomeInv, NoEntries
  <2> QED
    BY <2>1, <2>2 DEF NoFalseDamage
<1>3. CASE SkipFile
  <2>1. /\ pc \in Calculating /\ UNCHANGED <<cur, rotted>> /\ spent' = spent
        /\ \A m \in log' \ log : \E f \in Files : m = <<"ign", f>> \/ m = <<"PNC", f>>
    BY <1>3, CalcStep DEF worldHist
  <2>2. \A f \in Files :
          new'[f] # None /\ cur.entries[f] # None => new'[f].algo = cur.entries[f].algo
    <3>1. \E f \in Files :
             \/ UNCHANGED new
             \/ new' = [new EXCEPT ![f] = cur.entries[f]]
             \/ /\ new' = [new EXCEPT ![f] = [mtime |-> 0, algo |-> opt.algo, hash |-> NoHash]]
                /\ cur.entries[f] = None
      BY <1>3 DEF SkipFile, RunType
    <3> QED
      BY <2>1, <3>1 DEF IndexType, Entries
  <2>3. NoFalseDamage'
    BY <2>1 DEF NoFalseDamage
  <2> QED
    BY <2>1, <2>2, <2>3
<1>4. CASE Stat
  <2>1. /\ pc \in Calculating /\ UNCHANGED <<cur, rotted>> /\ spent' = spent
        /\ \A m \in log' \ log : \E f \in Files : m = <<"ign", f>> \/ m = <<"PNC", f>>
    BY <1>4, CalcStep DEF worldHist
  <2>2. \A f \in Files :
          new'[f] # None /\ cur.entries[f] # None => new'[f].algo = cur.entries[f].algo
    BY <1>4, <2>1 DEF Stat, CalcError
  <2>3. NoFalseDamage'
    BY <2>1 DEF NoFalseDamage
  <2> QED
    BY <2>1, <2>2, <2>3
<1>5. CASE Open
  <2>1. /\ pc \in Calculating /\ UNCHANGED <<cur, rotted>> /\ spent' = spent
        /\ \A m \in log' \ log : \E f \in Files : m = <<"ign", f>> \/ m = <<"PNC", f>>
    BY <1>5, CalcStep DEF worldHist
  <2>2. \A f \in Files :
          new'[f] # None /\ cur.entries[f] # None => new'[f].algo = cur.entries[f].algo
    <3>1. \/ UNCHANGED new
          \/ /\ work.name \in Files
             /\ new' = [new EXCEPT ![work.name] =
                          [mtime |-> work.mtime, algo |-> AlgoOf(work.name), hash |-> work.buf]]
      BY <1>5, CalcCases DEF CalcError, CalcResult
    <3> QED
      BY <2>1, <3>1 DEF IndexType, Entries, AlgoOf
  <2>3. NoFalseDamage'
    BY <2>1 DEF NoFalseDamage
  <2> QED
    BY <2>1, <2>2, <2>3
<1>6. CASE Read
  <2>1. /\ pc \in Calculating /\ UNCHANGED <<cur, rotted>> /\ spent' = spent
        /\ \A m \in log' \ log : \E f \in Files : m = <<"ign", f>> \/ m = <<"PNC", f>>
    BY <1>6, CalcStep DEF worldHist
  <2>2. \A f \in Files :
          new'[f] # None /\ cur.entries[f] # None => new'[f].algo = cur.entries[f].algo
    <3>1. \/ UNCHANGED new
          \/ /\ work.name \in Files
             /\ new' = [new EXCEPT ![work.name] =
                          [mtime |-> work.mtime, algo |-> AlgoOf(work.name), hash |-> work.buf]]
      BY <1>6, CalcCases DEF CalcError, CalcResult
    <3> QED
      BY <2>1, <3>1 DEF IndexType, Entries, AlgoOf
  <2>3. NoFalseDamage'
    BY <2>1 DEF NoFalseDamage
  <2> QED
    BY <2>1, <2>2, <2>3
<1>7. CASE Restat
  <2>1. /\ pc \in Calculating /\ UNCHANGED <<cur, rotted>> /\ spent' = spent
        /\ \A m \in log' \ log : \E f \in Files : m = <<"ign", f>> \/ m = <<"PNC", f>>
    BY <1>7, CalcStep DEF worldHist
  <2>2. \A f \in Files :
          new'[f] # None /\ cur.entries[f] # None => new'[f].algo = cur.entries[f].algo
    <3>1. \/ UNCHANGED new
          \/ /\ work.name \in Files
             /\ new' = [new EXCEPT ![work.name] =
                          [mtime |-> work.mtime, algo |-> AlgoOf(work.name), hash |-> work.buf]]
      BY <1>7, CalcCases DEF CalcError, CalcResult
    <3> QED
      BY <2>1, <3>1 DEF IndexType, Entries, AlgoOf
  <2>3. NoFalseDamage'
    BY <2>1 DEF NoFalseDamage
  <2> QED
    BY <2>1, <2>2, <2>3
<1>8. CASE CheckFix
  <2>1. /\ UNCHANGED <<rotted, spent>> /\ pc = "calc" /\ pc' \in {"save", "done"}
        /\ \A m \in log' \ log : m[1] = "del" \/ \E f \in Has(new) : m = <<Verdict(f), f>>
    BY <1>8 DEF CheckFix, worldHist
  <2>2. ASSUME spent["tamper"] = 0, NEW f \in Files, new[f] # None, Verdict(f) = "DMG"
        PROVE  f \in rotted
    <3> DEFINE a == cur.entries[f]
               b == new[f]
    <3>1. a # None /\ a.mtime = b.mtime /\ ~(b.hash # NoHash /\ a.algo = b.algo /\ a.hash = b.hash)
      BY <2>2 DEF Verdict
    <3>2. b.hash # NoHash
      BY <2>2, <3>1 DEF TimeInv, Known
    <3>3. a.algo = b.algo
      BY <2>1, <2>2, <3>1
    <3>4. f \notin rotted => a.hash = truth[f][a.mtime] /\ b.hash = truth[f][b.mtime]
      BY <2>2, <3>1, <3>2 DEF MatchInv, Matches
    <3> QED
      BY <3>1, <3>2, <3>3, <3>4
  <2>3. NoFalseDamage'
    BY <2>1, <2>2 DEF NoFalseDamage, Has
  <2> QED
    BY <2>1, <2>3
<1>9. CASE SaveOpen
  <2>1. /\ spent'["tamper"] = spent["tamper"] /\ UNCHANGED rotted
    BY <1>9, RunStep DEF Run
  <2>2. /\ pc' \in {"write", "done"}
        /\ \A m \in log' \ log : m = <<"PNC", "index">> \/ m = <<"xup", "index">>
    BY <1>9 DEF SaveOpen
  <2> QED
    BY <2>1, <2>2 DEF NoFalseDamage
<1>10. CASE SaveWrite
  <2>1. /\ spent'["tamper"] = spent["tamper"] /\ UNCHANGED rotted
    BY <1>10, RunStep DEF Run
  <2>2. /\ pc' \in {"write", "done"}
        /\ \A m \in log' \ log : m = <<"PNC", "index">> \/ m = <<"xup", "index">>
    BY <1>10 DEF SaveWrite
  <2> QED
    BY <2>1, <2>2 DEF NoFalseDamage
<1>11. CASE End
  BY <1>11 DEF End, Reset, NoFalseDamage
<1>12. CASE Kill
  BY <1>12 DEF Kill, Reset, NoFalseDamage
<1>13. CASE Environment /\ ~TamperIndex
  <2>1. UNCHANGED <<pc, cur, new, log>> /\ spent'["tamper"] = spent["tamper"]
    BY <1>13, EnvStep DEF Touch, runVars, indexVars
  <2>2. rotted \subseteq rotted'
    BY <1>13 DEF Environment, WriteFile, RestoreFile, Rot, Delete, Break, MakeDir, EditIgnore
  <2> QED
    BY <2>1, <2>2 DEF NoFalseDamage
<1>14. CASE TamperIndex
  <2>1. /\ spent'["tamper"] = spent["tamper"] + 1 /\ spent["tamper"] \in Nat
        /\ pc' = "idle"
    BY <1>14, SpendStep, Constants DEF TamperIndex, SpentType
  <2> QED
    BY <2>1 DEF NoFalseDamage
<1>15. CASE UNCHANGED vars
  <2>1. UNCHANGED <<pc, cur, new, log, spent, rotted>>
    BY <1>15 DEF vars, dirVars, runVars, indexVars, worldHist
  <2> QED
    BY <2>1 DEF NoFalseDamage
<1> QED
  BY <1>1, <1>2, <1>3, <1>4, <1>5, <1>6, <1>7, <1>8, <1>9, <1>10, <1>11, <1>12, <1>13, <1>14,
     <1>15 DEF Next, Run, Idle

\* During a run only a live rewrite changes a time.
LEMMA LiveStep ==
  ASSUME DirType, SpentType, Environment, ~TamperIndex, pc # "idle"
  PROVE  /\ spent["live"] \in Nat /\ spent'["live"] >= spent["live"]
         /\ \/ Spend("live") /\ spent'["live"] = spent["live"] + 1
            \/ \A f \in Files : file'[f] # None =>
                 file[f] # None /\ file'[f].mtime = file[f].mtime
<1> USE Constants
<1>1. spent["live"] \in Nat
  BY DEF SpentType
<1>2. CASE \E f \in Files, c \in Contents : WriteFile(f, c)
  BY <1>1, <1>2, SpendStep DEF WriteFile, Allowed
<1>3. CASE \E f \in Files, t \in Time : RestoreFile(f, t)
  BY <1>1, <1>3, SpendStep DEF RestoreFile, Allowed
<1>4. ASSUME NEW f \in Files, NEW c \in Contents, Rot(f, c)
      PROVE  /\ spent'["live"] = spent["live"]
             /\ \A g \in Files : file'[g] # None =>
                  file[g] # None /\ file'[g].mtime = file[g].mtime
  <2>1. /\ file' = [file EXCEPT ![f] = [file[f] EXCEPT !.data = c]] /\ file[f] # None
        /\ Spend("rot")
    BY <1>4 DEF Rot
  <2>2. file[f] \in File
    BY <2>1 DEF DirType
  <2>3. [file[f] EXCEPT !.data = c].mtime = file[f].mtime
    BY <2>2 DEF File
  <2>4. spent'["live"] = spent["live"]
    BY <2>1, SpendStep
  <2> QED
    BY <2>1, <2>3, <2>4 DEF DirType
<1>5. CASE \E f \in Files \cup Subs :
             (f \in Files /\ Delete(f)) \/ Break(f) \/ MakeDir(f) \/ EditIgnore(f)
  <2>1. \E k \in {"delete", "break", "mkdir", "ignore"} : Spend(k)
    BY <1>5 DEF Delete, Break, MakeDir, EditIgnore
  <2>2. spent'["live"] = spent["live"]
    BY <2>1, SpendStep
  <2>3. file' = file \/ \E f \in Files : file' = [file EXCEPT ![f] = None]
    BY <1>5 DEF Delete, Break, MakeDir, EditIgnore
  <2> QED
    BY <1>1, <2>2, <2>3 DEF DirType
<1> QED
  BY <1>1, <1>2, <1>3, <1>4, <1>5 DEF Environment

\* Before its first rewrite during a run calcFile finds the file as it was.
LiveInv == spent["live"] = 0 /\ pc \in Reading =>
  work.pass = 1 /\ (file[work.name] # None => file[work.name].mtime = work.mtime)

LEMMA LiveNext ==
  ASSUME TypeInv, TimeInv, LiveInv, [Next]_vars
  PROVE  LiveInv'
<1> USE DEF TypeInv, LiveInv, Reading
<1>1. CASE Run \/ Kill \/ UNCHANGED vars
  <2>1. UNCHANGED file /\ spent'["live"] = spent["live"]
    <3>1. UNCHANGED spent \/ \E k \in {"run", "fail", "kill", "tamper"} : Spend(k)
      BY <1>1, CalcStep DEF Run, Begin, Load, CheckFix, SaveOpen, SaveWrite, End, Kill, vars
    <3> QED
      BY <1>1, <3>1, RunStep, SpendOther
  <2>2. CASE Stat
    BY <2>1, <2>2 DEF Stat, CalcError
  <2>3. CASE Open \/ Read \/ Restat
    <3>1. work \in Works
      BY <2>3, CalcCases DEF RunType
    <3> QED
      BY <2>1, <2>3, <3>1 DEF Open, Read, Restat, CalcError, CalcResult, Rehash, Works
  <2>4. CASE Begin \/ Load \/ SkipFile \/ CheckFix \/ SaveOpen \/ SaveWrite \/ End \/ Kill
    BY <2>4 DEF Begin, Load, SkipFile, CheckFix, SaveOpen, SaveWrite, End, Kill, Reset
  <2>5. CASE UNCHANGED vars
    BY <2>5 DEF vars, dirVars, runVars
  <2> QED
    BY <1>1, <2>2, <2>3, <2>4, <2>5 DEF Run
<1>2. CASE Environment /\ ~TamperIndex
  <2>1. UNCHANGED <<pc, work>> /\ spent["live"] \in Nat
    BY <1>2, EnvStep, Constants DEF Touch, runVars, SpentType
  <2>2. ASSUME pc \in Reading, spent'["live"] = 0
        PROVE  /\ spent["live"] = 0
               /\ \A f \in Files : file'[f] # None =>
                    file[f] # None /\ file'[f].mtime = file[f].mtime
    BY <1>2, <2>2, LiveStep
  <2>3. pc \in Reading => work.name \in Files
    BY DEF RunType, Works
  <2> QED
    BY <2>1, <2>2, <2>3
<1>3. CASE TamperIndex
  BY <1>3 DEF TamperIndex, RunType
<1> QED
  BY <1>1, <1>2, <1>3 DEF Next, Idle

\* With one rewrite during runs, calcFile meets at most one.
LEMMA OneRewrite ==
  ASSUME TypeInv, TimeInv, LiveInv, [Next]_vars, Budget["live"] <= 1
  PROVE  RewrittenOnce
<1> SUFFICES ASSUME pc \in Reading, file[work.name] # None, file'[work.name] # None,
                    file'[work.name].mtime # file[work.name].mtime
             PROVE  work.pass = 1 /\ file[work.name].mtime = work.mtime
  BY DEF RewrittenOnce
<1>1. pc # "idle" /\ work.name \in Files
  BY DEF TypeInv, RunType, Works, Reading
<1>2. file' # file
  OBVIOUS
<1>3. Environment /\ ~TamperIndex
  BY <1>2, RunStep DEF Next, Idle, TypeInv, TamperIndex, dirVars
<1>4. Spend("live")
  BY <1>1, <1>3, LiveStep DEF TypeInv
<1>5. spent["live"] = 0
  <2>1. spent["live"] \in Nat /\ Budget["live"] \in Nat
    BY Constants DEF TypeInv, SpentType
  <2>2. spent["live"] < Budget["live"]
    BY <1>4 DEF Spend
  <2> QED
    BY <2>1, <2>2
<1> QED
  BY <1>5 DEF LiveInv

-----------------------------------------------------------------------------
(* The theorems on hashes and damage                                       *)

\* The invariant of both theorems.
Matching == Reports /\ MatchInv /\ DamageInv

LEMMA MatchingInit ==
  ASSUME Init
  PROVE  Matching /\ LiveInv
<1>1. MatchInv /\ DamageInv /\ LiveInv
  BY InitFacts DEF MatchInv, DamageInv, LiveInv, Matches, WorkMatches, NoEntries,
                   NoFalseDamage, Calculating,
                   Reading
<1> QED
  BY <1>1, ReportsInit DEF Matching

LEMMA MatchingNext ==
  ASSUME Matching, [Next]_vars, SizesChange, RewrittenOnce \/ UNCHANGED vars
  PROVE  Matching'
BY ReportsNext, MatchNext, DamageNext DEF Matching, Reports

LEMMA MatchingImplies ==
  ASSUME Matching
  PROVE  HashMatchesMtime /\ NoFalseDamage
BY DEF Matching, MatchInv, DamageInv, HashMatchesMtime, Matches, Has

\* As long as a rewrite during a run changes the size of the file, and calcFile meets at
\* most one rewrite of each file, the index never pairs the time of one version with the
\* hash of another, for any number of files, runs and rewrites.
THEOREM HashesMatch ==
  SizesChange => (Spec /\ [][RewrittenOnce]_vars => []HashMatchesMtime)
<1> SUFFICES ASSUME SizesChange
             PROVE  Spec /\ [][RewrittenOnce]_vars => []HashMatchesMtime
  OBVIOUS
<1>1. Init => Matching
  BY MatchingInit
<1>2. Matching /\ [Next]_vars /\ [RewrittenOnce]_vars => Matching'
  BY MatchingNext
<1>3. Matching => HashMatchesMtime
  BY MatchingImplies
<1> QED
  BY <1>1, <1>2, <1>3, PTL DEF Spec

\* Under the same two conditions DMG is only reported for files whose content was damaged.
THEOREM DamageIsReal ==
  SizesChange => (Spec /\ [][RewrittenOnce]_vars => []NoFalseDamage)
<1> SUFFICES ASSUME SizesChange
             PROVE  Spec /\ [][RewrittenOnce]_vars => []NoFalseDamage
  OBVIOUS
<1>1. Init => Matching
  BY MatchingInit
<1>2. Matching /\ [Next]_vars /\ [RewrittenOnce]_vars => Matching'
  BY MatchingNext
<1>3. Matching => NoFalseDamage
  BY MatchingImplies
<1> QED
  BY <1>1, <1>2, <1>3, PTL DEF Spec

\* A single rewrite during the runs meets the second condition, as in the runs TLC checks.
THEOREM OneRewriteIsSafe ==
  SizesChange /\ Budget["live"] <= 1 => (Spec => [](HashMatchesMtime /\ NoFalseDamage))
<1> SUFFICES ASSUME SizesChange, Budget["live"] <= 1
             PROVE  Spec => [](HashMatchesMtime /\ NoFalseDamage)
  OBVIOUS
<1>1. Init => Matching /\ LiveInv
  BY MatchingInit
<1>2. Matching /\ LiveInv /\ [Next]_vars => (Matching /\ LiveInv)'
  BY MatchingNext, OneRewrite, LiveNext DEF Matching, Reports
<1>3. Matching => HashMatchesMtime /\ NoFalseDamage
  BY MatchingImplies
<1> QED
  BY <1>1, <1>2, <1>3, PTL DEF Spec

=============================================================================
