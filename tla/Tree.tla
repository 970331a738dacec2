-------------------------------- MODULE Tree --------------------------------
(***************************************************************************)
(* What the commands do to the indexes of a tree of directories, one       *)
(* command after the other: where LocateIndex finds the index, what the    *)
(* walk of check and update reaches, what is stored in which index, and    *)
(* what init and fuse make of the indexes that are there.                  *)
(*                                                                         *)
(* A command is one step: the goroutines, the index of one directory and   *)
(* the store, which Process, Index and AtomStore model step by step, are   *)
(* here what they come to: a version of the files of a directory, compared *)
(* with the version its index was made for.  Between the commands the tree *)
(* and the ignore files change.                                            *)
(***************************************************************************)
EXTENDS Ignore, FiniteSets

CONSTANTS
  Dirs,         \* the directories that may exist
  Above,        \* Above[d]: the directory d is in, or None below "/"
  Name,         \* Name[d]: the last name of the path of d
  Looks,        \* pairs <<x, d>>: the text of the path of d begins with that of
                \* x, although d is not below x
  RuleBooks,    \* the ignore files, functions from the
                \* directories and Global to sets of items, or Bad
  Markers,      \* what there is at first: records of three sets, the directories
                \* with an empty index, atom or split, and those that are gone
  Commands,     \* the command lines: records, see Command
  MaxCommands, MaxEvents,  \* bounds: commands; changes of the tree between them and
                           \* split indexes that cannot be written, taken together
  Global, Dot,  \* the global ignore file; the name of the path "."
  None, Bad     \* no directory, index or entry; an index that does not parse

Version == 1..1 + MaxEvents
\* An empty index has version 0.
Entry == Version \cup {0, None}
Names == {Name[d] : d \in Dirs}
Item == [anchored : BOOLEAN, pattern : Seq(Names \cup {Star})]

Command ==
       [kind : {"check", "update"}, starts : Seq(Dirs), depth : Nat, dot : BOOLEAN]
  \cup [kind : {"atom", "split", "fuse"}, path : Dirs, force : BOOLEAN]

\* What a command did, see Ended.
Outcome ==
  [cmd : Commands, index : [mode : {"atom", "split", None}, at : Dirs \cup {None}],
   exit : 0..1, whole : BOOLEAN, walked : SUBSET Dirs, reported : SUBSET Dirs]

\* The directories are finite trees: of any of them one is highest and one lowest.
ASSUME TreeAssumption ==
  /\ IsFiniteSet(Dirs) /\ Above \in [Dirs -> Dirs \cup {None}] /\ DOMAIN Name = Dirs
  /\ \A S \in (SUBSET Dirs) \ {{}} : /\ \E d \in S : Above[d] \notin S
                                     /\ \E d \in S : \A k \in S : Above[k] # d
  /\ Looks \subseteq Dirs \X Dirs
  /\ \A book \in RuleBooks : \A d \in Dirs \cup {Global} :
       book[d] = Bad \/ \A item \in book[d] : item \in Item
  /\ Commands \subseteq Command /\ \A c \in Commands : "starts" \in DOMAIN c => c.starts # <<>>
  /\ {MaxCommands, MaxEvents} \subseteq Nat
  /\ {None, Bad} \cap (Dirs \cup Nat) = {} /\ None # Bad /\ Global \notin Dirs
  /\ None \notin {"atom", "split"} \cup Outcome \cup [Dirs -> Entry]

VARIABLES
  (* the tree *)
  there, unreadable,  \* directories that exist, that ReadDir fails for
  rules,              \* rules[d]: the items of the ignore file in d, or Bad
  version,            \* version[d]: of the files in d
  (* the indexes *)
  atom,               \* atom[d]: the entries of the atom index in d, or None
  split,              \* split[d]: the index in d, Bad or None
  (* history and bounds *)
  last,               \* the last command and what it did; None after an event
  commands, events

tree == <<there, unreadable, rules, version>>
indexes == <<atom, split>>
vars == <<tree, indexes, last, commands, events>>

NoEntries == [d \in Dirs |-> None]
Kids(d) == {k \in there : Above[k] = d}

\* the directories from the top of the tree down to d, and from x down to d
Path[d \in Dirs] == IF Above[d] = None THEN <<d>> ELSE Append(Path[Above[d]], d)
IsBelow(x, d) == x \in ToSet(Path[d])
Trail(x, d) == SubSeq(Path[d], Len(Path[x]), Len(Path[d]))
Trails == {Trail(p[1], p[2]) : p \in {q \in Dirs \X Dirs : IsBelow(q[1], q[2])}}

Init ==
  /\ unreadable = {} /\ rules \in RuleBooks
  /\ version = [d \in Dirs |-> 1]
  /\ \E m \in Markers :
       /\ there = Dirs \ m.gone
       /\ atom = [d \in Dirs |-> IF d \in m.atom THEN NoEntries ELSE None]
       /\ split = [d \in Dirs |-> IF d \in m.split THEN 0 ELSE None]
  /\ last = None /\ commands = 0 /\ events = 0

-----------------------------------------------------------------------------
(* Which index                                                             *)

NoIndex == [mode |-> None, at |-> None]

\* LocateIndex: from the directory upwards, at each level the atom index first
Locate[d \in Dirs] ==
  CASE atom[d] # None -> [mode |-> "atom", at |-> d]
    [] atom[d] = None /\ split[d] # None -> [mode |-> "split", at |-> d]
    [] atom[d] = None /\ split[d] = None ->
         IF Above[d] = None THEN NoIndex ELSE Locate[Above[d]]

\* UseAtomIndexStore compares the texts of the paths.
BelowRoot(at, d) == IsBelow(at, d) \/ <<at, d>> \in Looks

\* (mutant) any single path rebuilds the database
RefreshesAny(cmd, at) == Len(cmd.starts) = 1

\* the database is rebuilt only if the one path is the directory of the index
Refreshes(cmd, at) == cmd.starts = <<at>>

\* what the index that was located says of d
Known(index, d) == IF index.mode = "atom" THEN atom[index.at][d] ELSE split[d]

-----------------------------------------------------------------------------
(* The walk                                                                *)

\* the items of an ignore file; one that cannot be read is reported and has none
Items(d) == IF rules[d] = Bad THEN {} ELSE rules[d]

\* The levels for the last directory of a trail.  With an atom index the paths are
\* relative to its directory, which is then named ".".
Chain(index, t) ==
  [i \in 1..Len(t) |->
     LET d == t[Len(t) + 1 - i] IN
     [items |-> Items(d),
      name |-> IF i = Len(t) /\ index = [mode |-> "atom", at |-> d] THEN Dot ELSE Name[d]]]
  \o <<[items |-> Items(Global), name |-> Dot]>>

Descends(cmd, t) == cmd.depth = 0 \/ Len(t) < cmd.depth

\* (mutant) a directory that is not there is taken for an empty one
CanReadGone(d) == d \notin unreadable

CanRead(d) == d \in there \ unreadable

\* scanDir for every path of the command line: the trails by which directories are
\* reached, read or not
Scanned(cmd, index) ==
  LET scanDir[t \in Trails] ==
        IF ~CanRead(Last(t)) \/ ~Descends(cmd, t) THEN {t}
        ELSE {t} \cup UNION {scanDir[Append(t, k)] :
               k \in {s \in Kids(Last(t)) : ~ShouldIgnore(Chain(index, t), Name[s], cmd.dot)}}
  IN UNION {scanDir[<<d>>] : d \in ToSet(cmd.starts)}

Reached(cmd, index) == {Last(t) : t \in Scanned(cmd, index)}
Walked(cmd, index) == {d \in Reached(cmd, index) : CanRead(d)}

-----------------------------------------------------------------------------
(* check and update                                                        *)

Begins(cmd, kinds) == commands < MaxCommands /\ cmd.kind \in kinds

\* the command is over
Ended(cmd, index, exit, whole, walked, reported) ==
  /\ commands' = commands + 1
  /\ last' = [cmd |-> cmd, index |-> index, exit |-> exit, whole |-> whole,
              walked |-> walked, reported |-> reported]
  /\ UNCHANGED tree

\* An error is reported for a directory or ignore file that cannot be read and for
\* an index that does not parse.
Errs(cmd, index, done) ==
  \/ \E d \in Reached(cmd, index) : ~CanRead(d)
  \/ \E d \in done : rules[d] = Bad \/ Known(index, d) = Bad

\* (mutant) in a rebuilt database, too, only what changed is saved
SavesChanged(index, refresh, d) == Known(index, d) # version[d]

\* Index.save: what changed, and everything if the database is rebuilt
Saves(index, refresh, d) == refresh \/ Known(index, d) # version[d]

\* (mutant) an entry that is there is not replaced
StoredOnce(at, refresh, saved) ==
  [d \in Dirs |-> IF ~refresh /\ atom[at][d] # None THEN atom[at][d]
                  ELSE IF d \in saved THEN version[d] ELSE None]

\* the entries after a run, in a new database if it is rebuilt
Stored(at, refresh, saved) ==
  [d \in Dirs |-> IF d \in saved THEN version[d]
                  ELSE IF refresh THEN None ELSE atom[at][d]]

\* runCmd goes on to Process.
Accepts(cmd, index) ==
  /\ index # NoIndex
  /\ index.mode = "atom" => \A d \in ToSet(cmd.starts) : BelowRoot(index.at, d)

\* no index, or a path that is not below that of the atom index
Refuse(cmd) ==
  /\ Begins(cmd, {"check", "update"}) /\ ~Accepts(cmd, Locate[cmd.starts[1]])
  /\ Ended(cmd, Locate[cmd.starts[1]], 1, FALSE, {}, {}) /\ UNCHANGED <<indexes, events>>

\* the split indexes of saved that may fail to be written
Failing(index, saved) ==
  {F \in SUBSET saved : Cardinality(F) <= IF index.mode = "split" THEN MaxEvents - events ELSE 0}

\* Save for split indexes.  os.WriteFile may fail before or after it has emptied the
\* file, and what is left of those that are lost does not parse.
SavedSplit(saved, failed, lost) ==
  split' = [d \in Dirs |-> IF d \in lost THEN Bad
                          ELSE IF d \in saved \ failed THEN version[d] ELSE split[d]]

\* One run over all that the walk reaches.  What fails to be saved is an error, and
\* the run goes on.  Finish installs the atom index if anything was saved; it may
\* fail, and is then taken to leave the old one.
Process(cmd) ==
  LET index == Locate[cmd.starts[1]]
      walked == Walked(cmd, index)
      changed == {d \in walked : Known(index, d) # version[d]}
      refresh == index.mode = "atom" /\ Refreshes(cmd, index.at)
      saved == {d \in walked : cmd.kind = "update" /\ Saves(index, refresh, d)}
  IN
  /\ Begins(cmd, {"check", "update"}) /\ Accepts(cmd, index)
  /\ \E finished \in BOOLEAN, failed \in Failing(index, saved) : \E lost \in SUBSET failed :
       /\ ~finished => index.mode = "atom" /\ saved # {}
       /\ Ended(cmd, index,
                IF finished /\ failed = {} /\ ~Errs(cmd, index, walked) THEN 0 ELSE 1, TRUE,
                walked, changed)
       /\ events' = events + Cardinality(failed)
       /\ IF index.mode = "split" THEN SavedSplit(saved, failed, lost) /\ UNCHANGED atom
          ELSE /\ atom' = IF finished /\ saved # {}
                 THEN [atom EXCEPT ![index.at] = Stored(index.at, refresh, saved)] ELSE atom
               /\ UNCHANGED split

\* An update is interrupted.  Some of the walk is done, where a directory is not
\* done before one that leads to it, and the atom index is not replaced.
Interrupt(cmd) ==
  LET index == Locate[cmd.starts[1]]
      walked == Walked(cmd, index)
  IN
  /\ Begins(cmd, {"update"}) /\ Accepts(cmd, index)
  /\ \E done \in IF index.mode = "split" THEN (SUBSET walked) \ {walked} ELSE {{}} :
     LET saved == {d \in done : Saves(index, FALSE, d)} IN
     \E failed \in Failing(index, saved), exit \in 0..1 : \E lost \in SUBSET failed :
       /\ \A d \in done : d \in ToSet(cmd.starts) \/ Above[d] \in done
       /\ failed # {} => exit = 1
       /\ exit = 1 => failed # {} \/ Errs(cmd, index, walked)
       /\ Ended(cmd, index, exit, FALSE, done, {})
       /\ events' = events + Cardinality(failed)
       /\ SavedSplit(saved, failed, lost) /\ UNCHANGED atom

-----------------------------------------------------------------------------
(* init and fuse                                                           *)

\* Whether the marker file can be made: InitializeIndexStore removes the one that
\* is there only when forced.
CanInit(marker, cmd) == cmd.path \in there /\ (marker[cmd.path] = None \/ cmd.force)

\* InitializeIndexStore, for the command init
InitIndex(cmd) ==
  /\ Begins(cmd, {"atom", "split"})
  /\ \/ cmd.kind = "atom" /\ CanInit(atom, cmd)
        /\ atom' = [atom EXCEPT ![cmd.path] = NoEntries] /\ UNCHANGED split
     \/ cmd.kind = "split" /\ CanInit(split, cmd)
        /\ split' = [split EXCEPT ![cmd.path] = 0] /\ UNCHANGED atom
  /\ Ended(cmd, NoIndex, 0, TRUE, {}, {}) /\ UNCHANGED events

\* InitializeIndexStore returns an error
RefuseInit(cmd) ==
  /\ Begins(cmd, {"atom", "split", "fuse"})
  /\ ~CanInit(IF cmd.kind = "split" THEN split ELSE atom, cmd)
  /\ Ended(cmd, NoIndex, 1, FALSE, {}, {}) /\ UNCHANGED <<indexes, events>>

\* What fuseScanDir finds in a directory: fuseAtom, or fuseSplit where there is no
\* atom index.  An index that does not parse is logged.  (What an atom index holds
\* of directories that are not below it is left out.)
IndexIn(d) ==
  [x \in Dirs |-> IF atom[d] # None THEN IF IsBelow(d, x) THEN atom[d][x] ELSE None
                  ELSE IF x = d /\ split[d] # Bad THEN split[d] ELSE None]

\* (mutant) what was saved first stays
SavedOverFirst(early, late) == [x \in Dirs |-> IF early[x] # None THEN early[x] ELSE late[x]]

\* what was saved, when more is saved over it
SavedOver(early, late) == [x \in Dirs |-> IF late[x] # None THEN late[x] ELSE early[x]]

\* what is saved if the entries found in each directory of D are, in any order
SavedAll(D, found) ==
  FoldSet(LAMBDA k, saved : SavedOver(saved, found[k]), NoEntries, D)

\* fuseScanDir: for each directory in this one its index, then what is below it,
\* whatever the ignore files say.  No entry is in two of them.
Fused(d) ==
  LET scan[x \in Dirs] ==
        IF ~CanRead(x) THEN NoEntries
        ELSE SavedAll(Kids(x), [k \in Kids(x) |-> SavedOver(IndexIn(k), scan[k])])
  IN scan[d]

\* FuseIndexStore: InitializeIndexStore, then the store is filled and installed,
\* or stays empty when that fails.  What was logged does not change the exit code.
Fuse(cmd) ==
  /\ Begins(cmd, {"fuse"}) /\ CanInit(atom, cmd)
  /\ \E finished \in BOOLEAN :
       /\ finished \/ Fused(cmd.path) # NoEntries
       /\ atom' = [atom EXCEPT ![cmd.path] = IF finished THEN Fused(cmd.path) ELSE NoEntries]
       /\ Ended(cmd, NoIndex, IF finished THEN 0 ELSE 1, finished, {}, {})
  /\ UNCHANGED <<split, events>>

-----------------------------------------------------------------------------
(* The tree changes                                                        *)

Happens ==
  /\ commands < MaxCommands /\ events < MaxEvents /\ events' = events + 1
  /\ last' = None /\ UNCHANGED commands

Touch(d) ==
  /\ Happens /\ d \in there /\ version' = [version EXCEPT ![d] = @ + 1]
  /\ UNCHANGED <<there, unreadable, rules, indexes>>

Chmod(d) ==
  /\ Happens /\ d \in there /\ d \notin unreadable /\ unreadable' = unreadable \cup {d}
  /\ UNCHANGED <<there, rules, version, indexes>>

\* with its indexes and what is below it
RemoveDir(d) ==
  LET gone == {x \in Dirs : IsBelow(d, x)} IN
  /\ Happens /\ d \in there /\ there' = there \ gone /\ unreadable' = unreadable \ gone
  /\ atom' = [x \in Dirs |-> IF x \in gone THEN None ELSE atom[x]]
  /\ split' = [x \in Dirs |-> IF x \in gone THEN None ELSE split[x]]
  /\ UNCHANGED <<rules, version>>

\* a new directory, or one that is copied back without its indexes
MakeDir(d) ==
  /\ Happens /\ d \notin there /\ (Above[d] = None \/ Above[d] \in there)
  /\ there' = there \cup {d} /\ UNCHANGED <<unreadable, rules, version, indexes>>

EditIgnore ==
  /\ Happens /\ rules' \in RuleBooks \ {rules}
  /\ UNCHANGED <<there, unreadable, version, indexes>>

Damage(d) ==
  /\ Happens /\ split[d] \notin {None, Bad} /\ split' = [split EXCEPT ![d] = Bad]
  /\ UNCHANGED <<tree, atom>>

Next ==
  \/ \E cmd \in Commands :
       \/ Refuse(cmd) \/ Process(cmd) \/ Interrupt(cmd)
       \/ InitIndex(cmd) \/ RefuseInit(cmd) \/ Fuse(cmd)
  \/ \E d \in Dirs : Touch(d) \/ Chmod(d) \/ RemoveDir(d) \/ MakeDir(d) \/ Damage(d)
  \/ EditIgnore

Spec == Init /\ [][Next]_vars

-----------------------------------------------------------------------------
(* Properties                                                              *)

TypeOK ==
  /\ there \subseteq Dirs /\ unreadable \subseteq there /\ rules \in RuleBooks
  /\ version \in [Dirs -> Version]
  /\ atom \in [Dirs -> [Dirs -> Entry] \cup {None}] /\ split \in [Dirs -> Entry \cup {Bad}]
  /\ last \in Outcome \cup {None}
  /\ last # None => last.walked \subseteq there /\ last.reported \subseteq last.walked
  /\ commands \in 0..MaxCommands /\ events \in 0..MaxEvents

IsRun == last # None /\ last.cmd.kind \in {"check", "update"} /\ last.index # NoIndex

\* whether every directory from x down to d can be read, and no rule of a directory on
\* the way, up to the one above, or of the index or for all ignores its name
IsOpen(cmd, index, x, d) ==
  /\ IsBelow(x, d)
  /\ \A y \in ToSet(Trail(x, d)) :
       /\ CanRead(y)
       /\ y # x => ~IsMeant(Chain(index, Trail(x, Above[y])), Name[y], cmd.dot)

\* the number of levels that d is below x
Levels(x, d) == Len(Trail(x, d)) - 1

\* What the help says check and update go through: "a directory only if it is N or
\* fewer levels below the specified path(s)"; and what is less than N levels below.
Documented(cmd, index) ==
  {d \in there : \E x \in ToSet(cmd.starts) :
     IsOpen(cmd, index, x, d) /\ (cmd.depth = 0 \/ Levels(x, d) <= cmd.depth)}
Nearer(cmd, index) ==
  {d \in there : \E x \in ToSet(cmd.starts) :
     IsOpen(cmd, index, x, d) /\ (cmd.depth = 0 \/ Levels(x, d) < cmd.depth)}

\* A whole run goes through no directory that the help does not name, and through all
\* it names but those N levels below (see WalkDocumented), also where it was started
\* below the ignore files of others, and by whatever path.
WalkComplete ==
  IsRun /\ last.whole =>
    /\ last.walked \subseteq Documented(last.cmd, last.index)
    /\ Nearer(last.cmd, last.index) \subseteq last.walked

\* A whole run goes through exactly what the help says, those N levels below included.
\* (The code does not: run counts the given path as depth 1, and scanDir goes on while
\* the depth is less than N.)
WalkDocumented ==
  IsRun /\ last.whole => last.walked = Documented(last.cmd, last.index)

\* whether the last command was an update that rebuilt the database in x
Rebuilt(x) ==
  /\ IsRun /\ last.cmd.kind = "update" /\ last.index = [mode |-> "atom", at |-> x]
  /\ last.cmd.starts = <<x>>

\* A command takes from an index the entry of a directory that exists only if it makes
\* that index anew by force, or reports an error and leaves a split index that does not
\* parse, or rebuilds an atom index by a walk that does not have to come there: by the
\* rules, an error, or because it is as many levels below as were asked for, or more.
IndexKept ==
  [][commands' # commands =>
     \A d \in there :
       /\ split[d] # None /\ split'[d] # split[d] =>
            \/ split'[d] = version[d]
            \/ split'[d] = Bad /\ d \in last'.walked /\ last'.exit = 1
            \/ last'.cmd.kind = "split" /\ last'.cmd.force
       /\ \A x \in Dirs : atom[x] # None =>
            /\ atom'[x] # None
            /\ atom[x][d] # None /\ atom'[x][d] = None =>
                 \/ last'.cmd.kind \in {"atom", "fuse"} /\ last'.cmd.force /\ last'.cmd.path = x
                 \/ Rebuilt(x)' /\ d \notin Nearer(last'.cmd, last'.index)]_vars

\* An update of a part of a tree changes nothing but the entries of what it went
\* through, in the one index it located, and a check or an update that was
\* interrupted changes no atom index.
OthersUntouched ==
  [][commands' # commands /\ IsRun' =>
     /\ last'.cmd.kind = "check" => UNCHANGED indexes
     /\ \A d \in Dirs : split'[d] # split[d] => last'.index.mode = "split" /\ d \in last'.walked
     /\ \A x \in Dirs : atom'[x] # atom[x] =>
          /\ last'.index = [mode |-> "atom", at |-> x] /\ last'.whole
          /\ \A d \in Dirs : atom'[x][d] # atom[x][d] => d \in last'.walked \/ Rebuilt(x)']_vars

\* After a whole update without an error a check of any part of it that locates the
\* same index reports nothing of what the update went through.
CheckAgrees ==
  [][/\ commands' # commands /\ IsRun /\ IsRun'
     /\ last.cmd.kind = "update" /\ last.whole /\ last.exit = 0
     /\ last'.index.mode = last.index.mode
     /\ last.index.mode = "atom" => last'.index = last.index
     => last'.reported \cap last.walked = {}]_vars

\* whether fuse comes to every directory between d and x
Comes(d, x) == \A y \in ToSet(Trail(d, x)) : CanRead(y)

\* Fuse takes for every directory below that of the new index the entry that check
\* and update would have used for it before.
FuseCollects ==
  [][commands' # commands /\ last'.cmd.kind = "fuse" /\ last'.exit = 0 =>
     LET d == last'.cmd.path
         below == {x \in Dirs \ {d} : IsBelow(d, x) /\ Comes(d, x)}
     IN \A x \in below :
          /\ Locate[x] # NoIndex /\ Locate[x].at \in below
          /\ Known(Locate[x], x) \notin {None, Bad}
          => atom'[d][x] = Known(Locate[x], x)]_vars
=============================================================================
