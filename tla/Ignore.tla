------------------------------- MODULE Ignore -------------------------------
(***************************************************************************)
(* The ignore rules.  A path is a sequence of names, and so is a pattern,  *)
(* where Star stands for any one name: path.Match never matches a "/" by a *)
(* wildcard, so a pattern and the path it matches have as many names.      *)
(*                                                                         *)
(* A chain is what the parentIgnore fields link: the levels from the       *)
(* directory itself up to the one the walk started at, then that of the    *)
(* global ignore file.  A level has the name of its directory and the      *)
(* items of its ignore file.                                               *)
(***************************************************************************)
EXTENDS Naturals, Sequences, SequencesExt

CONSTANTS
  Star,      \* a wildcard that matches any one name
  DotNames,  \* names that begin with a dot
  OwnNames   \* those of them isChkbitFile knows

Match(pattern, path) ==
  Len(pattern) = Len(path) /\ \A i \in DOMAIN path : pattern[i] \in {Star, path[i]}

\* One level of shouldIgnore2.  The full name is empty at the first one, where an
\* item with a leading "/" counts, which it does nowhere else.
LevelHits(level, name, full) ==
  \E item \in level.items :
    /\ item.anchored => full = <<>>
    /\ \/ Match(item.pattern, <<name>>)
       \/ full # <<>> /\ Match(item.pattern, full)

\* (mutant) the next level gets the full name without that of this level
FullNameStays(level, name, full) == IF full = <<>> THEN <<name>> ELSE full

\* the full name the level above is asked for
FullName(level, name, full) ==
  <<level.name>> \o (IF full = <<>> THEN <<name>> ELSE full)

\* Ignore.shouldIgnore, with shouldIgnore2 from level to level
ShouldIgnore(chain, name, includeDot) ==
  LET full[i \in DOMAIN chain] ==
        IF i = 1 THEN <<>> ELSE FullName(chain[i - 1], name, full[i - 1])
  IN \/ name \in OwnNames
     \/ ~includeDot /\ name \in DotNames
     \/ \E i \in DOMAIN chain : LevelHits(chain[i], name, full[i])

\* What the rules mean: a line names an entry of the directory of its file or,
\* without a leading "/", one anywhere below, or a path from there.
IsMeant(chain, name, includeDot) ==
  LET path(i) == [j \in 1..i |-> IF j = i THEN name ELSE chain[i - j].name]
      below(i) == <<name>> # path(i)
  IN \/ name \in OwnNames \cup (IF includeDot THEN {} ELSE DotNames)
     \/ \E i \in DOMAIN chain : \E item \in chain[i].items :
          \/ Match(item.pattern, <<name>>) /\ (item.anchored => ~below(i))
          \/ below(i) /\ ~item.anchored /\ Match(item.pattern, path(i))
=============================================================================
