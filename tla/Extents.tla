------------------------------- MODULE Extents -------------------------------
(***************************************************************************)
(* DeduplicateFiles on Linux: the destination is made to share the extents *)
(* of the source, one range at a time.  The extents of a file are read     *)
(* with several calls of FIEMAP, those of the source once, those of the    *)
(* destination before every range, while other programs change the files.  *)
(*                                                                         *)
(* A block of the file system is Block units long and sizes and offsets    *)
(* are counted in units, so that a file may end within a block.  External: *)
(* the kernel.  FIEMAP gives the extents that overlap a range, a page at a *)
(* time; FIDEDUPERANGE refuses a range beyond the end of a file, answers   *)
(* "differs", or shares equal blocks from the start of the range and says  *)
(* how far it came, where a part of a block is shared only if both files   *)
(* end there.                                                              *)
(***************************************************************************)
EXTENDS Integers, Sequences, SequencesExt

CONSTANTS
  Blocks,      \* bound: blocks of a file
  Block,       \* units of a block
  Sizes,       \* the sizes a file may have
  PageSize,    \* extentCount: the extents one FIEMAP can answer
  Word,        \* bound: the unsigned integers are modulo Word
  Faults,      \* the calls that may fail
  MaxChanges,  \* bound: changes made by others
  Hole, None   \* no block; no list, no status

BlockNo == 0..Blocks - 1
\* Where FIEMAP says that a block lies, in blocks.  Data kept within the metadata
\* has no place of its own: whichever file has it, it is reported at 0.
Inline == 0
Place == 0..(MaxChanges + 2) * (Blocks + 1)
File == {"src", "dst"}

ASSUME ExtentsAssumption ==
  /\ {Blocks, Block, PageSize} \subseteq Nat \ {0} /\ MaxChanges \in Nat
  /\ Sizes \subseteq 0..Blocks * Block /\ Sizes # {}
  /\ Word \in Nat /\ Word > 2 * Blocks * Block
  /\ Hole \notin Place /\ None \notin Place
  /\ Faults \subseteq {"fiemap", "ioctl", "status"}

VARIABLES
  (* the files *)
  place,     \* place[f][b]: where FIEMAP says block b of f lies, or Hole
  cut,       \* cut[f]: the blocks that begin an extent although the place goes on
  size,      \* size[f]
  differs,   \* the blocks in which the files differ
  (* DeduplicateFiles *)
  pc,
  lsize,     \* lsize[f]: the size f had when its list was begun
  start,     \* getFileExtentsFp: where the next page starts
  el,        \* el[f]: the list of extents read for f, or read so far
  offs, reclaimed,
  done,      \* Bytes_deduped of the last answer, or None
  (* history and bounds *)
  old,       \* the files when it began
  stale,     \* the files changed since their list was begun
  changed,   \* the blocks changed since it began
  changes

files == <<place, cut, size, differs>>
history == <<old, stale, changed>>
vars == <<files, pc, lsize, start, el, offs, reclaimed, done, history, changes>>

\* the blocks of a file of size n
Used(n) == {b \in BlockNo : b * Block < n}

-----------------------------------------------------------------------------
(* Extents                                                                 *)

\* the blocks that begin an extent
Begins(pl, c) ==
  {b \in BlockNo :
     /\ pl[b] # Hole
     /\ b = 0 \/ b \in c \/ pl[b - 1] = Hole \/ pl[b] # pl[b - 1] + 1}

\* the extent that begins with block b
Ending(pl, c, b) ==
  Min({e \in b + 1..Blocks : e = Blocks \/ pl[e] = Hole \/ e \in Begins(pl, c)})
Extent(pl, c, b) ==
  [logical |-> b * Block, physical |-> pl[b] * Block,
   length |-> (Ending(pl, c, b) - b) * Block]

\* numbers in their order
InOrder(S) ==
  CHOOSE s \in [1..Cardinality(S) -> S] : \A i, j \in DOMAIN s : i < j => s[i] < s[j]

\* the extents of a file in their order
ExtentsOf(pl, c) ==
  LET s == InOrder(Begins(pl, c)) IN [i \in DOMAIN s |-> Extent(pl, c, s[i])]
Now(f) == ExtentsOf(place[f], cut[f])

\* (mutant) the length is not compared
MatchesPlace(a, b) == a.logical = b.logical /\ a.physical = b.physical

\* fiemapExtent.matches
Matches(a, b) == a.logical = b.logical /\ a.physical = b.physical /\ a.length = b.length

\* zero blocks can't match
ExtentsMatch(l1, l2) ==
  l1 # <<>> /\ Len(l1) = Len(l2) /\ \A i \in DOMAIN l1 : Matches(l1[i], l2[i])

\* FileExtentList.find: the extent that begins at the offset
Find(list, o) == {e \in ToSet(list) : e.logical = o}

-----------------------------------------------------------------------------
(* The files                                                               *)

Snapshot == [place |-> place, cut |-> cut]

\* The source lies in one piece but for its cuts and a hole, the destination
\* shares some of its blocks.  A file may have blocks beyond its end.
Init ==
  /\ size \in [File -> Sizes]
  /\ \/ \E hole \in {{}} \cup {{b} : b \in BlockNo} :
          /\ \E own \in SUBSET BlockNo :
               place = [f \in File |-> [b \in BlockNo |->
                          IF b \in hole THEN Hole
                          ELSE IF f = "dst" /\ b \in own THEN Blocks + b + 1 ELSE b + 1]]
          /\ cut \in [File -> SUBSET (BlockNo \ {0})]
     \/ /\ size["src"] < Block /\ size["dst"] < Block
        /\ place = [f \in File |-> [b \in BlockNo |-> IF b = 0 THEN Inline ELSE Hole]]
        /\ cut = [f \in File |-> {}]
  /\ differs = {}
  /\ pc = "stat" /\ lsize = [f \in File |-> 0] /\ start = 0 /\ el = [f \in File |-> <<>>]
  /\ offs = 0 /\ reclaimed = 0 /\ done = None
  /\ old = Snapshot /\ stale = {} /\ changed = {} /\ changes = 0

\* Another program writes a block of f, which then lies in a free place, moves f
\* to one extent, or empties it.
Change(f) ==
  LET free(b) == (changes + 2) * (Blocks + 1) + b IN
  /\ pc \notin {"ok", "failed", "unsupported"} /\ changes < MaxChanges /\ changes' = changes + 1
  /\ \/ \E b \in Used(size[f]) :
          /\ place' = [place EXCEPT ![f][b] = free(b)]
          /\ differs' = differs \cup {b} /\ changed' = changed \cup {b}
          /\ UNCHANGED <<size, cut>>
     \/ /\ place' = [place EXCEPT ![f] = [b \in BlockNo |-> IF @[b] = Hole THEN Hole ELSE free(b)]]
        /\ cut' = [cut EXCEPT ![f] = {}] /\ changed' = BlockNo
        /\ UNCHANGED <<size, differs>>
     \/ /\ size[f] # 0 /\ size' = [size EXCEPT ![f] = 0]
        /\ place' = [place EXCEPT ![f] = [b \in BlockNo |-> Hole]]
        /\ changed' = BlockNo /\ UNCHANGED <<differs, cut>>
  /\ stale' = stale \cup {f}
  /\ UNCHANGED <<pc, lsize, start, el, offs, reclaimed, done, old>>

-----------------------------------------------------------------------------
(* getFileExtentsFp                                                        *)

\* the file whose extents are read: the source first
Listed == IF pc \in {"stat", "page"} THEN "src" ELSE "dst"

Fail == pc' = "failed"

\* file.Stat
Stat ==
  /\ pc \in {"stat", "stat2"} /\ pc' = (IF pc = "stat" THEN "page" ELSE "page2")
  /\ lsize' = [lsize EXCEPT ![Listed] = size[Listed]] /\ start' = 0 /\ el' = [el EXCEPT ![Listed] = <<>>]
  /\ stale' = stale \ {Listed}
  /\ UNCHANGED <<files, offs, reclaimed, done, old, changed, changes>>

\* FIEMAP, for the range of length n at start: the first of the extents that
\* overlap it
Answer(f, n) ==
  LET all == Now(f)
      hits == {i \in DOMAIN all : /\ all[i].logical + all[i].length > start
                                  /\ all[i].logical < start + n}
  IN IF hits = {} THEN <<>>
     ELSE SubSeq(all, Min(hits), Max({i \in hits : i < Min(hits) + PageSize}))

\* the flag FIEMAP_EXTENT_LAST
IsLast(f, e) == Last(Now(f)) = e

\* (mutant) the next page starts after as many bytes as the last extent has
NextStartLength(e) == e.length

NextStart(e) == e.logical + e.length

\* the list is complete
Read == pc' = IF pc = "page" THEN "loop" ELSE "range"

\* ioctlFileMap for the next page, with what is left of the size, an unsigned
\* number: an extent beyond the end lets it wrap
Page ==
  LET f == Listed
      n == (lsize[f] - start) % Word
      part == Answer(f, n)
  IN
  /\ pc \in {"page", "page2"}
  /\ \/ "fiemap" \in Faults /\ Fail /\ UNCHANGED <<el, start>>
     \/ n = 0 /\ Read /\ UNCHANGED <<el, start>>
     \/ n # 0 /\ part = <<>> /\ Read /\ UNCHANGED <<el, start>>
     \/ /\ n # 0 /\ part # <<>> /\ part[1].logical < start   \* invalid order
        /\ Fail /\ UNCHANGED <<el, start>>
     \/ /\ n # 0 /\ part # <<>> /\ part[1].logical >= start
        /\ el' = [el EXCEPT ![f] = @ \o part]
        /\ IF IsLast(f, Last(part)) THEN Read /\ UNCHANGED start
           ELSE start' = NextStart(Last(part)) /\ UNCHANGED pc
  /\ UNCHANGED <<files, lsize, offs, reclaimed, done, history, changes>>

-----------------------------------------------------------------------------
(* DeduplicateFiles                                                        *)

\* the size of the source is the one it had when its list was read
Loop ==
  /\ pc = "loop" /\ pc' = (IF offs >= lsize["src"] THEN "ok" ELSE "stat2")
  /\ UNCHANGED <<files, lsize, start, el, offs, reclaimed, done, history, changes>>

\* the extents that begin at the offset in both files
E1 == Find(el["src"], offs)
E2 == Find(el["dst"], offs)

\* (mutant) the place is taken for the offset
AfterPhysical(a) == a.physical + a.length

\* (mutant) the offset stays
AfterStays(a) == offs

\* (mutant) one block of the extent is passed over
AfterBlock(a) == offs + Block

\* where an extent that is passed over ends
After(a) == offs + a.length

\* both are one extent already: it is passed over
Skip ==
  /\ pc = "range" /\ pc' = "loop"
  /\ \E a \in E1, b \in E2 : Matches(a, b) /\ offs' = After(a)
  /\ UNCHANGED <<files, lsize, start, el, reclaimed, done, history, changes>>

\* otherwise the range to share goes to the end of the shorter extent, or, where
\* the source has no extent that begins here, of the source
RangeLength ==
  LET rest == lsize["src"] - offs
      ends == {rest} \cup {a.length : a \in E1}
                    \cup {b.length : b \in {x \in E2 : E1 # {}}}
  IN Min(ends)

\* FIDEDUPERANGE shares n units of a range of length len.  Blocks are shared as a
\* whole: what is left of the last one only if both files end with it.
Aligned(n) == \E b \in 0..Blocks : n = b * Block
CanShare(n, len) ==
  /\ \A b \in BlockNo : offs < b * Block + Block /\ b * Block < offs + n => b \notin differs
  /\ \/ Aligned(n) /\ (n > 0 \/ len < Block)
     \/ n = len /\ offs + n = size["src"] /\ offs + n = size["dst"]

Shared(n) ==
  place' = [place EXCEPT !["dst"] = [b \in BlockNo |->
              IF offs <= b * Block /\ b * Block < offs + n THEN place["src"][b]
              ELSE place["dst"][b]]]

\* (mutant) only the last answer is counted
ReclaimedLast(n) == n

Reclaimed(n) == reclaimed + n

\* The range is shared as far as the kernel comes, and the next one starts there.
Dedupe ==
  LET len == RangeLength IN
  /\ pc = "range" /\ ~\E a \in E1, b \in E2 : Matches(a, b)
  /\ \A f \in File : offs + len <= size[f]
  /\ \E n \in 0..len :
       /\ CanShare(n, len) /\ Shared(n)
       /\ done' = n /\ reclaimed' = Reclaimed(n) /\ offs' = offs + n
       /\ pc' = IF offs' = lsize["src"] THEN "ok" ELSE "loop"
  /\ UNCHANGED <<cut, size, differs, lsize, start, el, history, changes>>

\* The ioctl fails, or it answers with an error or that the range differs.
DedupeError ==
  LET len == RangeLength IN
  /\ pc = "range" /\ ~\E a \in E1, b \in E2 : Matches(a, b)
  /\ \/ ("ioctl" \in Faults \/ \E f \in File : offs + len > size[f]) /\ Fail
     \/ "status" \in Faults /\ pc' \in {"failed", "unsupported"}
     \/ /\ \E b \in differs : offs < b * Block + Block /\ b * Block < offs + len
        /\ Fail
  /\ UNCHANGED <<files, lsize, start, el, offs, reclaimed, done, history, changes>>

Deduplicate == Stat \/ Page \/ Loop \/ Skip \/ Dedupe \/ DedupeError

\* it has returned
Returned == pc \in {"ok", "failed", "unsupported"} /\ UNCHANGED vars

Next == Deduplicate \/ (\E f \in File : Change(f)) \/ Returned

Spec == Init /\ [][Next]_vars /\ WF_vars(Deduplicate)

-----------------------------------------------------------------------------
(* Properties                                                              *)

\* The types of all variables.
ExtentRecord == [logical : Nat, physical : Nat, length : Nat]
TypeOK ==
  /\ place \in [File -> [BlockNo -> Place \cup {Hole}]]
  /\ cut \in [File -> SUBSET BlockNo] /\ size \in [File -> Sizes \cup {0}]
  /\ differs \subseteq BlockNo /\ changed \subseteq BlockNo /\ stale \subseteq File
  /\ pc \in {"stat", "page", "loop", "stat2", "page2", "range", "ok", "failed", "unsupported"}
  /\ lsize \in [File -> Sizes \cup {0}] /\ start \in 0..Blocks * Block
  /\ offs \in 0..Blocks * Block /\ reclaimed \in 0..Blocks * Block
  /\ done \in Nat \cup {None} /\ el \in [File -> Seq(ExtentRecord)] /\ changes \in 0..MaxChanges
  /\ old \in [place : [File -> [BlockNo -> Place \cup {Hole}]], cut : [File -> SUBSET BlockNo]]

\* A list that was read, in as many pages as it takes, is the one of the file
\* unless the file was changed since: every extent that begins within the file,
\* once and in order.
ListsComplete ==
  \A f \in File :
    f \notin stale /\ pc \in (IF f = "dst" THEN {"range"}
                           ELSE {"loop", "stat2", "page2", "range", "ok"}) =>
      /\ IsPrefix(el[f], Now(f))
      /\ \A e \in ToSet(Now(f)) : e.logical < size[f] => e \in ToSet(el[f])

\* The files share a block: both have it in the same place, or both have a hole
\* there.  What is within the metadata belongs to one file and is never shared,
\* though both are reported at 0.
Share(pl, b) == pl["src"][b] = pl["dst"][b] /\ pl["src"][b] # Inline

\* DeduplicateFiles returns without an error only if the files share every block
\* of the source that nobody changed meanwhile, though the list of the source is
\* read only once.  The exception is a source within the metadata, which cannot be
\* shared: the code takes two of these for the same extent and returns without an
\* error.
SuccessShares ==
  pc = "ok" =>
    \A b \in Used(lsize["src"]) \ changed : place["src"][b] # Inline => Share(place, b)

\* the units of the source in blocks the files share and did not share before
NewlyShared ==
  {u \in 0..lsize["src"] - 1 :
     \E b \in BlockNo : /\ b * Block <= u /\ u < b * Block + Block
                        /\ ~Share(old.place, b) /\ Share(place, b)}

\* What it reports as reclaimed is never more than what it has gone through, and,
\* if nobody changed the files meanwhile, never less than what it made them share.
ReclaimedCovers ==
  /\ changed = {} => Cardinality(NewlyShared) <= reclaimed
  /\ reclaimed <= offs /\ reclaimed <= lsize["src"]

\* For files that already match, without a hole, nothing is reclaimed.
MatchReclaimsNothing ==
  /\ changed = {}
  /\ ExtentsMatch(ExtentsOf(old.place["src"], old.cut["src"]),
                  ExtentsOf(old.place["dst"], old.cut["dst"]))
  /\ \A b \in BlockNo : old.place["src"][b] # Hole
  => reclaimed = 0

\* It comes to an end unless the kernel answers again and again that it shared
\* nothing, without an error.
Terminates == <>(pc \in {"ok", "failed", "unsupported"}) \/ <>[](done = 0)
=============================================================================
