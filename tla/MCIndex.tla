------------------------------ MODULE MCIndex ------------------------------
(***************************************************************************)
(* Instances of Index for TLC: files of one or two blocks, and the command *)
(* lines each question needs.                                              *)
(***************************************************************************)
EXTENDS Index, TLC

\* the subdirectories are interchangeable
SubSymmetry == Permutations(Subs)

ThreeContents == {<<"x">>, <<"y">>, <<"x", "y">>}
TwoSizes == {<<"x">>, <<"x", "y">>}
SameSize == {<<"x">>, <<"y">>}

Check == [update |-> FALSE, skipCheck |-> FALSE, force |-> FALSE,
          keepMissing |-> FALSE, logDeleted |-> FALSE, trackDirs |-> TRUE,
          showIgnored |-> FALSE, algo |-> "blake3"]
Update == [Check EXCEPT !.update = TRUE]
AddOnly == [Update EXCEPT !.skipCheck = TRUE]
Force == [Update EXCEPT !.force = TRUE]
Keep == [Update EXCEPT !.keepMissing = TRUE]
LogDeleted == [Update EXCEPT !.logDeleted = TRUE]
NoDirs == [Update EXCEPT !.trackDirs = FALSE]
ShowIgnored == [Check EXCEPT !.showIgnored = TRUE]

Everything == {Check, Update, AddOnly, Force, Keep, LogDeleted, NoDirs,
               ShowIgnored}
OnlyLogDeleted == {LogDeleted}
CheckAndUpdate == {Check, Update}

\* bounds: each kind of event, and the events other than runs together
Bounds(runs, total, each) ==
  [k \in Event |-> IF k = "run" THEN runs ELSE IF k = "total" THEN total ELSE each]
Three == [Bounds(3, 3, 1) EXCEPT !["mkdir"] = 2]
OneLive == Bounds(1, 1, 1)
Two == Bounds(2, 2, 1)

\* rewrites that change the size, and all of them
SizeChanging == {p \in Contents \X Contents : Len(p[1]) # Len(p[2])}
AnyRewrite == Contents \X Contents
NoRewrite == {}
=============================================================================
