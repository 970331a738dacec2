----------------------------- MODULE MCProcess -----------------------------
(***************************************************************************)
(* An instance of Process for TLC.  The tree is                            *)
(*                                                                         *)
(*        a                                                                *)
(*       / \                                                               *)
(*      b   c                                                              *)
(*      |                                                                  *)
(*      d                                                                  *)
(*      |                                                                  *)
(*      e                                                                  *)
(*                                                                         *)
(* with a depth limit of 2, which d is at and e is beyond.  The channels   *)
(* have one place, so that every goroutine can find its channel full.      *)
(* What a directory may log is cut to the cases that differ for the        *)
(* properties.                                                             *)
(***************************************************************************)
EXTENDS Process

RootA == <<"a">>
FourLevels == [x \in Dirs |-> CASE x = "a" -> <<"b", "c">> [] x = "b" -> <<"d">>
                                 [] x = "d" -> <<"e">> [] OTHER -> <<>>]

None == {<<>>}
HashPerf == {<<"perf">>}
FixUpdates == {<<"upd">>}
SavedOrFailed == {<<"save", "xup">>, <<"PNC">>}

ASSUME PathsDisjoint
=============================================================================
