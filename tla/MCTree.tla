------------------------------- MODULE MCTree -------------------------------
(***************************************************************************)
(* An instance of Tree for TLC:                                            *)
(*                                                                         *)
(*        /data          /data2                                            *)
(*         /   \                                                           *)
(*        a    .h                                                          *)
(*        |                                                                *)
(*        c                                                                *)
(***************************************************************************)
EXTENDS Tree

TheDirs == {"r", "a", "c", "h", "s"}
TheAbove == [d \in TheDirs |-> CASE d \in {"a", "h"} -> "r" [] d = "c" -> "a" [] OTHER -> None]
TheName == [d \in TheDirs |-> CASE d = "r" -> "data" [] d = "s" -> "data2"
                                [] d = "h" -> ".h" [] OTHER -> d]
TheLooks == {<<"r", "s">>}

Line(anchored, pattern) == [anchored |-> anchored, pattern |-> pattern]
Book(inR, inA, global) ==
  [d \in TheDirs \cup {Global} |->
     CASE d = "r" -> inR [] d = "a" -> inA [] d = Global -> global [] OTHER -> {}]
\* "/c", "a/*" or "/a" in r, and "data/a", "/a" and "c" for all
TheRuleBooks ==
  {Book({}, {}, {}),
   Book({Line(TRUE, <<"c">>)}, {}, {Line(FALSE, <<"data", "a">>)}),
   Book({Line(FALSE, <<"a", Star>>)}, {}, {Line(TRUE, <<"a">>), Line(FALSE, <<"c">>)}),
   Book({Line(TRUE, <<"a">>)}, Bad, {})}

TheMarkers ==
  {[atom |-> {"r"}, split |-> {}, gone |-> {}], [atom |-> {"r"}, split |-> {}, gone |-> {"c"}],
   [atom |-> {"a"}, split |-> {"r"}, gone |-> {}], [atom |-> {"r", "a"}, split |-> {"c"}, gone |-> {}]}

Run(kind, starts, depth, dot) == [kind |-> kind, starts |-> starts, depth |-> depth, dot |-> dot]
Make(kind, path, force) == [kind |-> kind, path |-> path, force |-> force]
TheCommands ==
  {Run("update", s, 0, FALSE) : s \in {<<"r">>, <<"a">>, <<"a", "r">>, <<"r", "s">>}}
  \cup {Run("update", <<"r">>, 2, TRUE), Run("check", <<"r">>, 0, TRUE), Run("check", <<"c">>, 1, FALSE)}
  \cup {Make("fuse", "r", TRUE), Make("split", "a", FALSE), Make("atom", "a", TRUE)}
=============================================================================
