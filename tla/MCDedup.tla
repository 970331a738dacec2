------------------------------- MODULE MCDedup -------------------------------
(***************************************************************************)
(* Instances of Dedup for TLC: all files have the same hash.               *)
(***************************************************************************)
EXTENDS Dedup, TLC

OneBag == [f \in Files |-> "h"]
Sym == Permutations(Files)
=============================================================================
