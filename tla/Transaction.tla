----------------------------- MODULE Transaction -----------------------------
(***************************************************************************)
(* What a run promises about an index kept in one file (atom mode): the    *)
(* directory indexes a run saves are installed together, at one moment, or *)
(* not at all, whenever the process is killed.  Only a run that reports an *)
(* error may install less than it saved.                                   *)
(***************************************************************************)
CONSTANTS Dirs, Version, None

VARIABLES
  installed,  \* installed[d]: the index of directory d, or None
  saved,      \* saved[d]: what the active run saved for d, or None
  run,        \* kind of the active run, or None
  failed      \* whether the run has reported an error

vars == <<installed, saved, run, failed>>

Kind == {"check", "update", "refresh", "init", "fuse"}
Saving == {"update", "refresh", "fuse"}
Nothing == [d \in Dirs |-> None]

\* What is installed when the saves of lost do not arrive: an update leaves the
\* other directories alone, a refresh forgets those it does not save.
Merged(lost) ==
  [d \in Dirs |-> IF saved[d] # None /\ d \notin lost THEN saved[d]
                  ELSE IF run = "refresh" THEN None ELSE installed[d]]

Init ==
  /\ installed \in [Dirs -> Version \cup {None}]
  /\ saved = Nothing /\ run = None /\ failed = FALSE

Begin ==
  /\ run = None /\ run' \in Kind
  /\ saved' = Nothing /\ failed' = FALSE /\ UNCHANGED installed

Save ==
  /\ run \in Saving
  /\ \E d \in Dirs, v \in Version : saved' = [saved EXCEPT ![d] = v]
  /\ UNCHANGED <<installed, run, failed>>

Fail == run # None /\ failed' = TRUE /\ UNCHANGED <<installed, saved, run>>

Install ==
  /\ run \in Saving
  /\ \E lost \in SUBSET Dirs :
       /\ lost # {} => failed
       /\ installed' = Merged(lost)
  /\ UNCHANGED <<saved, run, failed>>

\* the run ends, is aborted or killed
End == run # None /\ run' = None /\ UNCHANGED <<installed, saved, failed>>

Next == Begin \/ Save \/ Fail \/ Install \/ End

Spec == Init /\ [][Next]_vars
=============================================================================
