----------------------------- MODULE MCAtomStore -----------------------------
(***************************************************************************)
(* Instances of AtomStore for TLC.                                         *)
(***************************************************************************)
EXTENDS AtomStore

NoFaults == {}
DbFaults == {"begin", "put", "commit"}
FileFaults == {"import", "create", "close", "write", "rename", "remove"}
ReportedFaults == DbFaults \cup FileFaults
AllFaults == ReportedFaults \cup {"key"}
=============================================================================
