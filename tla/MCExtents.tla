----------------------------- MODULE MCExtents -----------------------------
(***************************************************************************)
(* Instance of Extents for TLC.                                            *)
(***************************************************************************)
EXTENDS Extents

AllFaults == {"fiemap", "ioctl", "status"}
=============================================================================
