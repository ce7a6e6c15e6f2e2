----------------------------- MODULE MCSSDCache -----------------------------
(***************************************************************************)
(* Instance of SSDCache for TLC.                                           *)
(***************************************************************************)
EXTENDS SSDCache

MCBlocks == 1 .. 3
=============================================================================
