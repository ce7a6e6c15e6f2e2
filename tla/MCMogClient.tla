---------------------------- MODULE MCMogClient ----------------------------
(***************************************************************************)
(* Instance of MogClient for TLC: each caller has a file of its own.       *)
(***************************************************************************)
EXTENDS MogClient

CONSTANTS c1, c2

MCCallers == {c1, c2}
MCAsks == [c \in MCCallers |-> {c}]
=============================================================================
