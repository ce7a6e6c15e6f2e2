--------------------------- MODULE MCWriteBuffer ---------------------------
(***************************************************************************)
(* Instance of WriteBuffer for TLC.                                        *)
(***************************************************************************)
EXTENDS WriteBuffer, TLC

CONSTANTS k1, k2, k3, k4, half, most

\* Every key its own hash.
MCHash == [k \in Keys |-> k]

\* 500 KB takes a slab of half a page, 700 KB a slab of a whole page.
MCLength == [v \in Values |-> CASE v = half -> 500 * 1024 [] v = most -> 700 * 1024]
=============================================================================
