---------------------------- MODULE MCGpuCache ----------------------------
(***************************************************************************)
(* Instance of GpuCache for TLC: values of one, two and four slabs, keys   *)
(* and inserters interchangeable.                                          *)
(***************************************************************************)
EXTENDS GpuCache, TLC

CONSTANTS short, long, huge

MCLength == [v \in Values |-> CASE v = short -> 25 [] v = long -> 1025 [] v = huge -> 2049]
Symmetry == Permutations(Keys) \cup Permutations(Inserters)
=============================================================================
