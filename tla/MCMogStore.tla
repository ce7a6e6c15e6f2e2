---------------------------- MODULE MCMogStore ----------------------------
(***************************************************************************)
(* Instance of MogStore for TLC.                                           *)
(***************************************************************************)
EXTENDS MogStore, TLC

CONSTANTS k1, k2, k3, k4, half, full, other, empty

MCHash == [k \in Keys |-> k]
MCLength == [v \in Values |-> CASE v = half  -> 500 * 1024
                                []   v = empty -> 0
                                []   OTHER     -> 1024 * 1024]

\* Files that share blocks, of one length and of different ones, and more of
\* them than the HDD's budget allows; for three keys one of each kind.
MCFile == [k \in Keys |-> CASE k = k1 -> half [] k = k4 -> other [] OTHER -> full]
MCFileKinds == [k \in Keys |-> CASE k = k1 -> half [] k = k2 -> empty [] k = k3 -> full]

\* Two files have the same contents, and the workers are alike.
MCSymmetry == Permutations({k2, k3}) \cup Permutations(Workers)
=============================================================================
