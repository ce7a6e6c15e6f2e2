------------------------------- MODULE KVMap -------------------------------
(***************************************************************************)
(* What the storage tier promises its callers: a map from file keys to     *)
(* file contents that changes only when a write is accepted, and then only *)
(* at the written key.  There is no other step: moving an entry from the   *)
(* memory buffer to a block file and the central index must not be seen.   *)
(***************************************************************************)

CONSTANTS
    Keys,    \* the keys callers use
    Values,  \* the contents callers store
    None     \* "no such key"

VARIABLE store

Init == store = [k \in Keys |-> None]

Put(k, v) == store' = [store EXCEPT ![k] = v]

Next == \E k \in Keys, v \in Values : Put(k, v)

Spec == Init /\ [][Next]_store
=============================================================================
