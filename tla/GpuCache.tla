------------------------------ MODULE GpuCache ------------------------------
(***************************************************************************)
(* The cache of files in the memory of one GPU (mog_gpu/GpuCache.cpp, used *)
(* through mog_gpu).  Memory is cut into slabs of 1 KB; an item takes 1, 2,*)
(* 4 ... of them from a FIFO of free slabs, and items are evicted in the   *)
(* order of a second FIFO until there are enough.  insert() holds the      *)
(* write lock throughout; read() looks the item up without a lock and then *)
(* copies its slabs under the read lock.  Values longer than pow2[MaxType] KB  *)
(* are refused without a change of state, and so have no action.           *)
(***************************************************************************)
EXTENDS Integers, Sequences, FiniteSets

CONSTANTS
    Keys, Values,
    Length,     \* value -> bytes
    Inserters,  \* threads that call insert()
    Readers,    \* threads that call read()
    slab_num,   \* page_num * page_size / 1024
    MaxType,    \* 10 in the code: 1 MB
    MaxAgain,   \* bound: insertions of a key that is cached
    None

\* pow(2, length_type)
pow2 == [t \in 0 .. 10 |-> <<1, 2, 4, 8, 16, 32, 64, 128, 256, 512, 1024>>[t + 1]]

ASSUME GpuAssumption ==
    /\ Length \in [Values -> Nat]
    /\ MaxType \in 0 .. 10
    /\ slab_num \in Nat
    /\ slab_num >= pow2[MaxType]
    /\ MaxAgain \in Nat
    /\ None \notin Keys \cup Values \cup Inserters

VARIABLES
    free_slabs, free_slab_num,
    cached_item,        \* cached key -> its length, length_type and slabs
    cached_item_queue,  \* keys, oldest first
    slabs,              \* slab id -> the piece of a value it holds
    lock,               \* the inserter that holds rw_cache_lock for writing
    key, value, push_flag,  \* what it inserts, and whether to queue the key
    rkey,               \* readers: the key of the item they found
    open,               \* FALSE after close()
    latest,             \* history: key -> value of its last insertion
    again,              \* history: insertions of a key that was cached
    dangling            \* readers whose iterator refers to nothing any more

free == <<free_slabs, free_slab_num>>
items == <<cached_item, cached_item_queue>>
adding == <<key, value, push_flag>>
history == <<latest, again, dangling>>
vars == <<free, items, slabs, lock, adding, rkey, open, history>>

Ids == 0 .. slab_num - 1
Piece(v, i) == <<v, i>>

\* ceil(log2(length / 1024.0)), or 0 if that is less.
HasType(v, t) ==
    /\ Length[v] <= 1024 * pow2[t]
    /\ t = 0 \/ Length[v] > 512 * pow2[t]
Fitting == {v \in Values : \E t \in 0 .. MaxType : HasType(v, t)}
length_type(v) == CHOOSE t \in 0 .. MaxType : HasType(v, t)
Need(v) == pow2[length_type(v)]
Content(v) == [i \in 1 .. Need(v) |-> Piece(v, i)]

Cached == DOMAIN cached_item
Reading(r) == rkey[r] # None

\* initial() and allocate_memory().
Init ==
    /\ free_slabs = [i \in 1 .. slab_num |-> i - 1]
    /\ free_slab_num = slab_num
    /\ cached_item = [k \in {} |-> None]
    /\ cached_item_queue = <<>>
    /\ slabs = [s \in Ids |-> None]
    /\ lock = None
    /\ key = None /\ value = None /\ push_flag = TRUE
    /\ rkey = [r \in Readers |-> None]
    /\ open = TRUE
    /\ latest = [k \in Keys |-> None]
    /\ again = 0
    /\ dangling = {}
-----------------------------------------------------------------------------
(***************************************************************************)
(* insert()                                                                *)
(***************************************************************************)

OldSlabs(k) == IF k \in Cached THEN cached_item[k].slabs ELSE <<>>

\* The lock is taken.  If the key is cached its slabs are given back, but the
\* item keeps them, and it stays where it is in the queue.
InsertWith(t, k, v, push) ==
    /\ open
    /\ lock = None
    /\ lock' = t
    /\ key' = k /\ value' = v /\ push_flag' = push
    /\ free_slab_num' = IF k \in Cached THEN free_slab_num + pow2[cached_item[k].length_type]
                                        ELSE free_slab_num
    /\ free_slabs' = free_slabs \o OldSlabs(k)
    /\ again' = IF k \in Cached THEN again + 1 ELSE again
    /\ again' <= MaxAgain
    /\ UNCHANGED <<items, slabs, rkey, open, latest, dangling>>
InsertPushes(t, k, v) == InsertWith(t, k, v, TRUE)
Insert(t, k, v) == InsertWith(t, k, v, k \notin Cached)

Short == free_slab_num < Need(value)

\* One turn of the eviction loop: the key itself is only taken off the queue.
EvictTo(t, left) ==
    LET d == Head(cached_item_queue)
    IN  /\ lock = t
        /\ Short
        /\ cached_item_queue # <<>>
        /\ cached_item_queue' = Tail(cached_item_queue)
        /\ IF d = key
           THEN /\ push_flag' = TRUE
                /\ UNCHANGED <<free, cached_item, dangling>>
           ELSE /\ d \in Cached
                /\ free_slab_num' = free_slab_num + pow2[cached_item[d].length_type]
                /\ free_slabs' = free_slabs \o cached_item[d].slabs
                /\ cached_item' = [k \in left |-> cached_item[k]]
                /\ dangling' = dangling \cup {r \in Readers : Reading(r) /\ rkey[r] = d}
                /\ UNCHANGED push_flag
        /\ UNCHANGED <<slabs, lock, key, value, rkey, open, latest, again>>
EvictKeepsItem(t) == EvictTo(t, Cached)
Evict(t) == EvictTo(t, Cached \ {Head(cached_item_queue)})

\* What slab s holds after the pieces of the value are written to the slabs of
\* new in their order.
LastPiece(s, new) ==
    LET last == {i \in DOMAIN new : new[i] = s /\ \A j \in DOMAIN new : new[j] = s => j <= i}
    IN  IF last = {} THEN slabs[s] ELSE Piece(value, CHOOSE i \in last : TRUE)

\* Enough are free: the item's slabs are taken, written and appended to those
\* it has, and the lock is released.
StoreAs(t, left) ==
    LET new == SubSeq(free_slabs, 1, Need(value))
        item == [length |-> Length[value], length_type |-> length_type(value),
                 slabs  |-> OldSlabs(key) \o new]
    IN  /\ lock = t
        /\ ~Short
        /\ cached_item' = [k \in Cached \cup {key} |->
                               IF k = key THEN item ELSE cached_item[k]]
        /\ slabs' = [s \in Ids |-> LastPiece(s, new)]
        /\ free_slabs' = SubSeq(free_slabs, Need(value) + 1, Len(free_slabs))
        /\ free_slab_num' = left
        /\ cached_item_queue' = IF push_flag THEN Append(cached_item_queue, key)
                                             ELSE cached_item_queue
        /\ lock' = None
        /\ key' = None /\ value' = None /\ push_flag' = TRUE
        /\ latest' = [latest EXCEPT ![key] = value]
        /\ UNCHANGED <<rkey, open, again, dangling>>
Store(t) == StoreAs(t, free_slab_num - Need(value))
-----------------------------------------------------------------------------
(***************************************************************************)
(* read()                                                                  *)
(***************************************************************************)

\* find(), without a lock: the iterator is kept.  While insert() changes the
\* map this is a data race, and the iterator may refer to anything.
Find(r, k) ==
    /\ open
    /\ ~Reading(r)
    /\ k \in Cached
    /\ rkey' = [rkey EXCEPT ![r] = k]
    /\ \/ UNCHANGED dangling
       \/ lock # None /\ dangling' = dangling \cup {r}
    /\ UNCHANGED <<free, items, slabs, lock, adding, open, latest, again>>

\* With the read lock, what the iterator refers to is copied and returned.
Copied(r) ==
    LET item == cached_item[rkey[r]]
    IN  [length |-> item.length, bytes |-> [i \in DOMAIN item.slabs |-> slabs[item.slabs[i]]]]
Return(r) ==
    /\ Reading(r)
    /\ lock = None
    /\ rkey' = [rkey EXCEPT ![r] = None]
    /\ dangling' = dangling \ {r}
    /\ UNCHANGED <<free, items, slabs, lock, adding, open, latest, again>>

\* close(), when main() is done with the cache: the queues keep what they have.
Close ==
    /\ open
    /\ lock = None
    /\ \A r \in Readers : ~Reading(r)
    /\ open' = FALSE
    /\ cached_item' = [k \in {} |-> None]
    /\ UNCHANGED <<free, cached_item_queue, slabs, lock, adding, rkey, history>>

Closed == ~open /\ UNCHANGED vars

Next ==
    \/ \E t \in Inserters :
        (\E k \in Keys, v \in Fitting : Insert(t, k, v)) \/ Evict(t) \/ Store(t)
    \/ \E r \in Readers : (\E k \in Keys : Find(r, k)) \/ Return(r)
    \/ Close \/ Closed

Spec == Init /\ [][Next]_vars
-----------------------------------------------------------------------------
(***************************************************************************)
(* Properties                                                              *)
(***************************************************************************)

Item == [length : Nat, length_type : 0 .. MaxType, slabs : Seq(Ids)]

\* Types of the cache and its callers' state.
TypeOK ==
    /\ free_slabs \in Seq(Ids)
    /\ free_slab_num \in Nat
    /\ Cached \subseteq Keys /\ cached_item \in [Cached -> Item]
    /\ cached_item_queue \in Seq(Keys)
    /\ slabs \in [Ids -> {None} \cup (Values \X (Nat \ {0}))]
    /\ lock \in Inserters \cup {None}
    /\ key \in Keys \cup {None} /\ value \in Fitting \cup {None}
    /\ push_flag \in BOOLEAN
    /\ rkey \in [Readers -> Keys \cup {None}]
    /\ open \in BOOLEAN
    /\ latest \in [Keys -> Fitting \cup {None}]
    /\ again \in Nat
    /\ dangling \in SUBSET Readers

\* The counter never promises more free slabs than the queue has: insert()
\* takes front() and pop() of free_slabs on the strength of the counter alone.
CountIsCovered == free_slab_num <= Len(free_slabs)

\* The eviction loop does not ask whether its queue is empty, nor whether the
\* key it finds there is cached: every cached key is in the queue once, and
\* before the queue runs out there is room.
EvictionFindsItem ==
    /\ \A i, j \in DOMAIN cached_item_queue : cached_item_queue[i] = cached_item_queue[j] => i = j
    /\ open => \A i \in DOMAIN cached_item_queue : cached_item_queue[i] \in Cached
    /\ lock # None /\ Short => cached_item_queue # <<>>

\* As long as no key was inserted while it was cached, a slab is free or part
\* of one item, once.
SlabsPrivate ==
    open /\ again = 0 =>
    /\ \A i, j \in DOMAIN free_slabs : free_slabs[i] = free_slabs[j] => i = j
    /\ \A k \in Cached : \A i \in DOMAIN cached_item[k].slabs :
        LET s == cached_item[k].slabs[i]
        IN  /\ \A j \in DOMAIN free_slabs : free_slabs[j] # s
            /\ \A l \in Cached : \A j \in DOMAIN cached_item[l].slabs :
                cached_item[l].slabs[j] = s => l = k /\ j = i

\* What a reader copies is the value that was inserted last, unless a key was
\* inserted while it was cached, or the item was erased between find() and the
\* lock.
ReadsRight ==
    \A r \in Readers : Reading(r) /\ lock = None /\ again = 0 /\ r \notin dangling =>
        LET v == latest[rkey[r]]
        IN  Copied(r) = [length |-> Length[v], bytes |-> Content(v)]
=============================================================================
