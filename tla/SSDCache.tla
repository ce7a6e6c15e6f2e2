------------------------------ MODULE SSDCache ------------------------------
(***************************************************************************)
(* The SSD cache of block files (SSDCache.cpp).  Readers count reads of    *)
(* blocks; after check_threshold of them one reader picks a block that is  *)
(* not cached and schedules a fetch on the pool.  fetch() tests the size   *)
(* of the cache and copies the file without a lock, then with the lock     *)
(* installs the block and, at the limit, evicts the oldest ones.           *)
(* flush(), new_block() and unsynced_block_id have no caller in the server *)
(* and are left out; close() is in MogReset.                               *)
(***************************************************************************)
EXTENDS Integers, Sequences, FiniteSets

CONSTANTS
    Blocks,           \* ids of the block files on the HDD
    Readers,          \* worker threads in read()
    Fetchers,         \* threads of thread_pool
    max_block_num,    \* SSD pages / page_per_block
    check_threshold,  \* 50 in the code; a small one bounds the read counts
    None

ASSUME IdAssumption == Blocks \subseteq Nat \ {0}
ASSUME CapacityAssumption == max_block_num \in Nat /\ check_threshold \in Nat
ASSUME CacheThreadAssumption ==
    Readers \cap Fetchers = {} /\ None \notin Readers \cup Fetchers \cup Blocks

\* The pool has the threads thread_num says, which is at least one.
ASSUME PoolAssumption == IsFiniteSet(Fetchers) /\ Fetchers # {}

VARIABLES
    block_num,        \* atomic: blocks on the SSD, as writers also read it
    cached_block_id,  \* queue of cached blocks, oldest first
    cached_block,     \* the blocks readers look for on the SSD
    caching_block,    \* the blocks a fetch was scheduled for
    read_record,      \* block -> reads counted, 0 where absent
    read_num,         \* atomic: reads since the last choice of a block
    pending,          \* queue of thread_pool
    ssd_file,         \* block -> its file on the SSD
    cache_lock,       \* the fetcher that holds ssd_cache_rwlock for writing
    rpc, rblk,        \* readers: where they are, the block they read
    fpc, fblk         \* fetchers: where they are, the block they fetch

cache == <<block_num, cached_block_id, cached_block>>
counts == <<read_record, read_num>>
readers == <<rpc, rblk>>
fetchers == <<fpc, fblk>>
vars == <<cache, caching_block, counts, pending, ssd_file, cache_lock, readers, fetchers>>

Init ==
    /\ block_num = 0
    /\ cached_block_id = <<>>
    /\ cached_block = {}
    /\ caching_block = {}
    /\ read_record = [b \in Blocks |-> 0]
    /\ read_num = 0
    /\ pending = <<>>
    /\ ssd_file = [b \in Blocks |-> "none"]
    /\ cache_lock = None
    /\ rpc = [r \in Readers |-> "idle"]
    /\ rblk = [r \in Readers |-> None]
    /\ fpc = [f \in Fetchers |-> "idle"]
    /\ fblk = [f \in Fetchers |-> None]

Reads(r, here, there) == rpc[r] = here /\ rpc' = [rpc EXCEPT ![r] = there]
Fetches(f, here, there) == fpc[f] = here /\ fpc' = [fpc EXCEPT ![f] = there]
-----------------------------------------------------------------------------
(***************************************************************************)
(* read(): ssd_cache_rwlock is held shared from the first step to the last *)
(***************************************************************************)

\* The lock, then one more read of the block with read_record_lock held.
Count(r, b) ==
    /\ cache_lock = None
    /\ Reads(r, "idle", "bump")
    /\ rblk' = [rblk EXCEPT ![r] = b]
    /\ read_record' = [read_record EXCEPT ![b] = @ + 1]
    /\ UNCHANGED <<cache, caching_block, read_num, pending, ssd_file, cache_lock, fetchers>>

Bump(r) ==
    /\ Reads(r, "bump", "test")
    /\ read_num' = read_num + 1
    /\ UNCHANGED <<cache, caching_block, read_record, pending, ssd_file, cache_lock,
                   rblk, fetchers>>

\* read_num is read again: other readers may have raised or reset it.
Test(r) ==
    /\ Reads(r, "test", IF read_num > check_threshold THEN "select" ELSE "find")
    /\ UNCHANGED <<cache, caching_block, counts, pending, ssd_file, cache_lock, rblk, fetchers>>

Candidates == {b \in Blocks : read_record[b] > 0} \ cached_block

\* The last candidate in the order of read_record_sta: fewest reads, then
\* greatest id.
Last == {b \in Candidates : \A c \in Candidates :
            \/ read_record[b] < read_record[c]
            \/ read_record[b] = read_record[c] /\ b >= c}

\* It alone, and only if it is not being fetched.
NewFetchAgain == Last
NewFetch == Last \ caching_block

\* With read_record_lock held: choose, schedule a fetch unless one is under
\* way, and start counting anew.
Select(r) ==
    /\ Reads(r, "select", "find")
    /\ caching_block' = caching_block \cup NewFetch
    /\ pending' = IF NewFetch = {} THEN pending
                  ELSE Append(pending, CHOOSE b \in NewFetch : TRUE)
    /\ read_num' = 0
    /\ read_record' = [b \in Blocks |-> 0]
    /\ UNCHANGED <<cache, ssd_file, cache_lock, rblk, fetchers>>

\* The block's file is on the SSD if the block is cached, else on the HDD.
Find(r) ==
    /\ Reads(r, "find", IF rblk[r] \in cached_block THEN "ssd" ELSE "hdd")
    /\ UNCHANGED <<cache, caching_block, counts, pending, ssd_file, cache_lock, rblk, fetchers>>

\* The bytes are read from there and the shared lock is released.
Serve(r) ==
    /\ rpc[r] \in {"ssd", "hdd"}
    /\ rpc' = [rpc EXCEPT ![r] = "idle"]
    /\ rblk' = [rblk EXCEPT ![r] = None]
    /\ UNCHANGED <<cache, caching_block, counts, pending, ssd_file, cache_lock, fetchers>>
-----------------------------------------------------------------------------
(***************************************************************************)
(* fetch()                                                                 *)
(***************************************************************************)

\* A pool thread takes the oldest task.  If the cache looks full, fetch() does
\* nothing and leaves the block in caching_block.
FetchStart(f) ==
    LET room == block_num < max_block_num
    IN  /\ pending # <<>>
        /\ Fetches(f, "idle", IF room THEN "copy" ELSE "idle")
        /\ fblk' = [fblk EXCEPT ![f] = IF room THEN Head(pending) ELSE None]
        /\ pending' = Tail(pending)
        /\ UNCHANGED <<cache, caching_block, counts, ssd_file, cache_lock, readers>>

\* copy_file, without a lock; it would throw if the SSD had such a file.
CopyOpen(f) ==
    /\ Fetches(f, "copy", "copying")
    /\ ssd_file[fblk[f]] = "none"
    /\ ssd_file' = [ssd_file EXCEPT ![fblk[f]] = "partial"]
    /\ UNCHANGED <<cache, caching_block, counts, pending, cache_lock, readers, fblk>>

CopyEnd(f) ==
    /\ Fetches(f, "copying", "install")
    /\ ssd_file' = [ssd_file EXCEPT ![fblk[f]] = "whole"]
    /\ UNCHANGED <<cache, caching_block, counts, pending, cache_lock, readers, fblk>>

\* With the write lock the block is cached and counted.
InstallNow(f) ==
    LET b == fblk[f]
        full == block_num + 1 >= max_block_num
    IN  /\ Fetches(f, "install", IF full THEN "evict" ELSE "end")
        /\ cached_block_id' = Append(cached_block_id, b)
        /\ cached_block' = cached_block \cup {b}
        /\ block_num' = block_num + 1
        /\ cache_lock' = f
        /\ UNCHANGED <<caching_block, counts, pending, ssd_file, readers, fblk>>
InstallAmongReaders(f) == cache_lock = None /\ InstallNow(f)
Install(f) ==
    /\ cache_lock = None
    /\ \A r \in Readers : rpc[r] = "idle"
    /\ InstallNow(f)

\* 0.7 * max_block_num, exactly: no rounding of the product moves it across an
\* integer.
TooMany == cached_block_id # <<>> /\ 10 * block_num >= 7 * max_block_num

\* One turn of the eviction loop: the oldest block, its file, the count.
EvictTo(f, num, files) ==
    /\ fpc[f] = "evict"
    /\ TooMany
    /\ cached_block' = cached_block \ {Head(cached_block_id)}
    /\ cached_block_id' = Tail(cached_block_id)
    /\ ssd_file' = files
    /\ block_num' = num
    /\ UNCHANGED <<caching_block, counts, pending, cache_lock, readers, fetchers>>
OldestGone == [ssd_file EXCEPT ![Head(cached_block_id)] = "none"]
EvictUncounted(f) == EvictTo(f, block_num, OldestGone)
Evict(f) == EvictTo(f, block_num - 1, OldestGone)

EvictEnd(f) ==
    /\ ~TooMany
    /\ Fetches(f, "evict", "end")
    /\ UNCHANGED <<cache, caching_block, counts, pending, ssd_file, cache_lock, readers, fblk>>

FetchEnd(f) ==
    /\ Fetches(f, "end", "idle")
    /\ fblk' = [fblk EXCEPT ![f] = None]
    /\ caching_block' = caching_block \ {fblk[f]}
    /\ cache_lock' = None
    /\ UNCHANGED <<cache, counts, pending, ssd_file, readers>>

Read(r) == \/ \E b \in Blocks : Count(r, b)
           \/ Bump(r) \/ Test(r) \/ Select(r)
           \/ Find(r) \/ Serve(r)
FetchLocal(f) ==
    \/ FetchStart(f) \/ CopyOpen(f) \/ CopyEnd(f)
    \/ Evict(f) \/ EvictEnd(f) \/ FetchEnd(f)

Next ==
    \/ \E r \in Readers : Read(r)
    \/ \E f \in Fetchers : FetchLocal(f) \/ Install(f)

Spec == Init /\ [][Next]_vars

\* Threads run; readers finish; boost::shared_mutex stops new readers while a
\* writer waits.
FairSpec ==
    /\ Spec
    /\ \A r \in Readers : WF_vars(Bump(r) \/ Test(r) \/ Select(r) \/ Find(r) \/ Serve(r))
    /\ \A f \in Fetchers : WF_vars(FetchLocal(f)) /\ SF_vars(Install(f))
-----------------------------------------------------------------------------
(***************************************************************************)
(* Properties                                                              *)
(***************************************************************************)

\* Types of the state of the cache, its readers and its fetchers.
TypeOK ==
    /\ block_num \in Nat
    /\ cached_block_id \in Seq(Blocks)
    /\ cached_block \in SUBSET Blocks
    /\ caching_block \in SUBSET Blocks
    /\ read_record \in [Blocks -> Nat]
    /\ read_num \in Nat
    /\ pending \in Seq(Blocks)
    /\ ssd_file \in [Blocks -> {"none", "partial", "whole"}]
    /\ cache_lock \in Fetchers \cup {None}
    /\ rpc \in [Readers -> {"idle", "bump", "test", "select", "find", "ssd", "hdd"}]
    /\ rblk \in [Readers -> Blocks \cup {None}]
    /\ fpc \in [Fetchers -> {"idle", "copy", "copying", "install", "evict", "end"}]
    /\ fblk \in [Fetchers -> Blocks \cup {None}]

\* A block has at most one fetch, scheduled or running, and while it has one
\* it is in caching_block: two copies of a block never run into each other.
Scheduled(b) == \E i \in DOMAIN pending : pending[i] = b
OneFetch ==
    /\ \A i, j \in DOMAIN pending : pending[i] = pending[j] => i = j
    /\ \A f, g \in Fetchers : fblk[f] = fblk[g] /\ fblk[f] # None => f = g
    /\ \A b \in Blocks :
        LET running == \E f \in Fetchers : fblk[f] = b
        IN  /\ ~(Scheduled(b) /\ running)
            /\ Scheduled(b) \/ running => b \in caching_block

\* copy_file never finds a file of that name on the SSD, for which it would
\* throw: whatever was copied and evicted before left nothing behind.
CopyTargetAbsent == \A f \in Fetchers : fpc[f] = "copy" => ssd_file[fblk[f]] = "none"

\* The queue, the map and the counter agree, evictions under way included.
CacheAgrees ==
    /\ block_num = Len(cached_block_id)
    /\ cached_block = {cached_block_id[i] : i \in DOMAIN cached_block_id}
    /\ Cardinality(cached_block) = block_num

\* A reader that found its block cached opens a whole file: nothing is evicted
\* or half copied between the two (fopen's NULL is not handled there).
ReaderFindsFile == \A r \in Readers : rpc[r] = "ssd" => ssd_file[rblk[r]] = "whole"

\* Fetches test the size without the lock, so the SSD can hold more files than
\* the cache may, but one for each other thread of the pool at most; and every
\* file there is cached or being copied, none is forgotten.
FilesBounded ==
    LET onSsd == {b \in Blocks : ssd_file[b] # "none"}
    IN  /\ Cardinality(onSsd) < max_block_num + Cardinality(Fetchers)
        /\ \A b \in onSsd : b \in cached_block \/ \E f \in Fetchers : fblk[f] = b

\* The cache does not stay full: callers in the second spin loop of
\* WriteBuffer::write() are let go.
RoomAgain == block_num >= max_block_num ~> block_num < max_block_num

\* SSDCache.cpp:154, "fetching blocks from hdd and store it in ssd": a block in
\* caching_block has a fetch that is going to store it.
CachingMeansFetching ==
    \A b \in caching_block : Scheduled(b) \/ \E f \in Fetchers : fblk[f] = b
=============================================================================
