---------------------------- MODULE WriteBuffer ----------------------------
(***************************************************************************)
(* The write-back memory buffer of the storage server (WriteBuffer.cpp).   *)
(*                                                                         *)
(* Callers of write() append an entry to a hash table, kv_store, and to a  *)
(* queue, kv_list.  The caller whose entry pushes the queue over one block *)
(* cuts the queue: it moves entries from its front to a new block and      *)
(* schedules a flush of that block on the thread pool.  flush() writes the *)
(* entries to the block's file, puts them in the central index and drops   *)
(* them from kv_store.  The first test of the buffer's size and the opening *)
(* of the file happen outside wbuffer_lock, all the rest inside.           *)
(***************************************************************************)
EXTENDS Integers, Sequences, FiniteSets, SlabMath

CONSTANTS
    Keys,            \* the keys of mog (decimal hashes of file paths)
    Hashes, Hash,    \* std::hash<std::string> of a key
    Values, Length,  \* contents, and their length in bytes
    Workers,         \* threads that call write()
    Flushers,        \* threads of flush_thread_pool
    page_per_block,  \* a block holds page_per_block pages of 1 MB
    page_num,        \* pages the configuration gives the buffer
    MaxBlocks,       \* bound: how many blocks a behaviour cuts
    None             \* no entry, no owner, no argument

ASSUME DataAssumption ==
    /\ Hash \in [Keys -> Hashes]
    /\ Length \in [Values -> Nat]
ASSUME SizeAssumption ==
    /\ page_per_block \in Nat \ {0}
    /\ page_num \in Nat \ {0}
    /\ MaxBlocks \in Nat
ASSUME ThreadAssumption ==
    /\ IsFiniteSet(Workers)
    /\ Workers \cap Flushers = {}
    /\ None \notin Workers \cup Flushers
ASSUME NoneAssumption ==
    None \notin [key : Keys, value : Values] \cup [block : Nat, pos : Nat]

page_size == 1024 * 1024
max_page_num == (12 * page_num) \div 10
BlockCap == page_per_block * 1024 * 1024
BufferLimit == max_page_num * page_size

Entries == [key : Keys, value : Values]
BlockIds == 1 .. MaxBlocks
Slab(e) == SlabBytes(Length[e.value])

VARIABLES
    kv_store,                  \* hash -> entry, None where absent
    kv_list,                   \* hashes of the entries not yet in a block
    blocks,                    \* block id -> entries, <<>> where absent
    total_size,                \* bytes of slabs held, blocks included
    total_size_without_block,  \* bytes of slabs of kv_list
    latest_block_id,
    wbuffer_lock,              \* the thread that holds it for writing
    new_block_size,            \* local of the caller that cuts
    wpc, warg,                 \* callers: where they are, the entry to write
    pending,                   \* queue of flush_thread_pool: block ids
    fpc, fblk, flushed_size,   \* flushers: where they are, their locals
    hdd,                       \* block id -> what its file holds
    closed,                    \* blocks whose file was closed
    index                      \* CentraIndex: key -> place in a block

buffer == <<kv_store, kv_list, blocks, total_size, total_size_without_block,
            latest_block_id, new_block_size>>
callers == <<wpc, warg>>
flushers == <<pending, fpc, fblk, flushed_size>>
disk == <<hdd, closed, index>>
vars == <<buffer, wbuffer_lock, callers, flushers, disk>>

Init ==
    /\ kv_store = [h \in Hashes |-> None]
    /\ kv_list = <<>>
    /\ blocks = [b \in BlockIds |-> <<>>]
    /\ total_size = 0
    /\ total_size_without_block = 0
    /\ latest_block_id = 0
    /\ wbuffer_lock = None
    /\ new_block_size = 0
    /\ wpc = [w \in Workers |-> "idle"]
    /\ warg = [w \in Workers |-> None]
    /\ pending = <<>>
    /\ fpc = [f \in Flushers |-> "idle"]
    /\ fblk = [f \in Flushers |-> 0]
    /\ flushed_size = [f \in Flushers |-> 0]
    /\ hdd = [b \in BlockIds |-> <<>>]
    /\ closed = {}
    /\ index = [k \in Keys |-> None]
-----------------------------------------------------------------------------
(***************************************************************************)
(* write()                                                                 *)
(***************************************************************************)

Busy == {w \in Workers : wpc[w] # "idle"}

\* The call, past the length test.  A call starts only if each call under way
\* and this one can still cut a block within the bound.
Call(w, k, v) ==
    /\ wpc[w] = "idle"
    /\ Length[v] <= MaxLength
    /\ latest_block_id + Cardinality(Busy) < MaxBlocks
    /\ wpc' = [wpc EXCEPT ![w] = "spin"]
    /\ warg' = [warg EXCEPT ![w] = [key |-> k, value |-> v]]
    /\ UNCHANGED <<buffer, wbuffer_lock, flushers, disk>>

\* First spin loop: the buffer is not over its limit, as read without the lock.
Admit(w) ==
    /\ wpc[w] = "spin"
    /\ total_size <= BufferLimit
    /\ wpc' = [wpc EXCEPT ![w] = "admitted"]
    /\ UNCHANGED <<buffer, wbuffer_lock, warg, flushers, disk>>

\* A hash that is present makes the caller try again.
RejectRetries(w) ==
    /\ wpc[w] = "admitted"
    /\ wbuffer_lock = None
    /\ kv_store[Hash[warg[w].key]] # None
    /\ wpc' = [wpc EXCEPT ![w] = "spin"]
    /\ UNCHANGED <<buffer, wbuffer_lock, warg, flushers, disk>>

\* The second spin loop waits for another component (SSDCache::block_num) and
\* reads nothing of the buffer: it only delays the step below.  The lock is
\* taken, and a hash that is present ends the call with -1.
Reject(w) ==
    /\ wpc[w] = "admitted"
    /\ wbuffer_lock = None
    /\ kv_store[Hash[warg[w].key]] # None
    /\ wpc' = [wpc EXCEPT ![w] = "idle"]
    /\ warg' = [warg EXCEPT ![w] = None]
    /\ UNCHANGED <<buffer, wbuffer_lock, flushers, disk>>

\* Inserting without looking for the hash first.
InsertAnyway(w) ==
    LET e == warg[w]
        cut == total_size_without_block + Slab(e) > BlockCap
    IN  /\ wpc[w] = "admitted"
        /\ wbuffer_lock = None
        /\ kv_store' = [kv_store EXCEPT ![Hash[e.key]] = e]
        /\ kv_list' = Append(kv_list, Hash[e.key])
        /\ total_size' = total_size + Slab(e)
        /\ total_size_without_block' = total_size_without_block + Slab(e)
        /\ latest_block_id' = IF cut THEN latest_block_id + 1 ELSE latest_block_id
        /\ new_block_size' = 0
        /\ wbuffer_lock' = IF cut THEN w ELSE None
        /\ wpc' = [wpc EXCEPT ![w] = IF cut THEN "cutting" ELSE "idle"]
        /\ warg' = [warg EXCEPT ![w] = None]
        /\ UNCHANGED <<blocks, flushers, disk>>

\* The entry goes to kv_store and kv_list.  If the queue now exceeds a block
\* the caller keeps the lock and starts cutting, otherwise it returns.
Insert(w) ==
    LET e == warg[w]
        h == Hash[e.key]
        cut == total_size_without_block + Slab(e) > BlockCap
    IN  /\ wpc[w] = "admitted"
        /\ wbuffer_lock = None
        /\ kv_store[h] = None
        /\ kv_store' = [kv_store EXCEPT ![h] = e]
        /\ kv_list' = Append(kv_list, h)
        /\ total_size' = total_size + Slab(e)
        /\ total_size_without_block' = total_size_without_block + Slab(e)
        /\ latest_block_id' = IF cut THEN latest_block_id + 1 ELSE latest_block_id
        /\ new_block_size' = 0
        /\ wbuffer_lock' = IF cut THEN w ELSE None
        /\ wpc' = [wpc EXCEPT ![w] = IF cut THEN "cutting" ELSE "idle"]
        /\ warg' = [warg EXCEPT ![w] = None]
        /\ UNCHANGED <<blocks, flushers, disk>>

\* A test that breaks a block one entry too late.
FrontFitsAfter == new_block_size <= BlockCap

FrontFits == new_block_size + Slab(kv_store[Head(kv_list)]) <= BlockCap

\* One iteration of the cutting loop.  It reads the front of the queue without
\* asking whether there is one.
CutMove(w) ==
    LET e == kv_store[Head(kv_list)]
    IN  /\ wpc[w] = "cutting"
        /\ FrontFits
        /\ kv_list' = Tail(kv_list)
        /\ blocks' = [blocks EXCEPT ![latest_block_id] = Append(@, e)]
        /\ total_size_without_block' = total_size_without_block - Slab(e)
        /\ new_block_size' = new_block_size + Slab(e)
        /\ UNCHANGED <<kv_store, total_size, latest_block_id, wbuffer_lock,
                       callers, flushers, disk>>

\* The flush is not scheduled.
CutEndUnscheduled(w) ==
    /\ wpc[w] = "cutting"
    /\ ~FrontFits
    /\ wbuffer_lock' = None
    /\ wpc' = [wpc EXCEPT ![w] = "idle"]
    /\ UNCHANGED <<buffer, warg, flushers, disk>>

\* The front does not fit: leave the loop, schedule the flush, release.
CutEnd(w) ==
    /\ wpc[w] = "cutting"
    /\ ~FrontFits
    /\ pending' = Append(pending, latest_block_id)
    /\ wbuffer_lock' = None
    /\ wpc' = [wpc EXCEPT ![w] = "idle"]
    /\ UNCHANGED <<buffer, warg, fpc, fblk, flushed_size, disk>>
-----------------------------------------------------------------------------
(***************************************************************************)
(* flush()                                                                 *)
(***************************************************************************)

\* A pool thread takes the oldest task and, before it has the lock, removes a
\* file of that name and creates an empty one.
FlushOpen(f) ==
    /\ fpc[f] = "idle"
    /\ pending # <<>>
    /\ fblk' = [fblk EXCEPT ![f] = Head(pending)]
    /\ pending' = Tail(pending)
    /\ hdd' = [hdd EXCEPT ![Head(pending)] = <<>>]
    /\ flushed_size' = [flushed_size EXCEPT ![f] = 0]
    /\ fpc' = [fpc EXCEPT ![f] = "opened"]
    /\ UNCHANGED <<buffer, wbuffer_lock, callers, closed, index>>

FlushLock(f) ==
    /\ fpc[f] = "opened"
    /\ wbuffer_lock = None
    /\ wbuffer_lock' = f
    /\ fpc' = [fpc EXCEPT ![f] = "writing"]
    /\ UNCHANGED <<buffer, callers, pending, fblk, flushed_size, disk>>

\* One entry written, with mistakes: no offset, no index entry, hash kept.
FlushedTo(f, place(_), left) ==
    LET b == fblk[f]
        n == Len(hdd[b]) + 1
        e == blocks[b][n]
    IN  /\ fpc[f] = "writing"
        /\ n <= Len(blocks[b])
        /\ flushed_size' = [flushed_size EXCEPT ![f] = @ + Slab(e)]
        /\ hdd' = [hdd EXCEPT ![b] = Append(@, e)]
        /\ index' = [index EXCEPT ![e.key] = place(n)]
        /\ kv_store' = [kv_store EXCEPT ![Hash[e.key]] = IF left THEN e ELSE None]
        /\ UNCHANGED <<kv_list, blocks, total_size, total_size_without_block,
                       latest_block_id, new_block_size, wbuffer_lock, callers,
                       pending, fpc, fblk, closed>>
FlushEntryNoOffset(f) == FlushedTo(f, LAMBDA n : [block |-> fblk[f], pos |-> 1], FALSE)
FlushEntryUnindexed(f) == FlushedTo(f, LAMBDA n : None, FALSE)
FlushEntryKept(f) == FlushedTo(f, LAMBDA n : [block |-> fblk[f], pos |-> n], TRUE)

\* One entry: its bytes to the file, its place to the index, its memory freed,
\* its hash erased.  Only the index put is seen outside the lock.
FlushEntry(f) ==
    LET b == fblk[f]
        n == Len(hdd[b]) + 1
        e == blocks[b][n]
    IN  /\ fpc[f] = "writing"
        /\ n <= Len(blocks[b])
        /\ flushed_size' = [flushed_size EXCEPT ![f] = @ + Slab(e)]
        /\ hdd' = [hdd EXCEPT ![b] = Append(@, e)]
        /\ index' = [index EXCEPT ![e.key] = [block |-> b, pos |-> n]]
        /\ kv_store' = [kv_store EXCEPT ![Hash[e.key]] = None]
        /\ UNCHANGED <<kv_list, blocks, total_size, total_size_without_block,
                       latest_block_id, new_block_size, wbuffer_lock, callers,
                       pending, fpc, fblk, closed>>

\* The memory freed is not subtracted.
FlushCloseUncounted(f) ==
    LET b == fblk[f]
    IN  /\ fpc[f] = "writing"
        /\ Len(hdd[b]) >= Len(blocks[b])
        /\ closed' = closed \cup {b}
        /\ blocks' = [blocks EXCEPT ![b] = <<>>]
        /\ flushed_size' = [flushed_size EXCEPT ![f] = 0]
        /\ wbuffer_lock' = None
        /\ fpc' = [fpc EXCEPT ![f] = "idle"]
        /\ UNCHANGED <<kv_store, kv_list, total_size, total_size_without_block,
                       latest_block_id, new_block_size, callers, pending, fblk,
                       hdd, index>>

\* All entries written: close the file, forget the block, account for it.
FlushClose(f) ==
    LET b == fblk[f]
    IN  /\ fpc[f] = "writing"
        /\ Len(hdd[b]) >= Len(blocks[b])
        /\ closed' = closed \cup {b}
        /\ blocks' = [blocks EXCEPT ![b] = <<>>]
        /\ total_size' = total_size - flushed_size[f]
        /\ flushed_size' = [flushed_size EXCEPT ![f] = 0]
        /\ wbuffer_lock' = None
        /\ fpc' = [fpc EXCEPT ![f] = "idle"]
        /\ UNCHANGED <<kv_store, kv_list, total_size_without_block,
                       latest_block_id, new_block_size, callers, pending, fblk,
                       hdd, index>>

\* The bound is reached and nothing is under way: the model, not the program,
\* stops here.
AtBound ==
    /\ latest_block_id >= MaxBlocks
    /\ Busy = {}
    /\ pending = <<>>
    /\ \A f \in Flushers : fpc[f] = "idle"
    /\ UNCHANGED vars

Write(w) == Admit(w) \/ Reject(w) \/ Insert(w) \/ CutMove(w) \/ CutEnd(w)
Flush(f) == FlushOpen(f) \/ FlushLock(f) \/ FlushEntry(f) \/ FlushClose(f)

Next ==
    \/ \E w \in Workers : (\E k \in Keys, v \in Values : Call(w, k, v)) \/ Write(w)
    \/ \E f \in Flushers : Flush(f)
    \/ AtBound

Spec == Init /\ [][Next]_vars

\* Threads run; whoever waits for wbuffer_lock gets it (boost::shared_mutex
\* lets no new owner overtake for ever), and the second spin loop before it ends
\* (RoomAgain of SSDCache); callers of write need not come.
Fairness ==
    /\ \A w \in Workers :
        /\ WF_vars(Admit(w) \/ CutMove(w) \/ CutEnd(w))
        /\ SF_vars(Insert(w) \/ Reject(w))
    /\ \A f \in Flushers :
        /\ WF_vars(FlushOpen(f) \/ FlushEntry(f) \/ FlushClose(f))
        /\ SF_vars(FlushLock(f))
FairSpec == Spec /\ Fairness
-----------------------------------------------------------------------------
(***************************************************************************)
(* Properties                                                              *)
(***************************************************************************)

\* Types of the state of the buffer, its callers and its flushers.
TypeOK ==
    /\ kv_store \in [Hashes -> Entries \cup {None}]
    /\ kv_list \in Seq(Hashes)
    /\ blocks \in [BlockIds -> Seq(Entries)]
    /\ total_size \in Int
    /\ total_size_without_block \in Int
    /\ latest_block_id \in 0 .. MaxBlocks
    /\ new_block_size \in Nat
    /\ wbuffer_lock \in Workers \cup Flushers \cup {None}
    /\ wpc \in [Workers -> {"idle", "spin", "admitted", "cutting"}]
    /\ warg \in [Workers -> Entries \cup {None}]
    /\ pending \in Seq(BlockIds)
    /\ fpc \in [Flushers -> {"idle", "opened", "writing"}]
    /\ fblk \in [Flushers -> BlockIds \cup {0}]
    /\ flushed_size \in [Flushers -> Nat]
    /\ hdd \in [BlockIds -> Seq(Entries)]
    /\ closed \in SUBSET BlockIds
    /\ index \in [Keys -> [block : BlockIds, pos : Nat \ {0}] \cup {None}]

\* The slots of a block that hold an entry not yet written to its file.
Unwritten(b) == (Len(hdd[b]) + 1) .. Len(blocks[b])
SlotHash(b, i) == Hash[blocks[b][i].key]

\* Where the memory of an entry is reached from: kv_list, or an unwritten slot
\* of a block.  delete[] frees what a slot holds, once.
Queued(h) == \E i \in DOMAIN kv_list : kv_list[i] = h
InBlock(h) == \E b \in BlockIds : \E i \in Unwritten(b) : SlotHash(b, i) = h

\* Every entry of kv_store waits in the queue or in a block (none is stranded
\* in memory), and never in both.
NoneStranded ==
    \A h \in Hashes : kv_store[h] # None => (Queued(h) <=> ~InBlock(h))

\* The queue and the unwritten slots refer to entries that are alive, no two
\* of them to the same: flush() frees no value twice and frees none that a
\* reader of kv_store can still find.
FreedOnce ==
    /\ \A i \in DOMAIN kv_list : kv_store[kv_list[i]] # None
    /\ \A i, j \in DOMAIN kv_list : kv_list[i] = kv_list[j] => i = j
    /\ \A b \in BlockIds : \A i \in Unwritten(b) :
            kv_store[SlotHash(b, i)] = blocks[b][i]
    /\ \A b, c \in BlockIds : \A i \in Unwritten(b), j \in Unwritten(c) :
            SlotHash(b, i) = SlotHash(c, j) => b = c /\ i = j

\* The cutting loop, which does not ask, never finds the queue empty: pop()
\* and front() of an empty std::queue are undefined.
CutNeverDrains == \A w \in Workers : wpc[w] = "cutting" => kv_list # <<>>

\* A cut leaves the entry that caused it and nothing else, and outside a cut
\* the queue holds at most one block's worth of slabs.
CutTakesAllButNewest ==
    /\ (\A w \in Workers : wpc[w] # "cutting") => total_size_without_block <= BlockCap
    /\ \A w \in Workers : wpc[w] = "cutting" /\ ~FrontFits => Len(kv_list) = 1

\* Callers test the size without the lock and add to it with the lock, so the
\* limit can be passed, but by no more than one slab for each of them.
OvershootBounded ==
    total_size <= BufferLimit + Cardinality(Workers) * MaxLength

\* What a key reads as: WriteBuffer::read, then the file its index entry names.
Lookup(k) ==
    IF kv_store[Hash[k]] # None THEN kv_store[Hash[k]].value
    ELSE IF index[k] # None THEN hdd[index[k].block][index[k].pos].value
    ELSE None

\* The index never names a place that holds another key, or none.
IndexSound ==
    \A k \in Keys : index[k] # None =>
        /\ index[k].pos <= Len(hdd[index[k].block])
        /\ hdd[index[k].block][index[k].pos].key = k

\* A reader opens block files without wbuffer_lock: once closed, a block file
\* is never removed, truncated or written again.
ClosedBlocksFixed == [][\A b \in closed : b \in closed' /\ hdd'[b] = hdd[b]]_vars

\* Cutting, flushing and forgetting change no key's contents: only a write
\* that is accepted does, and only its own key's.
KV == INSTANCE KVMap WITH store <- [k \in Keys |-> Lookup(k)]
RefinesKVMap == KV!Spec

\* Every block that is cut reaches its file.
CutBlocksReachDisk ==
    \A b \in BlockIds : blocks[b] # <<>> ~> b \in closed /\ blocks[b] = <<>>

\* A full buffer does not stay full: the callers in the first spin loop of
\* write() are let go.
BufferDrains == total_size > BufferLimit ~> total_size <= BufferLimit

\* If calls do not go on coming for ever, each of them returns: who waits for
\* the size to fall is let in by flushes that other callers have scheduled, and
\* a hash that is present ends the call.
CallsReturn == \A w \in Workers : wpc[w] = "spin" ~> wpc[w] = "idle"
=============================================================================
