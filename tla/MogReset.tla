------------------------------ MODULE MogReset ------------------------------
(***************************************************************************)
(* A reset in detail: what mog::close() and mog::open() do to the write    *)
(* buffer, the index, the SSD cache and the two directories, one after the *)
(* other, while the tasks of both thread pools and the workers go on.  The *)
(* flags and threads of main.cpp are those of MogServer, which this module *)
(* implements.  A block file is the id it has for a name; ids start again  *)
(* from 0 with every reset.                                                *)
(***************************************************************************)
EXTENDS MogServer, Naturals

CONSTANTS
    Flushers,   \* threads of the write buffer's pool
    Fetchers,   \* threads of the SSD cache's pool
    MaxBlocks   \* bound of the model: blocks between two resets

ASSUME ResetAssumption == MaxBlocks \in Nat

Blocks == 1 .. MaxBlocks

VARIABLES
    step,             \* the creator's statement inside close() or open()
    latest_block_id,
    blocks,           \* ids in WriteBuffer::blocks
    flush_pending, fpc, fblk,   \* tasks of the buffer's pool
    index,            \* "none", "open" or "closed"
    index_blocks,     \* ids the index names
    hdd, ssd,         \* files in the two directories
    cached_block, caching_block,
    fetch_pending, gpc, gblk,   \* tasks of the SSD cache's pool
    wblk,             \* workers: the block the index gave them
    clean             \* FALSE once close() freed what someone was using

buffer == <<latest_block_id, blocks, flush_pending>>
flushes == <<fpc, fblk>>
indexed == <<index, index_blocks>>
files == <<hdd, ssd>>
cache == <<cached_block, caching_block, fetch_pending>>
fetches == <<gpc, gblk>>
detail == <<step, buffer, flushes, indexed, files, cache, fetches, wblk, clean>>
resetVars == <<vars, detail>>

ResetInit ==
    /\ Init
    /\ step = "out"
    /\ latest_block_id = 0 /\ blocks = {} /\ flush_pending = {}
    /\ fpc = [f \in Flushers |-> "idle"] /\ fblk = [f \in Flushers |-> 0]
    /\ index = "none" /\ index_blocks = {}
    /\ hdd = {} /\ ssd = {}
    /\ cached_block = {} /\ caching_block = {} /\ fetch_pending = {}
    /\ gpc = [g \in Fetchers |-> "idle"] /\ gblk = [g \in Fetchers |-> 0]
    /\ wblk = [w \in Workers |-> 0]
    /\ clean = TRUE

InStep(c, where, here, there) == alive /\ cpc[c] = where /\ step = here /\ step' = there
-----------------------------------------------------------------------------
(***************************************************************************)
(* mog::close                                                              *)
(***************************************************************************)

\* Workers that use the store, and flushes that have the lock and read blocks.
InUse ==
    \/ \E w \in Workers : wpc[w] \in {"lookup", "block"}
    \/ \E f \in Flushers : fpc[f] = "loop"

\* WriteBuffer::close clears the buffer and its blocks, whoever uses them.
FreeBuffer(c) ==
    /\ Creates(c, "free", "make")
    /\ step' = "buffer_pool"
    /\ store' = "closed"
    /\ blocks' = {}
    /\ clean' = (clean /\ ~InUse)
    /\ alive' \in (IF InUse THEN BOOLEAN ELSE {TRUE})
    /\ UNCHANGED <<flags, hdd_blocks, wpc, latest_block_id, flush_pending, flushes, indexed, files, cache,
                   fetches, wblk>>

\* Then it deletes the pool, which waits for the tasks.  CpuCache::close.
BufferPoolNow(c) ==
    /\ InStep(c, "make", "buffer_pool", "index")
    /\ UNCHANGED <<vars, buffer, flushes, indexed, files, cache, fetches, wblk, clean>>
BufferPool(c) ==
    /\ flush_pending = {} /\ \A f \in Flushers : fpc[f] = "idle"
    /\ BufferPoolNow(c)

\* CentraIndex::close.
CloseIndex(c) ==
    /\ InStep(c, "make", "index", "ssd_sync")
    /\ index' = "closed"
    /\ UNCHANGED <<vars, buffer, flushes, index_blocks, files, cache, fetches, wblk, clean>>

\* SSDCache::close: sync() waits for the fetches, then all is cleared.
NoFetches == fetch_pending = {} /\ \A g \in Fetchers : gpc[g] = "idle"
SyncNot(c) ==
    /\ InStep(c, "make", "ssd_sync", "ssd_clear")
    /\ UNCHANGED <<vars, buffer, flushes, indexed, files, cache, fetches, wblk, clean>>
Sync(c) == NoFetches /\ SyncNot(c)

ClearCached(c, caching) ==
    /\ InStep(c, "make", "ssd_clear", "ssd_pool")
    /\ cached_block' = {}
    /\ caching_block' = caching
    /\ UNCHANGED <<vars, buffer, flushes, indexed, files, fetch_pending, fetches, wblk, clean>>
ClearSSDKeepsCaching(c) == ClearCached(c, caching_block)
ClearSSD(c) == ClearCached(c, {})

\* The pool is deleted.
SSDPool(c) ==
    /\ NoFetches
    /\ InStep(c, "make", "ssd_pool", "ssd_dir")
    /\ UNCHANGED <<vars, buffer, flushes, indexed, files, cache, fetches, wblk, clean>>

\* The SSD directory goes, and with it the files of the index.
RemoveSSD(c) ==
    /\ InStep(c, "make", "ssd_dir", "out")
    /\ ssd' = {} /\ index_blocks' = {}
    /\ UNCHANGED <<vars, buffer, flushes, index, hdd, cache, fetches, wblk, clean>>
-----------------------------------------------------------------------------
(***************************************************************************)
(* mog::open and create                                                    *)
(***************************************************************************)

MakeMog(c) == step = "out" /\ Make(c) /\ UNCHANGED detail

WipeSSD(c) ==
    /\ InStep(c, "wipe", "out", "hdd_dir")
    /\ ssd' = {} /\ index_blocks' = {}
    /\ UNCHANGED <<vars, buffer, flushes, index, hdd, cache, fetches, wblk, clean>>

WipeHDD(c) ==
    /\ Creates(c, "wipe", "setup")
    /\ step = "hdd_dir" /\ step' = "setup"
    /\ hdd' = {} /\ hdd_blocks' = FALSE
    /\ UNCHANGED <<flags, store, wpc, alive, buffer, flushes, indexed, ssd, cache, fetches,
                   wblk, clean>>

SetupIndex(c) ==
    /\ InStep(c, "setup", "setup", "initial")
    /\ index' = "open"
    /\ UNCHANGED <<vars, buffer, flushes, index_blocks, files, cache, fetches, wblk, clean>>

\* WriteBuffer::initial starts the ids anew; SSDCache::initial ends the setup.
InitialBuffer(c) ==
    /\ InStep(c, "setup", "initial", "initial_ssd")
    /\ latest_block_id' = 0
    /\ UNCHANGED <<vars, blocks, flush_pending, flushes, indexed, files, cache, fetches,
                   wblk, clean>>

InitialSSD(c) ==
    /\ Creates(c, "setup", "opened")
    /\ step = "initial_ssd" /\ step' = "out"
    /\ store' = "open"
    /\ UNCHANGED <<flags, hdd_blocks, wpc, alive, buffer, flushes, indexed, files, cache,
                   fetches, wblk, clean>>

\* The rest of CreateMogEntry.
Flags(c) ==
    /\ RaiseFlag(c) \/ Close(c) \/ Opened(c) \/ LowerFlag(c) \/ SetReady(c) \/ Unlock(c)
    /\ UNCHANGED detail
-----------------------------------------------------------------------------
(***************************************************************************)
(* Tasks                                                                   *)
(***************************************************************************)

\* WriteBuffer::flush: the file is created before the lock is taken.
FlushTake(f) ==
    /\ alive /\ fpc[f] = "idle"
    /\ \E b \in flush_pending :
        /\ flush_pending' = flush_pending \ {b}
        /\ fblk' = [fblk EXCEPT ![f] = b]
        /\ hdd' = hdd \cup {b}
    /\ fpc' = [fpc EXCEPT ![f] = "open"]
    /\ UNCHANGED <<vars, step, latest_block_id, blocks, indexed, ssd, cache, fetches, wblk, clean>>

FlushLock(f) ==
    /\ alive /\ fpc[f] = "open"
    /\ \A o \in Flushers : fpc[o] # "loop"
    /\ fpc' = [fpc EXCEPT ![f] = "loop"]
    /\ UNCHANGED <<vars, step, buffer, fblk, indexed, files, cache, fetches, wblk, clean>>

\* The entries of the block are put in the index; a block that close() has
\* cleared has none, and its file stays empty, unless it was freed under it.
FlushEnd(f) ==
    LET b == fblk[f] IN
    /\ alive /\ fpc[f] = "loop"
    /\ fpc' = [fpc EXCEPT ![f] = "idle"]
    /\ fblk' = [fblk EXCEPT ![f] = 0]
    /\ \/ /\ b \in blocks \/ ~clean
          /\ hdd_blocks' = TRUE
          /\ index_blocks' = index_blocks \cup {b}
       \/ /\ b \notin blocks
          /\ UNCHANGED <<hdd_blocks, index_blocks>>
    /\ blocks' = blocks \ {b}
    /\ UNCHANGED <<flags, store, cpc, wpc, alive, step, latest_block_id, flush_pending,
                   index, files, cache, fetches, wblk, clean>>

\* SSDCache::fetch, which may find the cache full; it then leaves the block in
\* caching_block.
FetchTake(g) ==
    /\ alive /\ gpc[g] = "idle"
    /\ \E b \in fetch_pending :
        /\ fetch_pending' = fetch_pending \ {b}
        /\ \/ UNCHANGED fetches
           \/ gpc' = [gpc EXCEPT ![g] = "copy"] /\ gblk' = [gblk EXCEPT ![g] = b]
    /\ UNCHANGED <<vars, step, buffer, flushes, indexed, files, cached_block, caching_block,
                   wblk, clean>>

\* copy_file, for the time of which neither directory may be removed; then the
\* block is cached.  What it would do without its file is left out.
FetchEnd(g) ==
    LET b == gblk[g] IN
    /\ alive /\ gpc[g] = "copy"
    /\ gpc' = [gpc EXCEPT ![g] = "idle"] /\ gblk' = [gblk EXCEPT ![g] = 0]
    /\ ssd' = ssd \cup {b}
    /\ cached_block' = cached_block \cup {b}
    /\ caching_block' = caching_block \ {b}
    /\ UNCHANGED <<vars, step, buffer, flushes, indexed, hdd, fetch_pending, wblk, clean>>
-----------------------------------------------------------------------------
(***************************************************************************)
(* Workers inside read_file                                                *)
(***************************************************************************)

\* A write that cuts a block and schedules its flush.
CutBlock ==
    /\ latest_block_id < MaxBlocks
    /\ latest_block_id' = latest_block_id + 1
    /\ blocks' = blocks \cup {latest_block_id'}
    /\ flush_pending' = flush_pending \cup {latest_block_id'}

\* SSDCache::read's choice of a block to fetch.
ScheduleFetch ==
    \E b \in index_blocks \ (cached_block \cup caching_block) :
        /\ caching_block' = caching_block \cup {b}
        /\ fetch_pending' = fetch_pending \cup {b}
        /\ UNCHANGED cached_block

\* The request is answered from memory, by a write, or the index names a block.
LookupOpen(w) ==
    /\ store = "open"
    /\ \/ /\ Works(w, "lookup", "idle")
          /\ CutBlock \/ UNCHANGED buffer
          /\ UNCHANGED <<cache, wblk>>
       \/ /\ Works(w, "lookup", "block")
          /\ \E b \in index_blocks : wblk' = [wblk EXCEPT ![w] = b]
          /\ ScheduleFetch \/ UNCHANGED cache
          /\ UNCHANGED buffer
    /\ UNCHANGED <<flags, data, cpc, alive, step, flushes, indexed, files, fetches, clean>>

\* In a store that is not open the worker goes on with what it finds, or dies.
LookupFreed(w) ==
    /\ store # "open"
    /\ \/ Works(w, "lookup", "idle") /\ UNCHANGED wblk
       \/ /\ Works(w, "lookup", "block")
          /\ \E b \in index_blocks : wblk' = [wblk EXCEPT ![w] = b]
    /\ alive' \in BOOLEAN
    /\ UNCHANGED <<flags, data, cpc, step, buffer, flushes, indexed, files, cache, fetches, clean>>

\* fopen gives NULL without the file: on the SSD that is not looked at, and on
\* the HDD it aborts.
ReadBlock(w) ==
    LET b == wblk[w] IN
    /\ Works(w, "block", "idle")
    /\ alive' = (IF b \in cached_block THEN b \in ssd ELSE b \in hdd)
    /\ wblk' = [wblk EXCEPT ![w] = 0]
    /\ UNCHANGED <<flags, data, cpc, step, buffer, flushes, indexed, files, cache, fetches, clean>>

Outside(w) ==
    /\ CleanUnready(w) \/ CleanLocked(w) \/ CleanRefused(w) \/ FileTest(w)
         \/ Direct(w) \/ ReadyTest(w)
    /\ UNCHANGED detail
-----------------------------------------------------------------------------
ResetStep(c) ==
    \/ FreeBuffer(c) \/ BufferPool(c) \/ CloseIndex(c) \/ Sync(c) \/ ClearSSD(c)
    \/ SSDPool(c) \/ RemoveSSD(c) \/ MakeMog(c) \/ WipeSSD(c) \/ WipeHDD(c)
    \/ SetupIndex(c) \/ InitialBuffer(c) \/ InitialSSD(c) \/ Flags(c)
Flush(f) == FlushTake(f) \/ FlushLock(f) \/ FlushEnd(f)
Fetch(g) == FetchTake(g) \/ FetchEnd(g)
ServeStep(w) == LookupOpen(w) \/ LookupFreed(w) \/ ReadBlock(w) \/ Outside(w)

ResetNext ==
    \/ \E c \in Creators : ResetStep(c)
    \/ \E f \in Flushers : Flush(f)
    \/ \E g \in Fetchers : Fetch(g)
    \/ \E w \in Workers : ServeStep(w) \/ (Receive(w) /\ UNCHANGED detail)
    \/ Aborted /\ UNCHANGED detail

ResetSpec == ResetInit /\ [][ResetNext]_resetVars

\* Threads run; requests need not come.
ResetFairSpec ==
    /\ ResetSpec
    /\ \A c \in Creators : WF_resetVars(ResetStep(c))
    /\ \A f \in Flushers : WF_resetVars(Flush(f))
    /\ \A g \in Fetchers : WF_resetVars(Fetch(g))
    /\ \A w \in Workers : WF_resetVars(ServeStep(w))
-----------------------------------------------------------------------------
(***************************************************************************)
(* Properties                                                              *)
(***************************************************************************)

\* Types of the variables this module adds.
ResetTypeOK ==
    /\ step \in {"out", "buffer_pool", "index", "ssd_sync", "ssd_clear", "ssd_pool", "ssd_dir",
                 "hdd_dir", "setup", "initial", "initial_ssd"}
    /\ latest_block_id \in 0 .. MaxBlocks
    /\ blocks \subseteq Blocks /\ flush_pending \subseteq Blocks
    /\ fpc \in [Flushers -> {"idle", "open", "loop"}] /\ fblk \in [Flushers -> 0 .. MaxBlocks]
    /\ index \in {"none", "open", "closed"} /\ index_blocks \subseteq Blocks
    /\ hdd \subseteq Blocks /\ ssd \subseteq Blocks
    /\ cached_block \subseteq Blocks /\ caching_block \subseteq Blocks
    /\ fetch_pending \subseteq Blocks
    /\ gpc \in [Fetchers -> {"idle", "copy"}] /\ gblk \in [Fetchers -> 0 .. MaxBlocks]
    /\ wblk \in [Workers -> 0 .. MaxBlocks]
    /\ clean \in BOOLEAN

\* close() never takes away what a task still needs, though it cancels none: a
\* flush that has entries finds the index open, a fetch finds its source, and
\* when ready goes up no task of the old store is left to meet the new one.
TasksKeepStore ==
    clean =>
        /\ \A f \in Flushers : fpc[f] = "loop" => index = "open"
        /\ \A g \in Fetchers : gpc[g] = "copy" => gblk[g] \in hdd
        /\ (\E c \in Creators : cpc[c] \in {"wipe", "setup", "opened"}) =>
              NoFetches /\ flush_pending = {} /\ \A f \in Flushers : fpc[f] = "idle"

\* A store that was opened anew knows nothing of blocks whose ids it will use
\* again: not in the index, not as cached or as being fetched (also those that
\* a fetch had left there for ever), and no file of theirs is left.
OpensEmpty ==
    clean /\ (\E c \in Creators : cpc[c] = "opened") =>
        /\ blocks = {} /\ index_blocks = {} /\ hdd = {} /\ ssd = {}
        /\ cached_block = {} /\ caching_block = {} /\ latest_block_id = 0

\* As long as no reset came under a worker, a worker that was sent to a block
\* finds its file, on the SSD or on the HDD, and the process does not abort for
\* the want of it.
BlockHasFile ==
    clean /\ store = "open" =>
        /\ index_blocks \subseteq hdd
        /\ cached_block \subseteq ssd
        /\ \A w \in Workers : wpc[w] = "block" => wblk[w] \in index_blocks

\* The flags of main.cpp, the store and the HDD behave as MogServer says.
RefinesServer == Spec
=============================================================================
