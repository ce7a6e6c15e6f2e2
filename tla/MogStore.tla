------------------------------ MODULE MogStore ------------------------------
(***************************************************************************)
(* mog::read_file on a store that is ready: worker threads of the server   *)
(* look for a file in the write buffer, then in the RAM cache, then by the *)
(* central index in a block on SSD or HDD, and when all miss they read it  *)
(* from the file system and write it to the buffer.  No lock spans two of  *)
(* these steps.  WriteBuffer, which this module extends, gives the buffer, *)
(* its flushers, the block files and the index; here its callers are the   *)
(* workers that missed.                                                    *)
(***************************************************************************)
EXTENDS WriteBuffer, Functions

CONSTANTS
    File,          \* key -> contents of the file, None if it cannot be opened
    Garbage,       \* bytes of no one file: memory never filled, pieces of several
    cpu_page_num,  \* pages of the RAM cache
    HDD_page_num   \* pages the configuration gives to the HDD

ASSUME StoreAssumption ==
    /\ File \in [Keys -> Values \cup {None}]
    /\ None \notin Values
    /\ Garbage \notin Values \cup {None}
    /\ cpu_page_num \in Nat
    /\ HDD_page_num \in Nat

VARIABLES
    rpc,            \* workers: where they are in read_file
    rkey,           \* the key they were asked for
    rloc,           \* CpuCache::read's key_centra_index: a place in a block
    rlen,           \* the length read_file returns
    mog_data,       \* what is at the front of the memory they copy replies to
    cached_item,    \* RAM cache: key -> length and bytes of each insertion
    free_slab_num,  \* RAM cache: free slabs of 1 KB
    ssd,            \* block id -> what the SSD cache has of it
    mog_total_size, \* mog::total_size, bytes of files written
    shortRead       \* history: keys of which some fread gave less than asked for

reading == <<rpc, rkey, rloc, rlen>>
copies == <<mog_data, shortRead>>
caches == <<cached_item, free_slab_num, ssd>>
storeVars == <<vars, reading, copies, caches, mog_total_size>>

slab_num == cpu_page_num * 1024
HddLimit == (95 * 1024 * 1024 * HDD_page_num) \div 100
Slabs(v) == SlabBytes(Length[v]) \div 1024
FileLength(k) == IF File[k] = None THEN 0 ELSE Length[File[k]]

StoreInit ==
    /\ Init
    /\ rpc = [w \in Workers |-> "idle"]
    /\ rkey = [w \in Workers |-> None]
    /\ rloc = [w \in Workers |-> None]
    /\ rlen = [w \in Workers |-> 0]
    /\ mog_data = [w \in Workers |-> Garbage]
    /\ cached_item = [k \in Keys |-> <<>>]
    /\ free_slab_num = slab_num
    /\ ssd = [b \in BlockIds |-> "none"]
    /\ mog_total_size = 0
    /\ shortRead = {}

At(w, here, there) == rpc[w] = here /\ rpc' = [rpc EXCEPT ![w] = there]

\* A worker's memory is allocated once, for all its requests: what is not
\* written over stays.
Fills(w, v) == mog_data' = IF Length[v] = 0 THEN mog_data ELSE [mog_data EXCEPT ![w] = v]

Request(w, k) ==
    /\ At(w, "idle", "buffer")
    /\ rkey' = [rkey EXCEPT ![w] = k]
    /\ UNCHANGED <<vars, rloc, rlen, copies, caches, mog_total_size>>

\* WriteBuffer::read, with wbuffer_lock shared: by hash, whatever the key.
\* A value of length 0 counts as a miss.
BufferRead(w) ==
    LET e == kv_store[Hash[rkey[w]]]
        hit == e # None /\ Length[e.value] > 0
    IN  /\ rpc[w] = "buffer"
        /\ wbuffer_lock = None
        /\ rpc' = [rpc EXCEPT ![w] = IF hit THEN "reply" ELSE "cache"]
        /\ rlen' = IF hit THEN [rlen EXCEPT ![w] = Length[e.value]] ELSE rlen
        /\ IF hit THEN Fills(w, e.value) ELSE UNCHANGED mog_data
        /\ UNCHANGED <<vars, rkey, rloc, shortRead, caches, mog_total_size>>

\* Back in read_file: a length of 0, from cache or disk, is "no such file".
AfterRead(length) == IF length = 0 THEN "file" ELSE "reply"

\* CpuCache::read finds the item: all its slabs are copied in their order, so
\* the bytes come from the first insertion; the length was set by the last.
CacheHit(w) ==
    LET item == cached_item[rkey[w]]
        length == item[Len(item)].length
    IN  /\ rpc[w] = "cache"
        /\ item # <<>>
        /\ rpc' = [rpc EXCEPT ![w] = AfterRead(length)]
        /\ rlen' = [rlen EXCEPT ![w] = length]
        /\ mog_data' = [mog_data EXCEPT ![w] = item[1].bytes]
        /\ UNCHANGED <<vars, rkey, rloc, shortRead, caches, mog_total_size>>

CacheMiss(w) ==
    /\ At(w, "cache", "index")
    /\ cached_item[rkey[w]] = <<>>
    /\ UNCHANGED <<vars, rkey, rloc, rlen, copies, caches, mog_total_size>>

\* CentraIndex::get.
IndexGet(w) ==
    /\ At(w, "index", IF index[rkey[w]] = None THEN "file" ELSE "disk")
    /\ rloc' = [rloc EXCEPT ![w] = index[rkey[w]]]
    /\ UNCHANGED <<vars, rkey, rlen, copies, caches, mog_total_size>>

Placed(loc) == hdd[loc.block][loc.pos].value

\* All bytes of a place are in the file that is read: in the block's own, once
\* it was closed; the stream has a buffer.  A copy on the SSD stays as it is.
Whole(loc) ==
    \/ ssd[loc.block] = "whole"
    \/ ssd[loc.block] = "none" /\ loc.block \in closed
    \/ Length[Placed(loc)] = 0

\* The block is read elsewhere, and not copied.
DiskReadElsewhere(w) ==
    /\ At(w, "disk", "insert")
    /\ UNCHANGED <<vars, rkey, rloc, rlen, copies, caches, mog_total_size>>

\* SSDCache::read, which looks at no count of fread.  Where bytes are missing
\* from the file, those of earlier replies stay in the worker's memory: all of
\* them, or behind what there was to read, and then they are of several files.
DiskRead(w) ==
    LET loc == rloc[w]
    IN  /\ At(w, "disk", "insert")
        /\ \/ Fills(w, Placed(loc)) /\ UNCHANGED shortRead
           \/ /\ ~Whole(loc)
              /\ mog_data' \in {mog_data, [mog_data EXCEPT ![w] = Garbage]}
              /\ shortRead' = shortRead \cup {rkey[w]}
        /\ UNCHANGED <<vars, rkey, rloc, rlen, caches, mog_total_size>>

\* CpuCache::insert: not if slabs are short; and no test of what is cached.
\* The length is the index's, the bytes are what the worker's memory holds.
CacheInsert(w) ==
    LET k == rkey[w]
        v == Placed(rloc[w])
    IN  /\ At(w, "insert", AfterRead(Length[v]))
        /\ rlen' = [rlen EXCEPT ![w] = Length[v]]
        /\ IF free_slab_num < Slabs(v)
           THEN UNCHANGED <<cached_item, free_slab_num>>
           ELSE /\ cached_item' = [cached_item EXCEPT
                      ![k] = Append(@, [length |-> Length[v], bytes |-> mog_data[w]])]
                /\ free_slab_num' = free_slab_num - Slabs(v)
        /\ UNCHANGED <<vars, rkey, rloc, copies, ssd, mog_total_size>>

\* No budget.
MayStoreAny(v) == Length[v] <= MaxLength

\* insert_file_with_copy: the file is read; it is also written to the buffer
\* if it fits a page and the HDD's budget, as counted so far, is not used up.
MayStore(v) == Length[v] <= MaxLength /\ mog_total_size <= HddLimit

\* A file that cannot be opened has length 0 for the client.
FileOnly(w) ==
    LET v == File[rkey[w]]
    IN  /\ At(w, "file", "reply")
        /\ v # None => ~MayStore(v)
        /\ rlen' = [rlen EXCEPT ![w] = FileLength(rkey[w])]
        /\ IF v = None THEN UNCHANGED mog_data ELSE Fills(w, v)
        /\ UNCHANGED <<vars, rkey, rloc, shortRead, caches, mog_total_size>>

FileStore(w) ==
    LET v == File[rkey[w]]
    IN  /\ At(w, "file", "write")
        /\ v # None /\ MayStore(v)
        /\ Call(w, rkey[w], v)
        /\ UNCHANGED <<rkey, rloc, rlen, copies, caches, mog_total_size>>

\* write() returned, 0 or -1: the length is counted either way, and what was
\* read from the file is copied.
Stored(w) ==
    LET v == File[rkey[w]]
    IN  /\ At(w, "write", "reply")
        /\ wpc[w] = "idle"
        /\ mog_total_size' = mog_total_size + Length[v]
        /\ rlen' = [rlen EXCEPT ![w] = Length[v]]
        /\ Fills(w, v)
        /\ UNCHANGED <<vars, rkey, rloc, shortRead, caches>>

\* The reply is the first rlen[w] bytes of mog_data[w], which stay there.
Reply(w) ==
    /\ At(w, "reply", "idle")
    /\ rkey' = [rkey EXCEPT ![w] = None]
    /\ rloc' = [rloc EXCEPT ![w] = None]
    /\ rlen' = [rlen EXCEPT ![w] = 0]
    /\ UNCHANGED <<vars, copies, caches, mog_total_size>>

\* SSDCache::fetch copies a block the index has named, as its file then is, and
\* eviction removes the copy.  That a copy is read only some time after it was
\* made allows nothing more: until then the block file has all it has.
SsdCopy(b) ==
    /\ ssd[b] = "none"
    /\ hdd[b] # <<>>
    /\ ssd' = [ssd EXCEPT ![b] = IF b \in closed THEN "whole" ELSE "partial"]
    /\ UNCHANGED <<vars, reading, copies, cached_item, free_slab_num, mog_total_size>>

SsdEvict(b) ==
    /\ ssd[b] # "none"
    /\ ssd' = [ssd EXCEPT ![b] = "none"]
    /\ UNCHANGED <<vars, reading, copies, cached_item, free_slab_num, mog_total_size>>

ReadLocal(w) ==
    \/ CacheHit(w) \/ CacheMiss(w) \/ IndexGet(w) \/ DiskRead(w) \/ CacheInsert(w)
    \/ FileOnly(w) \/ FileStore(w) \/ Stored(w) \/ Reply(w)

\* The steps inside WriteBuffer leave the rest of the store alone.
BufferStep ==
    /\ (\E w \in Workers : Write(w)) \/ (\E f \in Flushers : Flush(f))
    /\ UNCHANGED <<reading, copies, caches, mog_total_size>>

StoreNext ==
    \/ \E w \in Workers : (\E k \in Keys : Request(w, k)) \/ BufferRead(w) \/ ReadLocal(w)
    \/ BufferStep
    \/ \E b \in BlockIds : SsdCopy(b) \/ SsdEvict(b)

StoreSpec == StoreInit /\ [][StoreNext]_storeVars
-----------------------------------------------------------------------------
(***************************************************************************)
(* Properties                                                              *)
(***************************************************************************)

Insertion == [length : Nat, bytes : Values \cup {Garbage}]

\* Types of what the store adds to the buffer.
StoreTypeOK ==
    /\ rpc \in [Workers -> {"idle", "buffer", "cache", "index", "disk", "insert",
                            "file", "write", "reply"}]
    /\ rkey \in [Workers -> Keys \cup {None}]
    /\ rloc \in [Workers -> [block : BlockIds, pos : Nat \ {0}] \cup {None}]
    /\ rlen \in [Workers -> Nat]
    /\ mog_data \in [Workers -> Values \cup {Garbage}]
    /\ cached_item \in [Keys -> Seq(Insertion)]
    /\ free_slab_num \in 0 .. slab_num
    /\ ssd \in [BlockIds -> {"none", "partial", "whole"}]
    /\ mog_total_size \in Nat
    /\ shortRead \subseteq Keys

\* Whatever the place a reply comes from, and whatever was moved between two
\* looks: its length is the file's, so that it is never "no such file" for a
\* file there is; and its bytes are the file's, unless a read of this very file
\* came before its block was written out.  Then they may be another file's; but
\* the memory that workers use again for all replies, and the RAM cache, which
\* keeps such bytes for good, spoil the reply for no other file.
RepliesRight ==
    \A w \in Workers : rpc[w] = "reply" =>
        /\ rlen[w] = FileLength(rkey[w])
        /\ rlen[w] > 0 /\ rkey[w] \notin shortRead => mog_data[w] = File[rkey[w]]

\* What the RAM cache keeps of a key, of every insertion: the file's length, and
\* its bytes unless a read of this file was short.  An insertion takes what the
\* worker's memory holds, whoever's file that is.
RamCacheRight ==
    \A k \in Keys : \A i \in DOMAIN cached_item[k] :
        LET item == cached_item[k][i] IN
        /\ item.length = FileLength(k)
        /\ item.length > 0 /\ k \notin shortRead => item.bytes = File[k]

\* Bytes of files in memory, and in block files.
InMemory == {h \in Hashes : kv_store[h] # None}
OnDisk == UNION {{b} \X DOMAIN hdd[b] : b \in BlockIds}
StoredBytes ==
    SumFunction([h \in InMemory |-> Length[kv_store[h].value]])
        + SumFunction([p \in OnDisk |-> Length[hdd[p[1]][p[2]].value]])

\* Workers test the HDD's budget before they write and count after it, so what
\* is stored passes it by at most a file for each of them.
BudgetKept == StoredBytes <= HddLimit + Cardinality(Workers) * MaxLength

\* CpuCache.cpp:109: where the item is inserted "there is no such item in the
\* cache".
InsertsAbsentItem ==
    \A w \in Workers : rpc[w] = "insert" => cached_item[rkey[w]] = <<>>
=============================================================================
