--------------------------- MODULE SSDCacheProofs ---------------------------
(***************************************************************************)
(* Proofs about SSDCache, for any block files, readers, pool threads and   *)
(* sizes of the cache, and about the ThreadPool under it, for any finite   *)
(* set of workers and any tasks.                                           *)
(***************************************************************************)
EXTENDS SSDCache, ThreadPool, FiniteSetTheorems, SequenceTheorems, TLAPS

\* The write lock is held by the fetcher that installs, evicts and ends, and
\* while it is no reader is inside.
Locking ==
    /\ \A f \in Fetchers : fpc[f] \in {"evict", "end"} <=> cache_lock = f
    /\ cache_lock # None => \A r \in Readers : rpc[r] = "idle"

Busy == \A f \in Fetchers : fblk[f] = None <=> fpc[f] = "idle"

\* A reader that was sent to the SSD still has its block in the cache.
Reading == \A r \in Readers :
    /\ rpc[r] # "idle" => rblk[r] \in Blocks
    /\ rpc[r] = "ssd" => rblk[r] \in cached_block

Distinct == \A i, j \in DOMAIN cached_block_id : cached_block_id[i] = cached_block_id[j] => i = j

\* A block that is waiting to be fetched or under way is not cached.
NotCached ==
    /\ \A b \in Blocks : Scheduled(b) => b \notin cached_block
    /\ \A f \in Fetchers : fpc[f] \in {"copy", "copying", "install"} => fblk[f] \notin cached_block

\* A file on the SSD is that of a cached block, whole, or of one being copied.
FilesKnown ==
    /\ \A b \in cached_block : ssd_file[b] = "whole"
    /\ \A f \in Fetchers : fpc[f] = "install" => ssd_file[fblk[f]] = "whole"
    /\ \A b \in Blocks : ssd_file[b] # "none" =>
        b \in cached_block \/ \E f \in Fetchers : fblk[f] = b /\ fpc[f] \in {"copying", "install"}

\* Fetches that passed the test of the size and have not been counted.
InFlight == {f \in Fetchers : fpc[f] \in {"copy", "copying", "install"}}
Room == block_num + Cardinality(InFlight) < max_block_num + Cardinality(Fetchers)

IInv == /\ TypeOK /\ Locking /\ Busy /\ Reading /\ OneFetch /\ Distinct /\ CacheAgrees
        /\ IsFiniteSet(cached_block) /\ NotCached /\ FilesKnown /\ Room
-----------------------------------------------------------------------------
\* Fetches that run can be counted.
LEMMA InFlightFinite == IsFiniteSet(InFlight) /\ Cardinality(InFlight) \in Nat
                        /\ Cardinality(InFlight) <= Cardinality(Fetchers)
                        /\ Cardinality(Fetchers) \in Nat \ {0}
<1>1. InFlight \subseteq Fetchers
  BY DEF InFlight
<1>2. Cardinality(Fetchers) \in Nat /\ Cardinality(Fetchers) # 0
  BY PoolAssumption, FS_CardinalityType, FS_EmptySet
<1> QED
  BY <1>1, <1>2, PoolAssumption, FS_Subset, FS_CardinalityType

\* The same after a step.
LEMMA InFlightNext == IsFiniteSet(InFlight') /\ Cardinality(InFlight') \in Nat
                      /\ Cardinality(InFlight') <= Cardinality(Fetchers)
<1>1. InFlight' \subseteq Fetchers
  BY DEF InFlight
<1> QED
  BY <1>1, PoolAssumption, FS_Subset, FS_CardinalityType

\* The choice of a block is of one block, or none.
LEMMA LastUnique ==
    ASSUME TypeOK, NEW b \in Last, NEW c \in Last
    PROVE  b = c
<1>1. b \in Candidates /\ c \in Candidates /\ b \in Blocks /\ c \in Blocks
  BY DEF Last, Candidates
<1>2. /\ read_record[b] < read_record[c] \/ (read_record[b] = read_record[c] /\ b >= c)
      /\ read_record[c] < read_record[b] \/ (read_record[c] = read_record[b] /\ c >= b)
  BY <1>1 DEF Last
<1>3. read_record[b] \in Nat /\ read_record[c] \in Nat /\ b \in Nat /\ c \in Nat
  BY <1>1, IdAssumption DEF TypeOK
<1> QED
  BY <1>2, <1>3

\* The invariant holds at the start.
LEMMA InitInv == Init => IInv
<1> SUFFICES ASSUME Init PROVE IInv
  OBVIOUS
<1>1. TypeOK
  BY CacheThreadAssumption DEF Init, TypeOK
<1>2. Locking /\ Busy /\ Reading /\ Distinct
  BY CacheThreadAssumption DEF Init, Locking, Busy, Reading, Distinct
<1>3. OneFetch /\ NotCached
  BY CacheThreadAssumption DEF Init, OneFetch, NotCached, Scheduled
<1>4. CacheAgrees /\ IsFiniteSet(cached_block)
  BY FS_EmptySet DEF Init, CacheAgrees
<1>5. FilesKnown
  BY DEF Init, FilesKnown
<1>6. Room
  <2>1. InFlight = {}
    BY DEF Init, InFlight
  <2> QED
    BY <2>1, FS_EmptySet, InFlightFinite, CapacityAssumption DEF Init, Room
<1> QED
  BY <1>1, <1>2, <1>3, <1>4, <1>5, <1>6 DEF IInv
-----------------------------------------------------------------------------
\* What a step of a reader leaves alone.
ReaderFrame ==
    /\ UNCHANGED <<cache, ssd_file, cache_lock, fetchers>>
    /\ \E r \in Readers : /\ rpc[r] # "idle" \/ cache_lock = None
                          /\ \A q \in Readers \ {r} : rpc'[q] = rpc[q] /\ rblk'[q] = rblk[q]

\* A step of a reader that keeps these four parts keeps the invariant.
LEMMA ReaderInv ==
    ASSUME IInv, ReaderFrame, TypeOK', Reading', OneFetch', NotCached'
    PROVE  IInv'
<1>a. /\ block_num' = block_num /\ cached_block_id' = cached_block_id
      /\ cached_block' = cached_block /\ ssd_file' = ssd_file /\ cache_lock' = cache_lock
      /\ fpc' = fpc /\ fblk' = fblk
  BY DEF ReaderFrame, cache, fetchers
<1>1. Locking'
  <2>1. cache_lock = None
    BY DEF IInv, Locking, ReaderFrame
  <2> QED
    BY <1>a, <2>1 DEF IInv, Locking
<1>2. Busy' /\ Distinct' /\ CacheAgrees' /\ IsFiniteSet(cached_block)' /\ FilesKnown'
  BY <1>a DEF IInv, Busy, Distinct, CacheAgrees, FilesKnown
<1>3. Room'
  BY <1>a DEF IInv, Room, InFlight
<1> QED
  BY <1>1, <1>2, <1>3 DEF IInv

\* Steps of a reader that schedule no fetch keep the invariant.
LEMMA PlainReadInv ==
    ASSUME IInv, NEW r \in Readers,
           (\E b \in Blocks : Count(r, b)) \/ Bump(r) \/ Test(r) \/ Find(r) \/ Serve(r)
    PROVE  IInv'
<1>a. IInv
  OBVIOUS
<1>b. /\ block_num' = block_num /\ cached_block_id' = cached_block_id
      /\ cached_block' = cached_block /\ ssd_file' = ssd_file /\ cache_lock' = cache_lock
      /\ fpc' = fpc /\ fblk' = fblk /\ pending' = pending /\ caching_block' = caching_block
  BY DEF Count, Bump, Test, Find, Serve, cache, fetchers
<1>1. ReaderFrame
  BY <1>a, <1>b DEF ReaderFrame, Count, Bump, Test, Find, Serve, Reads, cache, fetchers, IInv, TypeOK
<1>2. TypeOK'
  <2>1. /\ read_record' \in [Blocks -> Nat] /\ read_num' \in Nat
        /\ rblk' \in [Readers -> Blocks \cup {None}]
    <3>1. CASE \E b \in Blocks : Count(r, b)
      BY <1>a, <3>1 DEF IInv, TypeOK, Count
    <3>2. CASE Bump(r)
      BY <1>a, <3>2 DEF IInv, TypeOK, Bump
    <3>3. CASE Test(r) \/ Find(r)
      BY <1>a, <3>3 DEF IInv, TypeOK, Test, Find, counts
    <3>4. CASE Serve(r)
      BY <1>a, <3>4 DEF IInv, TypeOK, Serve, counts
    <3> QED
      BY <3>1, <3>2, <3>3, <3>4
  <2>2. rpc' \in [Readers -> {"idle", "bump", "test", "select", "find", "ssd", "hdd"}]
    BY <1>a DEF IInv, TypeOK, Count, Bump, Test, Find, Serve, Reads
  <2> QED
    BY <1>a, <1>b, <2>1, <2>2 DEF IInv, TypeOK
<1>3. Reading'
  BY <1>a, <1>b DEF IInv, TypeOK, Reading, Count, Bump, Test, Find, Serve, Reads
<1>4. OneFetch' /\ NotCached'
  BY <1>a, <1>b DEF IInv, OneFetch, NotCached, Scheduled
<1> QED
  BY <1>1, <1>2, <1>3, <1>4, ReaderInv

\* A block is chosen only if it has no fetch and is not cached.
LEMMA SelectInv ==
    ASSUME IInv, NEW r \in Readers, Select(r)
    PROVE  IInv'
<1>a. IInv
  OBVIOUS
<1>b. /\ block_num' = block_num /\ cached_block_id' = cached_block_id
      /\ cached_block' = cached_block /\ ssd_file' = ssd_file /\ cache_lock' = cache_lock
      /\ fpc' = fpc /\ fblk' = fblk /\ rblk' = rblk
      /\ rpc[r] = "select" /\ rpc' = [rpc EXCEPT ![r] = "find"]
      /\ read_num' = 0 /\ read_record' = [b \in Blocks |-> 0]
  BY DEF Select, Reads, cache, fetchers
<1>1. ReaderFrame
  BY <1>a, <1>b DEF ReaderFrame, cache, fetchers, IInv, TypeOK
<1>2. Reading'
  BY <1>a, <1>b DEF IInv, TypeOK, Reading
<1>3. CASE NewFetch = {}
  <2>1. pending' = pending /\ caching_block' = caching_block
    BY <1>3 DEF Select
  <2>2. TypeOK' /\ OneFetch' /\ NotCached'
    BY <1>a, <1>b, <2>1 DEF IInv, TypeOK, OneFetch, NotCached, Scheduled
  <2> QED
    BY <1>1, <1>2, <2>2, ReaderInv
<1>4. CASE NewFetch # {}
  <2> DEFINE new == CHOOSE b \in NewFetch : TRUE
  <2>1. new \in NewFetch
    BY <1>4
  <2>2. new \in Blocks /\ new \notin caching_block /\ new \notin cached_block /\ NewFetch = {new}
    BY <1>a, <2>1, LastUnique DEF NewFetch, Last, Candidates, IInv
  <2>3. pending' = Append(pending, new) /\ caching_block' = caching_block \cup {new}
    BY <1>4, <2>2 DEF Select
  <2>4. pending \in Seq(Blocks) /\ ~Scheduled(new) /\ \A f \in Fetchers : fblk[f] # new
    BY <1>a, <2>2 DEF IInv, TypeOK, OneFetch
  <2> HIDE DEF new
  <2>5. pending' \in Seq(Blocks) /\ DOMAIN pending' = 1 .. Len(pending) + 1
        /\ \A k \in DOMAIN pending' : pending'[k] = IF k \in DOMAIN pending THEN pending[k] ELSE new
    BY <2>2, <2>3, <2>4
  <2>6. TypeOK'
    BY <1>a, <1>b, <2>2, <2>3, <2>5 DEF IInv, TypeOK
  <2>7. \A b \in Blocks : Scheduled(b)' <=> Scheduled(b) \/ b = new
    <3>1. DOMAIN pending = 1 .. Len(pending) /\ Len(pending) \in Nat
      BY <2>4
    <3> QED
      BY <2>5, <3>1 DEF Scheduled
  <2>8. OneFetch'
    <3>1. \A i, j \in DOMAIN pending' : pending'[i] = pending'[j] => i = j
      <4>1. DOMAIN pending = 1 .. Len(pending) /\ Len(pending) \in Nat
        BY <2>4
      <4>2. \A i, j \in DOMAIN pending : pending[i] = pending[j] => i = j
        BY <1>a DEF IInv, OneFetch
      <4>3. \A i \in DOMAIN pending : pending[i] # new
        BY <2>4 DEF Scheduled
      <4> QED
        BY <2>5, <4>1, <4>2, <4>3
    <3>2. \A b \in Blocks : ~(Scheduled(b)' /\ \E f \in Fetchers : fblk[f] = b)
      BY <1>a, <2>4, <2>7 DEF IInv, OneFetch
    <3>3. \A b \in Blocks : Scheduled(b)' \/ (\E f \in Fetchers : fblk[f] = b)
                                => b \in caching_block'
      BY <1>a, <2>3, <2>7 DEF IInv, OneFetch
    <3> QED
      BY <1>a, <1>b, <3>1, <3>2, <3>3 DEF IInv, OneFetch
  <2>9. NotCached'
    BY <1>a, <1>b, <2>2, <2>7 DEF IInv, NotCached
  <2> QED
    BY <1>1, <1>2, <2>6, <2>8, <2>9, ReaderInv
<1> QED
  BY <1>3, <1>4
-----------------------------------------------------------------------------
\* A task moves from the queue to one fetcher, if the size allows it.
LEMMA FetchStartInv ==
    ASSUME IInv, NEW f \in Fetchers, FetchStart(f)
    PROVE  IInv'
<1>a. IInv
  OBVIOUS
<1>b. /\ block_num' = block_num /\ cached_block_id' = cached_block_id
      /\ cached_block' = cached_block /\ ssd_file' = ssd_file /\ cache_lock' = cache_lock
      /\ caching_block' = caching_block /\ read_record' = read_record /\ read_num' = read_num
      /\ rpc' = rpc /\ rblk' = rblk
      /\ fpc[f] = "idle" /\ pending # <<>> /\ pending' = Tail(pending)
  BY DEF FetchStart, Fetches, cache, counts, readers
<1>c. /\ pending \in Seq(Blocks) /\ Len(pending) \in Nat \ {0} /\ Head(pending) \in Blocks
      /\ pending' \in Seq(Blocks) /\ DOMAIN pending = 1 .. Len(pending)
      /\ DOMAIN pending' = 1 .. Len(pending) - 1
      /\ \A k \in DOMAIN pending' : k + 1 \in DOMAIN pending /\ pending'[k] = pending[k + 1]
      /\ 1 \in DOMAIN pending /\ pending[1] = Head(pending)
  <2>1. pending \in Seq(Blocks)
    BY <1>a DEF IInv, TypeOK
  <2> QED
    BY <1>b, <2>1
<1>d. \A b \in Blocks : Scheduled(b)' => Scheduled(b) /\ b # Head(pending)
  <2>1. \A i, j \in DOMAIN pending : pending[i] = pending[j] => i = j
    BY <1>a DEF IInv, OneFetch
  <2>2. SUFFICES ASSUME NEW b \in Blocks, NEW k \in DOMAIN pending', pending'[k] = b
                 PROVE  Scheduled(b) /\ b # Head(pending)
    BY DEF Scheduled
  <2>3. k + 1 \in DOMAIN pending /\ pending[k + 1] = b /\ k + 1 # 1
    BY <1>c, <2>2
  <2> QED
    BY <1>c, <2>1, <2>3 DEF Scheduled
<1>e. Scheduled(Head(pending)) /\ Head(pending) # None
  BY <1>c, CacheThreadAssumption DEF Scheduled
<1>f. \A i, j \in DOMAIN pending' : pending'[i] = pending'[j] => i = j
  BY <1>a, <1>c DEF IInv, OneFetch
<1>1. CASE block_num < max_block_num
  <2>1. fpc' = [fpc EXCEPT ![f] = "copy"] /\ fblk' = [fblk EXCEPT ![f] = Head(pending)]
    BY <1>1 DEF FetchStart, Fetches
  <2>2. TypeOK'
    BY <1>a, <1>b, <1>c, <2>1 DEF IInv, TypeOK
  <2>3. Locking' /\ Busy' /\ Reading'
    BY <1>a, <1>b, <1>e, <2>1 DEF IInv, TypeOK, Locking, Busy, Reading
  <2>4. OneFetch'
    <3>1. \A g \in Fetchers : fblk[g] # Head(pending)
      BY <1>a, <1>c, <1>e DEF IInv, OneFetch
    <3>2. \A g, h \in Fetchers : fblk'[g] = fblk'[h] /\ fblk'[g] # None => g = h
      BY <1>a, <2>1, <3>1 DEF IInv, OneFetch, TypeOK
    <3>3. \A b \in Blocks : (\E g \in Fetchers : fblk'[g] = b)
                                => b = Head(pending) \/ \E g \in Fetchers : fblk[g] = b
      BY <1>a, <2>1 DEF IInv, TypeOK
    <3>4. \A b \in Blocks : ~(Scheduled(b)' /\ \E g \in Fetchers : fblk'[g] = b)
      BY <1>a, <1>d, <3>3 DEF IInv, OneFetch
    <3>5. \A b \in Blocks : Scheduled(b)' \/ (\E g \in Fetchers : fblk'[g] = b)
                                => b \in caching_block'
      BY <1>a, <1>b, <1>c, <1>d, <1>e, <3>3 DEF IInv, OneFetch
    <3> QED
      BY <1>f, <3>2, <3>4, <3>5 DEF OneFetch
  <2>5. Distinct' /\ CacheAgrees' /\ IsFiniteSet(cached_block)'
    BY <1>a, <1>b DEF IInv, Distinct, CacheAgrees
  <2>6. NotCached'
    BY <1>a, <1>b, <1>c, <1>d, <1>e, <2>1 DEF IInv, TypeOK, NotCached
  <2>7. FilesKnown'
    BY <1>a, <1>b, <2>1 DEF IInv, TypeOK, FilesKnown
  <2>8. Room'
    BY <1>1, <1>b, InFlightFinite, InFlightNext, <1>a, CapacityAssumption DEF Room, IInv, TypeOK
  <2> QED
    BY <2>2, <2>3, <2>4, <2>5, <2>6, <2>7, <2>8 DEF IInv
<1>2. CASE ~(block_num < max_block_num)
  <2>1. fpc' = [fpc EXCEPT ![f] = "idle"] /\ fblk' = [fblk EXCEPT ![f] = None]
    BY <1>2 DEF FetchStart, Fetches
  <2>2. fpc' = fpc /\ fblk' = fblk
    BY <1>a, <1>b, <2>1 DEF IInv, TypeOK, Busy
  <2>3. TypeOK'
    BY <1>a, <1>b, <1>c, <2>2 DEF IInv, TypeOK
  <2>4. Locking' /\ Busy' /\ Reading' /\ Distinct' /\ CacheAgrees' /\ IsFiniteSet(cached_block)'
    BY <1>a, <1>b, <2>2 DEF IInv, Locking, Busy, Reading, Distinct, CacheAgrees
  <2>5. OneFetch' /\ NotCached'
    BY <1>a, <1>b, <1>d, <1>f, <2>2 DEF IInv, OneFetch, NotCached
  <2>6. FilesKnown' /\ Room'
    BY <1>a, <1>b, <2>2 DEF IInv, FilesKnown, Room, InFlight
  <2> QED
    BY <2>3, <2>4, <2>5, <2>6 DEF IInv
<1> QED
  BY <1>1, <1>2

\* The copy creates a file that was not there.
LEMMA CopyOpenInv ==
    ASSUME IInv, NEW f \in Fetchers, CopyOpen(f)
    PROVE  IInv'
<1>a. IInv
  OBVIOUS
<1>b. /\ block_num' = block_num /\ cached_block_id' = cached_block_id
      /\ cached_block' = cached_block /\ cache_lock' = cache_lock /\ fblk' = fblk
      /\ caching_block' = caching_block /\ read_record' = read_record /\ read_num' = read_num
      /\ rpc' = rpc /\ rblk' = rblk /\ pending' = pending
      /\ fpc[f] = "copy" /\ fpc' = [fpc EXCEPT ![f] = "copying"]
      /\ ssd_file' = [ssd_file EXCEPT ![fblk[f]] = "partial"]
  BY DEF CopyOpen, Fetches, cache, counts, readers
<1>c. fblk[f] \in Blocks /\ fblk[f] \notin cached_block
      /\ \A g \in Fetchers \ {f} : fblk[g] # fblk[f]
  BY <1>a, <1>b DEF IInv, TypeOK, Busy, NotCached, OneFetch
<1>1. TypeOK'
  BY <1>a, <1>b DEF IInv, TypeOK
<1>2. Locking' /\ Busy' /\ Reading' /\ Distinct' /\ CacheAgrees' /\ IsFiniteSet(cached_block)'
  BY <1>a, <1>b DEF IInv, TypeOK, Locking, Busy, Reading, Distinct, CacheAgrees
<1>3. OneFetch' /\ NotCached'
  BY <1>a, <1>b DEF IInv, TypeOK, OneFetch, NotCached, Scheduled
<1>4. FilesKnown'
  BY <1>a, <1>b, <1>c DEF IInv, TypeOK, FilesKnown
<1>5. Room'
  <2>1. InFlight' = InFlight
    BY <1>a, <1>b DEF InFlight, IInv, TypeOK
  <2> QED
    BY <1>a, <1>b, <2>1 DEF IInv, Room
<1> QED
  BY <1>1, <1>2, <1>3, <1>4, <1>5 DEF IInv

\* At its end the file is whole.
LEMMA CopyEndInv ==
    ASSUME IInv, NEW f \in Fetchers, CopyEnd(f)
    PROVE  IInv'
<1>a. IInv
  OBVIOUS
<1>b. /\ block_num' = block_num /\ cached_block_id' = cached_block_id
      /\ cached_block' = cached_block /\ cache_lock' = cache_lock /\ fblk' = fblk
      /\ caching_block' = caching_block /\ read_record' = read_record /\ read_num' = read_num
      /\ rpc' = rpc /\ rblk' = rblk /\ pending' = pending
      /\ fpc[f] = "copying" /\ fpc' = [fpc EXCEPT ![f] = "install"]
      /\ ssd_file' = [ssd_file EXCEPT ![fblk[f]] = "whole"]
  BY DEF CopyEnd, Fetches, cache, counts, readers
<1>c. fblk[f] \in Blocks /\ fblk[f] \notin cached_block
      /\ \A g \in Fetchers \ {f} : fblk[g] # fblk[f]
  BY <1>a, <1>b DEF IInv, TypeOK, Busy, NotCached, OneFetch
<1>1. TypeOK'
  BY <1>a, <1>b DEF IInv, TypeOK
<1>2. Locking' /\ Busy' /\ Reading' /\ Distinct' /\ CacheAgrees' /\ IsFiniteSet(cached_block)'
  BY <1>a, <1>b DEF IInv, TypeOK, Locking, Busy, Reading, Distinct, CacheAgrees
<1>3. OneFetch' /\ NotCached'
  BY <1>a, <1>b DEF IInv, TypeOK, OneFetch, NotCached, Scheduled
<1>4. FilesKnown'
  BY <1>a, <1>b, <1>c DEF IInv, TypeOK, FilesKnown
<1>5. Room'
  <2>1. InFlight' = InFlight
    BY <1>a, <1>b DEF InFlight, IInv, TypeOK
  <2> QED
    BY <1>a, <1>b, <2>1 DEF IInv, Room
<1> QED
  BY <1>1, <1>2, <1>3, <1>4, <1>5 DEF IInv

\* With the write lock a whole file becomes a cached block.
LEMMA InstallInv ==
    ASSUME IInv, NEW f \in Fetchers, Install(f)
    PROVE  IInv'
<1> DEFINE b == fblk[f]
<1>a. IInv
  OBVIOUS
<1>b. /\ caching_block' = caching_block /\ read_record' = read_record /\ read_num' = read_num
      /\ rpc' = rpc /\ rblk' = rblk /\ pending' = pending /\ ssd_file' = ssd_file
      /\ fblk' = fblk /\ fpc[f] = "install"
      /\ cache_lock = None /\ \A r \in Readers : rpc[r] = "idle"
      /\ cached_block_id' = Append(cached_block_id, b)
      /\ cached_block' = cached_block \cup {b}
      /\ block_num' = block_num + 1 /\ cache_lock' = f
  BY DEF Install, InstallNow, Fetches, counts, readers
<1>c. PICK next \in {"evict", "end"} : fpc' = [fpc EXCEPT ![f] = next]
  BY DEF Install, InstallNow, Fetches
<1>d. b \in Blocks /\ b \notin cached_block /\ \A g \in Fetchers \ {f} : fblk[g] # b
  BY <1>a, <1>b DEF IInv, TypeOK, Busy, NotCached, OneFetch
<1>e. \A g \in Fetchers : fpc[g] \notin {"evict", "end"} /\ f # None
  BY <1>a, <1>b, CacheThreadAssumption DEF IInv, Locking
<1>f. /\ cached_block_id \in Seq(Blocks) /\ Len(cached_block_id) \in Nat
      /\ DOMAIN cached_block_id = 1 .. Len(cached_block_id)
      /\ DOMAIN cached_block_id' = 1 .. Len(cached_block_id) + 1
      /\ cached_block_id' \in Seq(Blocks) /\ Len(cached_block_id') = Len(cached_block_id) + 1
      /\ \A k \in DOMAIN cached_block_id' : cached_block_id'[k] =
            IF k \in DOMAIN cached_block_id THEN cached_block_id[k] ELSE b
      /\ block_num = Len(cached_block_id)
      /\ cached_block = {cached_block_id[k] : k \in DOMAIN cached_block_id}
  <2>1. cached_block_id \in Seq(Blocks)
    BY <1>a DEF IInv, TypeOK
  <2>2. block_num = Len(cached_block_id)
        /\ cached_block = {cached_block_id[k] : k \in DOMAIN cached_block_id}
    BY <1>a DEF IInv, CacheAgrees
  <2> HIDE DEF b
  <2> QED
    BY <1>b, <1>d, <2>1, <2>2
<1> HIDE DEF b
<1>1. TypeOK'
  BY <1>a, <1>b, <1>c, <1>d, <1>f DEF IInv, TypeOK
<1>2. Locking' /\ Busy' /\ Reading'
  BY <1>a, <1>b, <1>c, <1>e DEF IInv, TypeOK, Locking, Busy, Reading
<1>3. OneFetch'
  BY <1>a, <1>b DEF IInv, OneFetch, Scheduled
<1>4. Distinct'
  <2>1. \A k \in DOMAIN cached_block_id : cached_block_id[k] # b
    BY <1>d, <1>f
  <2>2. \A k, l \in DOMAIN cached_block_id : cached_block_id[k] = cached_block_id[l] => k = l
    BY <1>a DEF IInv, Distinct
  <2> QED
    BY <1>f, <2>1, <2>2 DEF Distinct
<1>5. CacheAgrees' /\ IsFiniteSet(cached_block)'
  <2>1. IsFiniteSet(cached_block') /\ Cardinality(cached_block') = Cardinality(cached_block) + 1
    BY <1>a, <1>b, <1>d, FS_AddElement DEF IInv
  <2>2. Cardinality(cached_block) = block_num
    BY <1>a DEF IInv, CacheAgrees
  <2>3. cached_block' = {cached_block_id'[k] : k \in DOMAIN cached_block_id'}
    <3>1. \A x \in cached_block' : \E k \in DOMAIN cached_block_id' : cached_block_id'[k] = x
      <4>1. \A k \in DOMAIN cached_block_id :
                k \in DOMAIN cached_block_id' /\ cached_block_id'[k] = cached_block_id[k]
        BY <1>f
      <4>2. Len(cached_block_id) + 1 \in DOMAIN cached_block_id'
            /\ cached_block_id'[Len(cached_block_id) + 1] = b
        BY <1>f
      <4> QED
        BY <1>b, <1>f, <4>1, <4>2
    <3>2. \A k \in DOMAIN cached_block_id' : cached_block_id'[k] \in cached_block'
      BY <1>b, <1>f
    <3> QED
      BY <3>1, <3>2
  <2> QED
    BY <1>b, <1>f, <2>1, <2>2, <2>3 DEF CacheAgrees
<1>6. NotCached'
  <2>1. ~Scheduled(b)
    BY <1>a, <1>d DEF IInv, OneFetch, b
  <2> QED
    BY <1>a, <1>b, <1>c, <1>d, <2>1 DEF IInv, TypeOK, NotCached, Scheduled
<1>7. FilesKnown'
  <2>1. ssd_file[b] = "whole"
    BY <1>a, <1>b DEF IInv, FilesKnown, b
  <2> QED
    BY <1>a, <1>b, <1>c, <1>d, <2>1 DEF IInv, TypeOK, FilesKnown, b
<1>8. Room'
  <2>1. InFlight' = InFlight \ {f} /\ f \in InFlight
    BY <1>a, <1>b, <1>c DEF InFlight, IInv, TypeOK
  <2>2. Cardinality(InFlight') = Cardinality(InFlight) - 1
    BY <2>1, InFlightFinite, FS_RemoveElement
  <2> QED
    BY <1>a, <1>b, <2>2, InFlightFinite, CapacityAssumption DEF IInv, TypeOK, Room
<1> QED
  BY <1>1, <1>2, <1>3, <1>4, <1>5, <1>6, <1>7, <1>8 DEF IInv

\* A turn of the eviction loop takes block, file and count away together.
LEMMA EvictInv ==
    ASSUME IInv, NEW f \in Fetchers, Evict(f)
    PROVE  IInv'
<1> DEFINE b == Head(cached_block_id)
<1>a. IInv
  OBVIOUS
<1>b. /\ caching_block' = caching_block /\ read_record' = read_record /\ read_num' = read_num
      /\ rpc' = rpc /\ rblk' = rblk /\ pending' = pending /\ cache_lock' = cache_lock
      /\ fblk' = fblk /\ fpc' = fpc /\ fpc[f] = "evict"
      /\ ssd_file' = [ssd_file EXCEPT ![b] = "none"]
      /\ cached_block_id # <<>> /\ cached_block_id' = Tail(cached_block_id)
      /\ cached_block' = cached_block \ {b}
      /\ block_num' = block_num - 1
  BY DEF Evict, EvictTo, OldestGone, TooMany, counts, readers, fetchers
<1>c. \A r \in Readers : rpc[r] = "idle"
  BY <1>a, <1>b, CacheThreadAssumption DEF IInv, Locking
<1>d. /\ cached_block_id \in Seq(Blocks) /\ Len(cached_block_id) \in Nat \ {0}
      /\ DOMAIN cached_block_id = 1 .. Len(cached_block_id)
      /\ DOMAIN cached_block_id' = 1 .. Len(cached_block_id) - 1
      /\ cached_block_id' \in Seq(Blocks) /\ Len(cached_block_id') = Len(cached_block_id) - 1
      /\ \A k \in DOMAIN cached_block_id' :
            k + 1 \in DOMAIN cached_block_id /\ cached_block_id'[k] = cached_block_id[k + 1]
      /\ 1 \in DOMAIN cached_block_id /\ cached_block_id[1] = b /\ b \in Blocks
  <2>1. cached_block_id \in Seq(Blocks)
    BY <1>a DEF IInv, TypeOK
  <2> QED
    BY <1>b, <2>1
<1>e. /\ block_num = Len(cached_block_id)
      /\ cached_block = {cached_block_id[k] : k \in DOMAIN cached_block_id}
      /\ Cardinality(cached_block) = block_num /\ b \in cached_block
  <2>1. /\ block_num = Len(cached_block_id)
        /\ cached_block = {cached_block_id[k] : k \in DOMAIN cached_block_id}
        /\ Cardinality(cached_block) = block_num
    BY <1>a DEF IInv, CacheAgrees
  <2> QED
    BY <1>d, <2>1
<1>f. \A k, l \in DOMAIN cached_block_id : cached_block_id[k] = cached_block_id[l] => k = l
  BY <1>a DEF IInv, Distinct
<1> HIDE DEF b
<1>1. TypeOK'
  BY <1>a, <1>b, <1>d, <1>e DEF IInv, TypeOK
<1>2. Locking' /\ Busy' /\ OneFetch'
  BY <1>a, <1>b DEF IInv, Locking, Busy, OneFetch, Scheduled
<1>3. Reading'
  BY <1>b, <1>c DEF Reading
<1>4. Distinct'
  BY <1>d, <1>f DEF Distinct
<1>5. CacheAgrees' /\ IsFiniteSet(cached_block)'
  <2>1. IsFiniteSet(cached_block') /\ Cardinality(cached_block') = Cardinality(cached_block) - 1
    BY <1>a, <1>b, <1>e, FS_RemoveElement DEF IInv
  <2>2. cached_block' = {cached_block_id'[k] : k \in DOMAIN cached_block_id'}
    <3>1. ASSUME NEW x \in cached_block'
          PROVE  \E k \in DOMAIN cached_block_id' : cached_block_id'[k] = x
      <4>1. PICK l \in DOMAIN cached_block_id : cached_block_id[l] = x
        BY <1>b, <1>e
      <4>2. l # 1
        BY <1>b, <1>d, <4>1
      <4>3. l - 1 \in DOMAIN cached_block_id' /\ cached_block_id'[l - 1] = x
        BY <1>d, <4>1, <4>2
      <4> QED
        BY <4>3
    <3>2. ASSUME NEW k \in DOMAIN cached_block_id' PROVE cached_block_id'[k] \in cached_block'
      <4>1. k + 1 \in DOMAIN cached_block_id /\ cached_block_id'[k] = cached_block_id[k + 1]
            /\ k + 1 # 1
        BY <1>d
      <4>2. cached_block_id[k + 1] # b
        BY <1>d, <1>f, <4>1
      <4> QED
        BY <1>b, <1>e, <4>1, <4>2
    <3> QED
      BY <3>1, <3>2
  <2> QED
    BY <1>b, <1>d, <1>e, <2>1, <2>2 DEF CacheAgrees
<1>6. NotCached'
  BY <1>a, <1>b DEF IInv, NotCached, Scheduled
<1>7. FilesKnown'
  <2>1. \A g \in Fetchers : fpc[g] = "install" => fblk[g] \in Blocks /\ fblk[g] # b
    BY <1>a, <1>e DEF IInv, TypeOK, Busy, NotCached
  <2> QED
    BY <1>a, <1>b, <1>d, <2>1 DEF IInv, TypeOK, FilesKnown
<1>8. Room'
  <2>1. InFlight' = InFlight
    BY <1>b DEF InFlight
  <2> QED
    BY <1>a, <1>b, <2>1, InFlightFinite, CapacityAssumption DEF IInv, TypeOK, Room
<1> QED
  BY <1>1, <1>2, <1>3, <1>4, <1>5, <1>6, <1>7, <1>8 DEF IInv

\* The end of the loop changes where the fetcher is.
LEMMA EvictEndInv ==
    ASSUME IInv, NEW f \in Fetchers, EvictEnd(f)
    PROVE  IInv'
<1>a. IInv
  OBVIOUS
<1>b. /\ block_num' = block_num /\ cached_block_id' = cached_block_id
      /\ cached_block' = cached_block /\ cache_lock' = cache_lock /\ fblk' = fblk
      /\ caching_block' = caching_block /\ read_record' = read_record /\ read_num' = read_num
      /\ rpc' = rpc /\ rblk' = rblk /\ pending' = pending /\ ssd_file' = ssd_file
      /\ fpc[f] = "evict" /\ fpc' = [fpc EXCEPT ![f] = "end"]
  BY DEF EvictEnd, Fetches, cache, counts, readers
<1>1. TypeOK'
  BY <1>a, <1>b DEF IInv, TypeOK
<1>2. Locking' /\ Busy' /\ Reading' /\ Distinct' /\ CacheAgrees' /\ IsFiniteSet(cached_block)'
  BY <1>a, <1>b DEF IInv, TypeOK, Locking, Busy, Reading, Distinct, CacheAgrees
<1>3. OneFetch' /\ NotCached' /\ FilesKnown'
  BY <1>a, <1>b DEF IInv, TypeOK, OneFetch, NotCached, Scheduled, FilesKnown
<1>4. Room'
  <2>1. InFlight' = InFlight
    BY <1>a, <1>b DEF InFlight, IInv, TypeOK
  <2> QED
    BY <1>a, <1>b, <2>1 DEF IInv, Room
<1> QED
  BY <1>1, <1>2, <1>3, <1>4 DEF IInv

\* The end of the fetch forgets the block and releases the lock.
LEMMA FetchEndInv ==
    ASSUME IInv, NEW f \in Fetchers, FetchEnd(f)
    PROVE  IInv'
<1>a. IInv
  OBVIOUS
<1>b. /\ block_num' = block_num /\ cached_block_id' = cached_block_id
      /\ cached_block' = cached_block /\ cache_lock' = None
      /\ fblk' = [fblk EXCEPT ![f] = None] /\ caching_block' = caching_block \ {fblk[f]}
      /\ read_record' = read_record /\ read_num' = read_num
      /\ rpc' = rpc /\ rblk' = rblk /\ pending' = pending /\ ssd_file' = ssd_file
      /\ fpc[f] = "end" /\ fpc' = [fpc EXCEPT ![f] = "idle"]
  BY DEF FetchEnd, Fetches, cache, counts, readers
<1>c. fblk[f] \in Blocks /\ cache_lock = f /\ \A g \in Fetchers \ {f} : fblk[g] # fblk[f]
  BY <1>a, <1>b DEF IInv, TypeOK, Busy, Locking, OneFetch
<1>1. TypeOK'
  BY <1>a, <1>b DEF IInv, TypeOK
<1>2. Locking'
  BY <1>a, <1>b, <1>c, CacheThreadAssumption DEF IInv, TypeOK, Locking
<1>3. Busy' /\ Reading' /\ Distinct' /\ CacheAgrees' /\ IsFiniteSet(cached_block)'
  BY <1>a, <1>b DEF IInv, TypeOK, Busy, Reading, Distinct, CacheAgrees
<1>4. OneFetch'
  <2>1. ~Scheduled(fblk[f])
    BY <1>a, <1>c DEF IInv, OneFetch
  <2>2. \A g \in Fetchers : fblk'[g] = IF g = f THEN None ELSE fblk[g]
    BY <1>a, <1>b DEF IInv, TypeOK
  <2>3. \A c \in Blocks : Scheduled(c)' = Scheduled(c)
    BY <1>b DEF Scheduled
  <2>4. \A c \in Blocks : (\E g \in Fetchers : fblk'[g] = c)
                            => c # fblk[f] /\ \E g \in Fetchers : fblk[g] = c
    BY <1>c, <2>2, CacheThreadAssumption
  <2>5. \A c \in Blocks : ~(Scheduled(c)' /\ \E g \in Fetchers : fblk'[g] = c)
    BY <1>a, <2>3, <2>4 DEF IInv, OneFetch
  <2>6. \A c \in Blocks : Scheduled(c)' \/ (\E g \in Fetchers : fblk'[g] = c)
                            => c \in caching_block'
    BY <1>a, <1>b, <2>1, <2>3, <2>4 DEF IInv, OneFetch
  <2>7. /\ \A i, j \in DOMAIN pending' : pending'[i] = pending'[j] => i = j
        /\ \A g, h \in Fetchers : fblk'[g] = fblk'[h] /\ fblk'[g] # None => g = h
    BY <1>a, <1>b, <2>2 DEF IInv, OneFetch
  <2> QED
    BY <2>5, <2>6, <2>7 DEF OneFetch
<1>5. NotCached' /\ FilesKnown'
  BY <1>a, <1>b DEF IInv, TypeOK, NotCached, Scheduled, FilesKnown
<1>6. Room'
  <2>1. InFlight' = InFlight
    BY <1>a, <1>b DEF InFlight, IInv, TypeOK
  <2> QED
    BY <1>a, <1>b, <2>1 DEF IInv, Room
<1> QED
  BY <1>1, <1>2, <1>3, <1>4, <1>5, <1>6 DEF IInv

\* and a step of others.
LEMMA StutterInv == IInv /\ UNCHANGED vars => IInv'
BY DEF IInv, TypeOK, Locking, Busy, Reading, OneFetch, Distinct, CacheAgrees, NotCached,
       Scheduled, FilesKnown, Room, InFlight, vars, cache, counts, readers, fetchers
-----------------------------------------------------------------------------
\* Every step keeps it.
LEMMA NextInv == IInv /\ [Next]_vars => IInv'
<1> SUFFICES ASSUME IInv, [Next]_vars PROVE IInv'
  OBVIOUS
<1>1. ASSUME NEW r \in Readers, Read(r) PROVE IInv'
  BY <1>1, PlainReadInv, SelectInv DEF Read
<1>2. ASSUME NEW f \in Fetchers, FetchLocal(f) PROVE IInv'
  BY <1>2, FetchStartInv, CopyOpenInv, CopyEndInv, EvictInv, EvictEndInv, FetchEndInv
     DEF FetchLocal
<1>3. ASSUME NEW f \in Fetchers, Install(f) PROVE IInv'
  BY <1>3, InstallInv
<1> QED
  BY <1>1, <1>2, <1>3, StutterInv DEF Next

\* It holds in every state.
LEMMA Invariant == Spec => []IInv
BY InitInv, NextInv, PTL DEF Spec

\* The types of the cache, its readers and its fetchers.
THEOREM CacheTypeCorrect == Spec => []TypeOK
<1>1. IInv => TypeOK
  BY DEF IInv
<1> QED
  BY <1>1, Invariant, PTL

\* fetch: no block is fetched by two threads, or again before FetchEnd.
THEOREM BlocksFetchedOnce == Spec => []OneFetch
<1>1. IInv => OneFetch
  BY DEF IInv
<1> QED
  BY <1>1, Invariant, PTL

\* copy_file's target: what was evicted has left no file for it to throw at.
THEOREM CopiesFindNoFile == Spec => []CopyTargetAbsent
<1>1. IInv => CopyTargetAbsent
  <2> SUFFICES ASSUME IInv, NEW f \in Fetchers, fpc[f] = "copy" PROVE ssd_file[fblk[f]] = "none"
    BY DEF CopyTargetAbsent
  <2>1. fblk[f] \in Blocks /\ fblk[f] \notin cached_block
    BY DEF IInv, TypeOK, Busy, NotCached
  <2>2. \A g \in Fetchers : fblk[g] = fblk[f] => g = f
    BY <2>1, CacheThreadAssumption DEF IInv, OneFetch
  <2> QED
    BY <2>1, <2>2 DEF IInv, FilesKnown
<1> QED
  BY <1>1, Invariant, PTL

\* fetch, read: block_num, the queue and the map tell the same.
THEOREM CacheIsConsistent == Spec => []CacheAgrees
<1>1. IInv => CacheAgrees
  BY DEF IInv
<1> QED
  BY <1>1, Invariant, PTL

\* read: a block found in the cache has its file until the shared lock goes.
THEOREM ReadersFindFiles == Spec => []ReaderFindsFile
<1>1. IInv => ReaderFindsFile
  BY DEF IInv, Reading, FilesKnown, ReaderFindsFile
<1> QED
  BY <1>1, Invariant, PTL

\* fetch: how far the test without the lock lets the SSD be overfilled.
THEOREM SSDIsBounded == Spec => []FilesBounded
<1>1. IInv => FilesBounded
  <2> SUFFICES ASSUME IInv PROVE FilesBounded
    OBVIOUS
  <2> DEFINE onSsd == {b \in Blocks : ssd_file[b] # "none"}
             copied == {fblk[f] : f \in InFlight}
  <2>1. onSsd \subseteq cached_block \cup copied
    BY DEF IInv, FilesKnown, InFlight
  <2>2. IsFiniteSet(copied) /\ Cardinality(copied) <= Cardinality(InFlight)
    <3> DEFINE blk == [f \in InFlight |-> fblk[f]]
    <3>1. blk \in Surjection(InFlight, copied)
      BY DEF Surjection
    <3> QED
      BY <3>1, InFlightFinite, FS_Surjection
  <2>3. /\ IsFiniteSet(cached_block \cup copied)
        /\ Cardinality(cached_block \cup copied) <= Cardinality(cached_block) + Cardinality(copied)
    <3> HIDE DEF copied
    <3>1. IsFiniteSet(cached_block) /\ IsFiniteSet(copied)
      BY <2>2 DEF IInv
    <3>2. /\ IsFiniteSet(cached_block \cup copied)
          /\ Cardinality(cached_block \cup copied)
               = Cardinality(cached_block) + Cardinality(copied)
                 - Cardinality(cached_block \cap copied)
      BY <3>1, FS_Union
    <3>3. /\ Cardinality(cached_block) \in Nat /\ Cardinality(copied) \in Nat
          /\ Cardinality(cached_block \cap copied) \in Nat
      BY <3>1, FS_CardinalityType, FS_Intersection
    <3> QED
      BY <3>2, <3>3
  <2>4. Cardinality(onSsd) <= Cardinality(cached_block \cup copied)
    BY <2>1, <2>3, FS_Subset
  <2>5. Cardinality(cached_block) = block_num
    BY DEF IInv, CacheAgrees
  <2>6. IsFiniteSet(onSsd) /\ Cardinality(onSsd) \in Nat /\ Cardinality(copied) \in Nat
        /\ Cardinality(cached_block \cup copied) \in Nat
    BY <2>1, <2>2, <2>3, FS_Subset, FS_CardinalityType
  <2>7. Cardinality(onSsd) < max_block_num + Cardinality(Fetchers)
    <3>1. Cardinality(onSsd) <= block_num + Cardinality(InFlight)
      BY <2>2, <2>3, <2>4, <2>5, <2>6, InFlightFinite DEF IInv, TypeOK
    <3> QED
      BY <2>6, <3>1, InFlightFinite, CapacityAssumption DEF IInv, TypeOK, Room
  <2>8. \A b \in onSsd : b \in cached_block \/ \E f \in Fetchers : fblk[f] = b
    BY DEF IInv, FilesKnown
  <2> QED
    BY <2>7, <2>8 DEF FilesBounded
<1> QED
  BY <1>1, Invariant, PTL
-----------------------------------------------------------------------------
(***************************************************************************)
(* The thread pool                                                         *)
(***************************************************************************)

\* Who is inside a section that another thread can look into holds the monitor.
MonitorHeld ==
    /\ \A w \in Workers : wpc[w] = "looking" <=> m_monitor = w
    /\ m_monitor = Owner => opc \in {"drain", "join"}
    /\ opc = "join" => m_monitor = Owner

\* A worker has a task while it runs one.
TaskHeld == \A w \in Workers : task[w] # Nil <=> wpc[w] = "running"

\* A task is in one place: once in the queue, with one worker, or finished.
TasksApart ==
    /\ \A i, j \in DOMAIN m_scheduler : m_scheduler[i] = m_scheduler[j] => i = j
    /\ \A i \in DOMAIN m_scheduler : m_scheduler[i] \notin Running \cup finished
    /\ \A w \in Workers : task[w] \notin finished
    /\ \A v, w \in Workers : task[v] = task[w] /\ task[v] # Nil => v = w

\* How far sync() has come: what was scheduled before stays scheduled, then is
\* no longer pending, then finished.
SyncStages ==
    /\ opc \in {"pending", "active", "synced"} => before \subseteq Known
    /\ opc = "active" => before \subseteq Running \cup finished

PoolIInv == PoolTypeOK /\ CountsRight /\ MonitorHeld /\ TaskHeld /\ TasksApart
        /\ SyncStages /\ SyncedTasksDone /\ ShutdownWaits
-----------------------------------------------------------------------------
(***************************************************************************)
(* Counting                                                                *)
(***************************************************************************)

\* Workers can be counted.
LEMMA ActiveFinite ==
    /\ IsFiniteSet(Active) /\ Cardinality(Active) \in Nat
    /\ IsFiniteSet(Present) /\ Cardinality(Present) \in Nat
BY ThreadPoolAssumption, FS_Subset, FS_CardinalityType DEF Active, Present

\* With no worker active, none runs a task.
LEMMA NoneActiveRunsNone ==
    ASSUME PoolIInv, NoneActive
    PROVE  Running = {}
<1>1. Active = {}
  BY ActiveFinite, FS_EmptySet DEF PoolIInv, CountsRight, NoneActive
<1> QED
  BY <1>1 DEF PoolIInv, TaskHeld, Running, Active

\* A step that moves no worker into or out of the counted places.
LEMMA SameCounts ==
    ASSUME CountsRight, Active' = Active, Present' = Present,
           UNCHANGED <<m_worker_count, m_active_worker_count>>
    PROVE  CountsRight'
BY DEF CountsRight

\* The invariant holds at the start.
LEMMA PoolInitInv == PoolInit => PoolIInv
<1> SUFFICES ASSUME PoolInit PROVE PoolIInv
  OBVIOUS
<1>1. Active = Workers /\ Present = Workers
  BY DEF PoolInit, Active, Present
<1>2. Cardinality(Workers) \in Nat
  BY ThreadPoolAssumption, FS_CardinalityType
<1>3. CountsRight
  BY <1>1 DEF PoolInit, CountsRight
<1>6. PoolTypeOK
  <2>1. m_scheduler \in Seq(Tasks) /\ spurious \in 0 .. MaxSpurious
    BY ThreadPoolAssumption DEF PoolInit
  <2>2. wpc \in [Workers -> {"fetch"}] /\ task \in [Workers -> {Nil}]
    BY DEF PoolInit
  <2> QED
    BY <1>2, <2>1, <2>2 DEF PoolInit, PoolTypeOK
<1>4. MonitorHeld /\ TaskHeld /\ TasksApart
  BY ThreadPoolAssumption DEF PoolInit, MonitorHeld, TaskHeld, TasksApart, Running
<1>5. SyncStages /\ SyncedTasksDone /\ ShutdownWaits
  BY DEF PoolInit, SyncStages, SyncedTasksDone, ShutdownWaits, PastWait
<1> QED
  BY <1>3, <1>4, <1>5, <1>6 DEF PoolIInv

\* Workers count themselves out when they wait or leave, and in again.
LEMMA CountsStep ==
    ASSUME PoolTypeOK, CountsRight, [PoolNext]_poolvars
    PROVE  CountsRight'
<1>1. ASSUME NEW t \in Tasks, Schedule(t) PROVE CountsRight'
  <2>1. Active' = Active /\ Present' = Present
    BY <1>1 DEF Schedule, Pushes, NotifyOne, Waiting, Active, Present, Moves, PoolTypeOK
  <2> QED
    BY <2>1, <1>1, SameCounts DEF Schedule, Pushes, NotifyOne, Waiting, counters
<1>2. ASSUME NEW w \in Workers, Enter(w) PROVE CountsRight'
  <2>1. Active' = Active /\ Present' = Present
    BY <1>2 DEF Enter, Active, Present, Moves, PoolTypeOK
  <2> QED
    BY <2>1, <1>2, SameCounts DEF Enter, counters
<1>3. ASSUME NEW w \in Workers, Take(w) PROVE CountsRight'
  <2>1. Active' = Active /\ Present' = Present
    BY <1>3 DEF Take, TakeTop, Active, Present, Moves, PoolTypeOK
  <2> QED
    BY <2>1, <1>3, SameCounts DEF Take, TakeTop, counters
<1>4. ASSUME NEW w \in Workers, Idle(w) PROVE CountsRight'
  <2>1. Active' = Active \ {w} /\ w \in Active /\ Present' = Present
    BY <1>4 DEF Idle, Active, Present, Moves, PoolTypeOK
  <2>2. Cardinality(Active') = Cardinality(Active) - 1
    BY <2>1, ActiveFinite, FS_RemoveElement
  <2> QED
    BY <2>1, <2>2, <1>4 DEF Idle, CountsRight
<1>5. ASSUME NEW w \in Workers, Quit(w) PROVE CountsRight'
  <2>1. Active' = Active /\ Present' = Present
    BY <1>5 DEF Quit, Active, Present, Moves, PoolTypeOK
  <2> QED
    BY <2>1, <1>5, SameCounts DEF Quit, counters
<1>6. ASSUME NEW w \in Workers, Wake(w) PROVE CountsRight'
  <2>1. Active' = Active \cup {w} /\ w \notin Active /\ Present' = Present
    BY <1>6 DEF Wake, WakeAs, Active, Present, Moves, PoolTypeOK
  <2>2. Cardinality(Active') = Cardinality(Active) + 1
    BY <2>1, ActiveFinite, FS_AddElement
  <2> QED
    BY <2>1, <2>2, <1>6 DEF Wake, WakeAs, CountsRight
<1>7. ASSUME NEW w \in Workers, Finish(w) PROVE CountsRight'
  <2>1. Active' = Active /\ Present' = Present
    BY <1>7 DEF Finish, Active, Present, Moves, PoolTypeOK
  <2> QED
    BY <2>1, <1>7, SameCounts DEF Finish, counters
<1>8. ASSUME NEW w \in Workers, Destructed(w) PROVE CountsRight'
  <2>1. /\ Active' = Active \ {w} /\ w \in Active
        /\ Present' = Present \ {w} /\ w \in Present
    BY <1>8 DEF Destructed, Active, Present, Moves, PoolTypeOK
  <2>2. /\ Cardinality(Active') = Cardinality(Active) - 1
        /\ Cardinality(Present') = Cardinality(Present) - 1
    BY <2>1, ActiveFinite, FS_RemoveElement
  <2> QED
    BY <2>1, <2>2, <1>8 DEF Destructed, CountsRight
<1>9. ASSUME NEW w \in Workers, Exit(w) PROVE CountsRight'
  <2>1. Active' = Active /\ Present' = Present
    BY <1>9 DEF Exit, Active, Present, Moves, PoolTypeOK
  <2> QED
    BY <2>1, <1>9, SameCounts DEF Exit, counters
<1>10. ASSUME NEW w \in Workers, WakeUnasked(w) PROVE CountsRight'
  <2>1. Active' = Active /\ Present' = Present
    BY <1>10 DEF WakeUnasked, Active, Present, Moves, PoolTypeOK
  <2> QED
    BY <2>1, <1>10, SameCounts DEF WakeUnasked, counters
<1>11. CASE Sync
  BY <1>11, SameCounts DEF Sync, OwnerOnly, Active, Present, counters, poolvars, Owns
<1>12. CASE SyncLoop
  BY <1>12, SameCounts DEF SyncLoop, OwnerOnly, Active, Present, counters, poolvars, Owns
<1>13. CASE Delete
  BY <1>13, SameCounts DEF Delete, OwnerOnly, Active, Present, counters, poolvars, Owns
<1>14. CASE Wait
  BY <1>14, SameCounts DEF Wait, WaitTo, OwnerOnly, Active, Present, counters, poolvars, Owns
<1>15. CASE Terminate
  <2>1. Active' = Active /\ Present' = Present
    BY <1>15 DEF Terminate, TerminateAs, NotifyAll, Waiting, Active, Present, Moves, PoolTypeOK
  <2> QED
    BY <2>1, <1>15, SameCounts DEF Terminate, TerminateAs, NotifyAll, Waiting, counters
<1>16. CASE Drain
  BY <1>16, SameCounts DEF Drain, Active, Present, counters, poolvars, Owns
<1>17. CASE Join
  BY <1>17, SameCounts DEF Join, Active, Present, counters, poolvars, Owns
<1>18. CASE OwnerUnasked
  BY <1>18, SameCounts DEF OwnerUnasked, NotifyIdle, Active, Present, counters, poolvars, Owns
<1>19. CASE Over \/ UNCHANGED poolvars
  BY <1>19, SameCounts DEF Over, poolvars, Active, Present, counters, poolvars, Owns
<1> QED
  BY <1>1, <1>2, <1>3, <1>4, <1>5, <1>6, <1>7, <1>8, <1>9, <1>10, <1>11, <1>12, <1>13, <1>14, <1>15, <1>16, <1>17, <1>18, <1>19 DEF PoolNext, Locks, Works, OwnerLocks

\* Every step keeps the types.
LEMMA TypeStep ==
    ASSUME PoolIInv, [PoolNext]_poolvars
    PROVE  PoolTypeOK'
<1> USE DEF PoolTypeOK, Moves, Owns, counters, ending, history
<1>a. PoolTypeOK /\ m_worker_count' \in Nat /\ m_active_worker_count' \in Nat
  <2>1. CountsRight'
    BY CountsStep DEF PoolIInv
  <2>2. Cardinality(Active') \in Nat /\ Cardinality(Present') \in Nat
    BY ThreadPoolAssumption, FS_Subset, FS_CardinalityType DEF Active, Present
  <2> QED
    BY <2>1, <2>2 DEF PoolIInv, CountsRight
<1>b. Known \subseteq Tasks
  BY <1>a DEF Known, Pending, Running
<1>1. ASSUME NEW t \in Tasks, Schedule(t) PROVE PoolTypeOK'
  BY <1>1, <1>a, ThreadPoolAssumption DEF Schedule, Pushes, NotifyOne, Waiting
<1>2. ASSUME NEW w \in Workers, Enter(w) PROVE PoolTypeOK'
  BY <1>2, <1>a, ThreadPoolAssumption DEF Enter
<1>3. ASSUME NEW w \in Workers, Take(w) PROVE PoolTypeOK'
  BY <1>3, <1>a, ThreadPoolAssumption DEF Take, TakeTop
<1>4. ASSUME NEW w \in Workers, Idle(w) PROVE PoolTypeOK'
  BY <1>4, <1>a, ThreadPoolAssumption DEF Idle, NotifyIdle
<1>5. ASSUME NEW w \in Workers, Quit(w) PROVE PoolTypeOK'
  BY <1>5, <1>a, ThreadPoolAssumption DEF Quit
<1>6. ASSUME NEW w \in Workers, Wake(w) PROVE PoolTypeOK'
  BY <1>6, <1>a, ThreadPoolAssumption DEF Wake, WakeAs
<1>7. ASSUME NEW w \in Workers, Finish(w) PROVE PoolTypeOK'
  BY <1>7, <1>a, ThreadPoolAssumption DEF Finish, PoolIInv, TaskHeld
<1>8. ASSUME NEW w \in Workers, Destructed(w) PROVE PoolTypeOK'
  BY <1>8, <1>a, ThreadPoolAssumption DEF Destructed, NotifyIdle
<1>9. ASSUME NEW w \in Workers, Exit(w) PROVE PoolTypeOK'
  BY <1>9, <1>a, ThreadPoolAssumption DEF Exit
<1>10. ASSUME NEW w \in Workers, WakeUnasked(w) PROVE PoolTypeOK'
  BY <1>10, <1>a, ThreadPoolAssumption DEF WakeUnasked
<1>11. CASE Sync
  BY <1>11, <1>a, <1>b DEF Sync, OwnerOnly
<1>12. CASE SyncLoop
  BY <1>12, <1>a, ThreadPoolAssumption DEF SyncLoop, OwnerOnly
<1>13. CASE Delete
  BY <1>13, <1>a, ThreadPoolAssumption DEF Delete, OwnerOnly
<1>14. CASE Wait
  BY <1>14, <1>a, ThreadPoolAssumption DEF Wait, WaitTo, OwnerOnly
<1>15. CASE Terminate
  BY <1>15, <1>a, ThreadPoolAssumption DEF Terminate, TerminateAs, NotifyAll, Waiting
<1>16. CASE Drain
  BY <1>16, <1>a, ThreadPoolAssumption DEF Drain
<1>17. CASE Join
  BY <1>17, <1>a, ThreadPoolAssumption DEF Join
<1>18. CASE OwnerUnasked
  BY <1>18, <1>a, ThreadPoolAssumption DEF OwnerUnasked, NotifyIdle
<1>19. CASE Over \/ UNCHANGED poolvars
  BY <1>19, <1>a DEF Over, poolvars, poolvars
<1> QED
  BY <1>1, <1>2, <1>3, <1>4, <1>5, <1>6, <1>7, <1>8, <1>9, <1>10, <1>11, <1>12, <1>13, <1>14, <1>15, <1>16, <1>17, <1>18, <1>19 DEF PoolNext, Locks, Works, OwnerLocks

\* Every step keeps who holds the monitor and who has a task.
LEMMA HeldStep ==
    ASSUME PoolIInv, [PoolNext]_poolvars
    PROVE  MonitorHeld' /\ TaskHeld'
<1> USE DEF PoolTypeOK, Moves, Owns, MonitorHeld, TaskHeld, counters, ending, history
<1>a. PoolTypeOK /\ MonitorHeld /\ TaskHeld
  BY DEF PoolIInv
<1>1. ASSUME NEW t \in Tasks, Schedule(t) PROVE MonitorHeld' /\ TaskHeld'
  BY <1>1, <1>a, ThreadPoolAssumption DEF Schedule, Pushes, NotifyOne, Waiting
<1>2. ASSUME NEW w \in Workers, Enter(w) PROVE MonitorHeld' /\ TaskHeld'
  BY <1>2, <1>a, ThreadPoolAssumption DEF Enter
<1>3. ASSUME NEW w \in Workers, Take(w) PROVE MonitorHeld' /\ TaskHeld'
  BY <1>3, <1>a, ThreadPoolAssumption DEF Take, TakeTop
<1>4. ASSUME NEW w \in Workers, Idle(w) PROVE MonitorHeld' /\ TaskHeld'
  BY <1>4, <1>a, ThreadPoolAssumption DEF Idle, NotifyIdle
<1>5. ASSUME NEW w \in Workers, Quit(w) PROVE MonitorHeld' /\ TaskHeld'
  BY <1>5, <1>a, ThreadPoolAssumption DEF Quit
<1>6. ASSUME NEW w \in Workers, Wake(w) PROVE MonitorHeld' /\ TaskHeld'
  BY <1>6, <1>a, ThreadPoolAssumption DEF Wake, WakeAs
<1>7. ASSUME NEW w \in Workers, Finish(w) PROVE MonitorHeld' /\ TaskHeld'
  BY <1>7, <1>a, ThreadPoolAssumption DEF Finish
<1>8. ASSUME NEW w \in Workers, Destructed(w) PROVE MonitorHeld' /\ TaskHeld'
  BY <1>8, <1>a, ThreadPoolAssumption DEF Destructed, NotifyIdle
<1>9. ASSUME NEW w \in Workers, Exit(w) PROVE MonitorHeld' /\ TaskHeld'
  BY <1>9, <1>a, ThreadPoolAssumption DEF Exit
<1>10. ASSUME NEW w \in Workers, WakeUnasked(w) PROVE MonitorHeld' /\ TaskHeld'
  BY <1>10, <1>a, ThreadPoolAssumption DEF WakeUnasked
<1>11. CASE Sync
  BY <1>11, <1>a, ThreadPoolAssumption DEF Sync, OwnerOnly
<1>12. CASE SyncLoop
  BY <1>12, <1>a, ThreadPoolAssumption DEF SyncLoop, OwnerOnly
<1>13. CASE Delete
  BY <1>13, <1>a, ThreadPoolAssumption DEF Delete, OwnerOnly
<1>14. CASE Wait
  BY <1>14, <1>a, ThreadPoolAssumption DEF Wait, WaitTo, OwnerOnly
<1>15. CASE Terminate
  BY <1>15, <1>a, ThreadPoolAssumption DEF Terminate, TerminateAs, NotifyAll, Waiting
<1>16. CASE Drain
  BY <1>16, <1>a, ThreadPoolAssumption DEF Drain
<1>17. CASE Join
  BY <1>17, <1>a, ThreadPoolAssumption DEF Join
<1>18. CASE OwnerUnasked
  BY <1>18, <1>a, ThreadPoolAssumption DEF OwnerUnasked, NotifyIdle
<1>19. CASE Over \/ UNCHANGED poolvars
  BY <1>19, <1>a DEF Over, poolvars, poolvars
<1> QED
  BY <1>1, <1>2, <1>3, <1>4, <1>5, <1>6, <1>7, <1>8, <1>9, <1>10, <1>11, <1>12, <1>13, <1>14, <1>15, <1>16, <1>17, <1>18, <1>19 DEF PoolNext, Locks, Works, OwnerLocks

\* Every step keeps each task in one place.
LEMMA TasksStep ==
    ASSUME PoolIInv, [PoolNext]_poolvars
    PROVE  TasksApart'
<1> USE DEF PoolTypeOK, Moves, Owns, TaskHeld, TasksApart, Running, counters, ending, history
<1>a. PoolTypeOK /\ TaskHeld /\ TasksApart
  BY DEF PoolIInv
<1>1. ASSUME NEW t \in Tasks, Schedule(t) PROVE TasksApart'
  BY <1>1, <1>a DEF Schedule, Pushes, Known, Pending
<1>2. ASSUME NEW w \in Workers, Enter(w) PROVE TasksApart'
  BY <1>2, <1>a DEF Enter
<1>3. ASSUME NEW w \in Workers, Take(w) PROVE TasksApart'
  <2>1. /\ m_scheduler # <<>> /\ task' = [task EXCEPT ![w] = Head(m_scheduler)]
        /\ m_scheduler' = Tail(m_scheduler) /\ finished' = finished
    BY <1>3 DEF Take, TakeTop
  <2>2. \A i \in DOMAIN m_scheduler' : i + 1 \in DOMAIN m_scheduler
                                     /\ m_scheduler'[i] = m_scheduler[i + 1]
    BY <2>1, <1>a
  <2>3. 1 \in DOMAIN m_scheduler /\ Head(m_scheduler) = m_scheduler[1]
    BY <2>1, <1>a
  <2>4. \A v \in Workers : task'[v] = IF v = w THEN m_scheduler[1] ELSE task[v]
    BY <2>1, <2>3, <1>a
  <2>5. \A i \in DOMAIN m_scheduler' : i \in Nat /\ m_scheduler'[i] # m_scheduler[1]
    BY <2>1, <2>2, <2>3, <1>a
  <2>6. Running' \subseteq Running \cup {m_scheduler[1]}
    BY <2>4
  <2>7. \A i \in DOMAIN m_scheduler' : m_scheduler'[i] \notin Running' \cup finished'
    BY <2>1, <2>2, <2>5, <2>6, <1>a
  <2>8. \A i, j \in DOMAIN m_scheduler' : m_scheduler'[i] = m_scheduler'[j] => i = j
    BY <2>1, <2>2, <1>a
  <2>9. \A u, v \in Workers : task'[u] = task'[v] /\ task'[u] # Nil => u = v
    BY <2>3, <2>4, <1>a
  <2>10. \A v \in Workers : task'[v] \notin finished'
    BY <2>1, <2>3, <2>4, <1>a
  <2> QED
    BY <2>7, <2>8, <2>9, <2>10
<1>4. ASSUME NEW w \in Workers, Idle(w) PROVE TasksApart'
  BY <1>4, <1>a DEF Idle, NotifyIdle
<1>5. ASSUME NEW w \in Workers, Quit(w) PROVE TasksApart'
  BY <1>5, <1>a DEF Quit
<1>6. ASSUME NEW w \in Workers, Wake(w) PROVE TasksApart'
  BY <1>6, <1>a DEF Wake, WakeAs
<1>7. ASSUME NEW w \in Workers, Finish(w) PROVE TasksApart'
  <2>1. /\ task[w] \in Running /\ finished' = finished \cup {task[w]}
        /\ m_scheduler' = m_scheduler
        /\ \A v \in Workers : task'[v] = IF v = w THEN Nil ELSE task[v]
    BY <1>7, <1>a DEF Finish
  <2>2. Running' \subseteq Running
    BY <2>1
  <2>3. \A v \in Workers : task'[v] \notin finished'
    BY <2>1, <1>a, ThreadPoolAssumption
  <2>4. \A i \in DOMAIN m_scheduler' : m_scheduler'[i] \notin Running' \cup finished'
    BY <2>1, <2>2, <1>a
  <2> QED
    BY <2>1, <2>3, <2>4, <1>a
<1>8. ASSUME NEW w \in Workers, Destructed(w) PROVE TasksApart'
  BY <1>8, <1>a DEF Destructed, NotifyIdle
<1>9. ASSUME NEW w \in Workers, Exit(w) PROVE TasksApart'
  BY <1>9, <1>a DEF Exit
<1>10. ASSUME NEW w \in Workers, WakeUnasked(w) PROVE TasksApart'
  BY <1>10, <1>a DEF WakeUnasked
<1>11. CASE Sync
  BY <1>11, <1>a DEF Sync, OwnerOnly
<1>12. CASE SyncLoop
  BY <1>12, <1>a DEF SyncLoop, OwnerOnly
<1>13. CASE Delete
  BY <1>13, <1>a DEF Delete, OwnerOnly
<1>14. CASE Wait
  BY <1>14, <1>a DEF Wait, WaitTo, OwnerOnly
<1>15. CASE Terminate
  BY <1>15, <1>a DEF Terminate, TerminateAs, NotifyAll, Waiting
<1>16. CASE Drain
  BY <1>16, <1>a DEF Drain
<1>17. CASE Join
  BY <1>17, <1>a DEF Join
<1>18. CASE OwnerUnasked
  BY <1>18, <1>a DEF OwnerUnasked, NotifyIdle
<1>19. CASE Over \/ UNCHANGED poolvars
  BY <1>19, <1>a DEF Over, poolvars, poolvars
<1> QED
  BY <1>1, <1>2, <1>3, <1>4, <1>5, <1>6, <1>7, <1>8, <1>9, <1>10, <1>11, <1>12, <1>13, <1>14, <1>15, <1>16, <1>17, <1>18, <1>19 DEF PoolNext, Locks, Works, OwnerLocks

Stays ==
    /\ Known \subseteq Known'
    /\ finished \subseteq finished'
    /\ Running \cup finished \subseteq Running' \cup finished'

\* What was scheduled, started or finished stays so.
LEMMA TasksStay ==
    ASSUME PoolIInv, [PoolNext]_poolvars
    PROVE  Stays
<1> USE DEF Stays, PoolTypeOK, Moves, Owns, TaskHeld, Known, Pending, Running, counters, ending, history
<1>a. PoolTypeOK /\ TaskHeld
  BY DEF PoolIInv
<1>1. ASSUME NEW t \in Tasks, Schedule(t) PROVE Stays
  BY <1>1, <1>a DEF Schedule, Pushes, Known, Pending
<1>2. ASSUME NEW w \in Workers, Enter(w) PROVE Stays
  BY <1>2, <1>a DEF Enter
<1>3. ASSUME NEW w \in Workers, Take(w) PROVE Stays
  <2>1. /\ m_scheduler # <<>> /\ task' = [task EXCEPT ![w] = Head(m_scheduler)]
        /\ m_scheduler' = Tail(m_scheduler) /\ finished' = finished
        /\ task[w] = Nil
    BY <1>3, <1>a DEF Take, TakeTop
  <2>2. Running \subseteq Running'
    BY <2>1, <1>a
  <2>3. task'[w] = m_scheduler[1] /\ m_scheduler[1] # Nil
    BY <2>1, <1>a, ThreadPoolAssumption
  <2>4. ASSUME NEW i \in DOMAIN m_scheduler PROVE m_scheduler[i] \in Known'
    <3>1. CASE i = 1
      BY <3>1, <2>3
    <3>2. CASE i # 1
      <4>1. i - 1 \in DOMAIN m_scheduler' /\ m_scheduler'[i - 1] = m_scheduler[i]
        BY <3>2, <2>1, <1>a
      <4> QED
        BY <4>1
    <3> QED
      BY <3>1, <3>2
  <2> QED
    BY <2>1, <2>2, <2>4
<1>4. ASSUME NEW w \in Workers, Idle(w) PROVE Stays
  BY <1>4, <1>a DEF Idle, NotifyIdle
<1>5. ASSUME NEW w \in Workers, Quit(w) PROVE Stays
  BY <1>5, <1>a DEF Quit
<1>6. ASSUME NEW w \in Workers, Wake(w) PROVE Stays
  BY <1>6, <1>a DEF Wake, WakeAs
<1>7. ASSUME NEW w \in Workers, Finish(w) PROVE Stays
  BY <1>7, <1>a DEF Finish
<1>8. ASSUME NEW w \in Workers, Destructed(w) PROVE Stays
  BY <1>8, <1>a DEF Destructed, NotifyIdle
<1>9. ASSUME NEW w \in Workers, Exit(w) PROVE Stays
  BY <1>9, <1>a DEF Exit
<1>10. ASSUME NEW w \in Workers, WakeUnasked(w) PROVE Stays
  BY <1>10, <1>a DEF WakeUnasked
<1>11. CASE Sync
  BY <1>11, <1>a DEF Sync, OwnerOnly
<1>12. CASE SyncLoop
  BY <1>12, <1>a DEF SyncLoop, OwnerOnly
<1>13. CASE Delete
  BY <1>13, <1>a DEF Delete, OwnerOnly
<1>14. CASE Wait
  BY <1>14, <1>a DEF Wait, WaitTo, OwnerOnly
<1>15. CASE Terminate
  BY <1>15, <1>a DEF Terminate, TerminateAs, NotifyAll, Waiting
<1>16. CASE Drain
  BY <1>16, <1>a DEF Drain
<1>17. CASE Join
  BY <1>17, <1>a DEF Join
<1>18. CASE OwnerUnasked
  BY <1>18, <1>a DEF OwnerUnasked, NotifyIdle
<1>19. CASE Over \/ UNCHANGED poolvars
  BY <1>19, <1>a DEF Over, poolvars, poolvars
<1> QED
  BY <1>1, <1>2, <1>3, <1>4, <1>5, <1>6, <1>7, <1>8, <1>9, <1>10, <1>11, <1>12, <1>13, <1>14, <1>15, <1>16, <1>17, <1>18, <1>19 DEF PoolNext, Locks, Works, OwnerLocks

\* sync() of the SSD cache: pending() first, then active().
LEMMA SyncStep ==
    ASSUME PoolIInv, [PoolNext]_poolvars
    PROVE  SyncStages' /\ SyncedTasksDone'
<1> USE DEF SyncStages, SyncedTasksDone, Owns, counters, ending, history
<1>a. Stays /\ SyncStages /\ SyncedTasksDone
  BY TasksStay DEF PoolIInv
<1> USE DEF Stays
<1>1. ASSUME NEW t \in Tasks, Schedule(t) PROVE SyncStages' /\ SyncedTasksDone'
  BY <1>1, <1>a DEF Schedule, Pushes, NotifyOne, Waiting
<1>2. ASSUME NEW w \in Workers, Enter(w) PROVE SyncStages' /\ SyncedTasksDone'
  BY <1>2, <1>a DEF Enter
<1>3. ASSUME NEW w \in Workers, Take(w) PROVE SyncStages' /\ SyncedTasksDone'
  BY <1>3, <1>a DEF Take, TakeTop
<1>4. ASSUME NEW w \in Workers, Idle(w) PROVE SyncStages' /\ SyncedTasksDone'
  BY <1>4, <1>a DEF Idle, NotifyIdle
<1>5. ASSUME NEW w \in Workers, Quit(w) PROVE SyncStages' /\ SyncedTasksDone'
  BY <1>5, <1>a DEF Quit
<1>6. ASSUME NEW w \in Workers, Wake(w) PROVE SyncStages' /\ SyncedTasksDone'
  BY <1>6, <1>a DEF Wake, WakeAs
<1>7. ASSUME NEW w \in Workers, Finish(w) PROVE SyncStages' /\ SyncedTasksDone'
  BY <1>7, <1>a DEF Finish
<1>8. ASSUME NEW w \in Workers, Destructed(w) PROVE SyncStages' /\ SyncedTasksDone'
  BY <1>8, <1>a DEF Destructed, NotifyIdle
<1>9. ASSUME NEW w \in Workers, Exit(w) PROVE SyncStages' /\ SyncedTasksDone'
  BY <1>9, <1>a DEF Exit
<1>10. ASSUME NEW w \in Workers, WakeUnasked(w) PROVE SyncStages' /\ SyncedTasksDone'
  BY <1>10, <1>a DEF WakeUnasked
<1>11. CASE Sync
  <2>1. Known' = Known /\ before' = Known /\ opc' = "pending"
    BY <1>11 DEF Sync, OwnerOnly, Known, Pending, Running
  <2> QED
    BY <2>1
<1>12. CASE SyncLoop
  <2>1. before' = before /\ Running' = Running /\ finished' = finished
    BY <1>12 DEF SyncLoop, OwnerOnly, Running
  <2>2. CASE opc = "pending" /\ opc' = "active" /\ NonePending
    <3>1. Pending = {}
      BY <2>2 DEF NonePending, Pending
    <3> QED
      BY <2>1, <2>2, <3>1, <1>a DEF Known
  <2>3. CASE opc = "active" /\ opc' = "synced" /\ NoneActive
    <3>1. Running = {}
      BY <2>3, NoneActiveRunsNone
    <3> QED
      BY <2>1, <2>3, <3>1, <1>a
  <2>4. CASE opc = "active" /\ opc' = "pending"
    BY <2>1, <2>4, <1>a
  <2> QED
    BY <1>12, <2>2, <2>3, <2>4 DEF SyncLoop
<1>13. CASE Delete
  BY <1>13, <1>a DEF Delete, OwnerOnly
<1>14. CASE Wait
  BY <1>14, <1>a DEF Wait, WaitTo, OwnerOnly
<1>15. CASE Terminate
  BY <1>15, <1>a DEF Terminate, TerminateAs, NotifyAll, Waiting
<1>16. CASE Drain
  BY <1>16, <1>a DEF Drain
<1>17. CASE Join
  BY <1>17, <1>a DEF Join
<1>18. CASE OwnerUnasked
  BY <1>18, <1>a DEF OwnerUnasked, NotifyIdle
<1>19. CASE Over \/ UNCHANGED poolvars
  BY <1>19, <1>a DEF poolvars, Over
<1> QED
  BY <1>1, <1>2, <1>3, <1>4, <1>5, <1>6, <1>7, <1>8, <1>9, <1>10, <1>11, <1>12, <1>13, <1>14, <1>15, <1>16, <1>17, <1>18, <1>19 DEF PoolNext, Locks, Works, OwnerLocks

\* shutdown() waits for the tasks, and nobody schedules one any more.
LEMMA ShutdownStep ==
    ASSUME PoolIInv, [PoolNext]_poolvars
    PROVE  ShutdownWaits'
<1> USE DEF ShutdownWaits, PastWait, Moves, Owns, Running, counters, ending, history
<1>a. ShutdownWaits /\ TaskHeld /\ PoolTypeOK
  BY DEF PoolIInv
<1>1. ASSUME NEW t \in Tasks, Schedule(t) PROVE ShutdownWaits'
  BY <1>1, <1>a DEF Schedule, Pushes, Alive
<1>2. ASSUME NEW w \in Workers, Enter(w) PROVE ShutdownWaits'
  BY <1>2, <1>a DEF Enter
<1>3. ASSUME NEW w \in Workers, Take(w) PROVE ShutdownWaits'
  BY <1>3, <1>a DEF Take, TakeTop
<1>4. ASSUME NEW w \in Workers, Idle(w) PROVE ShutdownWaits'
  BY <1>4, <1>a DEF Idle, NotifyIdle
<1>5. ASSUME NEW w \in Workers, Quit(w) PROVE ShutdownWaits'
  BY <1>5, <1>a DEF Quit
<1>6. ASSUME NEW w \in Workers, Wake(w) PROVE ShutdownWaits'
  BY <1>6, <1>a DEF Wake, WakeAs
<1>7. ASSUME NEW w \in Workers, Finish(w) PROVE ShutdownWaits'
  BY <1>7, <1>a DEF Finish, TaskHeld, PoolTypeOK
<1>8. ASSUME NEW w \in Workers, Destructed(w) PROVE ShutdownWaits'
  BY <1>8, <1>a DEF Destructed, NotifyIdle
<1>9. ASSUME NEW w \in Workers, Exit(w) PROVE ShutdownWaits'
  BY <1>9, <1>a DEF Exit
<1>10. ASSUME NEW w \in Workers, WakeUnasked(w) PROVE ShutdownWaits'
  BY <1>10, <1>a DEF WakeUnasked
<1>11. CASE Sync
  BY <1>11, <1>a DEF Sync, OwnerOnly
<1>12. CASE SyncLoop
  BY <1>12, <1>a DEF SyncLoop, OwnerOnly
<1>13. CASE Delete
  BY <1>13, <1>a DEF Delete, OwnerOnly
<1>14. CASE Wait
  <2>1. UNCHANGED <<m_scheduler, Running>>
    BY <1>14 DEF Wait, WaitTo, OwnerOnly, Running
  <2>2. CASE NoneActive /\ m_scheduler = <<>>
    BY <2>1, <2>2, NoneActiveRunsNone
  <2>3. CASE ~(NoneActive /\ m_scheduler = <<>>)
    BY <1>14, <2>3 DEF Wait, WaitTo
  <2> QED
    BY <2>2, <2>3
<1>15. CASE Terminate
  BY <1>15, <1>a DEF Terminate, TerminateAs, NotifyAll, Waiting
<1>16. CASE Drain
  BY <1>16, <1>a DEF Drain
<1>17. CASE Join
  BY <1>17, <1>a DEF Join
<1>18. CASE OwnerUnasked
  BY <1>18, <1>a DEF OwnerUnasked, NotifyIdle
<1>19. CASE Over \/ UNCHANGED poolvars
  BY <1>19, <1>a DEF poolvars, Over
<1> QED
  BY <1>1, <1>2, <1>3, <1>4, <1>5, <1>6, <1>7, <1>8, <1>9, <1>10, <1>11, <1>12, <1>13, <1>14, <1>15, <1>16, <1>17, <1>18, <1>19 DEF PoolNext, Locks, Works, OwnerLocks

\* Every step keeps the invariant.
LEMMA PoolNextInv == PoolIInv /\ [PoolNext]_poolvars => PoolIInv'
BY CountsStep, TypeStep, HeldStep, TasksStep, SyncStep, ShutdownStep DEF PoolIInv

\* It holds in every state.
LEMMA PoolInvariance == PoolSpec => []PoolIInv
<1>1. PoolInit => PoolIInv
  BY PoolInitInv
<1>2. PoolIInv /\ [PoolNext]_poolvars => PoolIInv'
  BY PoolNextInv
<1> QED
  BY <1>1, <1>2, PTL DEF PoolSpec
-----------------------------------------------------------------------------
(***************************************************************************)
(* Theorems                                                                *)
(***************************************************************************)

\* pool_core keeps its types: no counter of threads goes below zero.
THEOREM PoolTypeCorrect == PoolSpec => []PoolTypeOK
<1>1. PoolIInv => PoolTypeOK
  BY DEF PoolIInv
<1> QED
  BY <1>1, PoolInvariance, PTL

\* The counters that wait() and sync() rely on are exact, whatever the
\* interleaving of waits, wake-ups and leaving threads.
THEOREM CountsAreRight == PoolSpec => []CountsRight
<1>1. PoolIInv => CountsRight
  BY DEF PoolIInv
<1> QED
  BY <1>1, PoolInvariance, PTL

\* SSDCache::sync returns after every task that was scheduled before it began.
THEOREM SyncSeesTasksDone == PoolSpec => []SyncedTasksDone
<1>1. PoolIInv => SyncedTasksDone
  BY DEF PoolIInv
<1> QED
  BY <1>1, PoolInvariance, PTL

\* shutdown() ends the threads after the last task has returned.
THEOREM ShutdownWaitsForTasks == PoolSpec => []ShutdownWaits
<1>1. PoolIInv => ShutdownWaits
  BY DEF PoolIInv
<1> QED
  BY <1>1, PoolInvariance, PTL

\* A step of the pool is a step of the queue or none.
LEMMA PoolStep ==
    ASSUME PoolIInv, [PoolNext]_poolvars
    PROVE  [TP!Next]_<<m_scheduler, Running, finished>>
<1> USE DEF Running, counters, ending, history, OwnerOnly
<1>a. PoolTypeOK /\ TaskHeld /\ TasksApart
  BY DEF PoolIInv
<1>b. TP!Known = Known
  BY DEF TP!Known, Known, Pending
<1>1. ASSUME NEW t \in Tasks, Schedule(t) PROVE [TP!Next]_<<m_scheduler, Running, finished>>
  <2>1. TP!Schedule(t)
    BY <1>1, <1>b DEF Schedule, Pushes, Known, Pending, TP!Schedule, TP!Known
  <2> QED
    BY <2>1 DEF TP!Next
<1>2. ASSUME NEW w \in Workers, Enter(w) PROVE [TP!Next]_<<m_scheduler, Running, finished>>
  BY <1>2 DEF Enter
<1>3. ASSUME NEW w \in Workers, Take(w) PROVE [TP!Next]_<<m_scheduler, Running, finished>>
  <2>1. /\ m_scheduler # <<>> /\ m_scheduler' = Tail(m_scheduler) /\ finished' = finished
        /\ task' = [task EXCEPT ![w] = Head(m_scheduler)] /\ task[w] = Nil
    BY <1>3, <1>a DEF Take, TakeTop, Moves, TaskHeld, PoolTypeOK
  <2>2. Head(m_scheduler) # Nil /\ Head(m_scheduler) \in Tasks
    BY <2>1, <1>a, ThreadPoolAssumption DEF PoolTypeOK
  <2>3. Running' = Running \cup {Head(m_scheduler)}
    BY <2>1, <2>2, <1>a DEF PoolTypeOK, Running
  <2>4. TP!Take
    BY <2>1, <2>3 DEF TP!Take
  <2> QED
    BY <2>4 DEF TP!Next
<1>4. ASSUME NEW w \in Workers, Idle(w) PROVE [TP!Next]_<<m_scheduler, Running, finished>>
  BY <1>4 DEF Idle, NotifyIdle
<1>5. ASSUME NEW w \in Workers, Quit(w) PROVE [TP!Next]_<<m_scheduler, Running, finished>>
  BY <1>5 DEF Quit
<1>6. ASSUME NEW w \in Workers, Wake(w) PROVE [TP!Next]_<<m_scheduler, Running, finished>>
  BY <1>6 DEF Wake, WakeAs
<1>7. ASSUME NEW w \in Workers, Finish(w) PROVE [TP!Next]_<<m_scheduler, Running, finished>>
  <2>1. /\ task[w] \in Tasks /\ finished' = finished \cup {task[w]}
        /\ m_scheduler' = m_scheduler /\ task' = [task EXCEPT ![w] = Nil]
    BY <1>7, <1>a DEF Finish, Moves, TaskHeld, PoolTypeOK
  <2>2. \A v \in Workers : v # w => task[v] # task[w]
    BY <2>1, <1>a, ThreadPoolAssumption DEF TasksApart
  <2>3. Running' = Running \ {task[w]} /\ task[w] \in Running
    BY <2>1, <2>2, <1>a, ThreadPoolAssumption DEF Running, PoolTypeOK
  <2>5. PICK t \in Tasks : t = task[w]
    BY <2>1
  <2>6. TP!Finish(t)
    BY <2>1, <2>3, <2>5 DEF TP!Finish
  <2> QED
    BY <2>6 DEF TP!Next
<1>8. ASSUME NEW w \in Workers, Destructed(w) PROVE [TP!Next]_<<m_scheduler, Running, finished>>
  BY <1>8 DEF Destructed, NotifyIdle
<1>9. ASSUME NEW w \in Workers, Exit(w) PROVE [TP!Next]_<<m_scheduler, Running, finished>>
  BY <1>9 DEF Exit
<1>10. ASSUME NEW w \in Workers, WakeUnasked(w) PROVE [TP!Next]_<<m_scheduler, Running, finished>>
  BY <1>10 DEF WakeUnasked
<1>11. CASE Sync
  BY <1>11 DEF Sync, OwnerOnly
<1>12. CASE SyncLoop
  BY <1>12 DEF SyncLoop, OwnerOnly
<1>13. CASE Delete
  BY <1>13 DEF Delete, OwnerOnly
<1>14. CASE Wait
  BY <1>14 DEF Wait, WaitTo, OwnerOnly
<1>15. CASE Terminate
  BY <1>15 DEF Terminate, TerminateAs, NotifyAll, Waiting
<1>16. CASE Drain
  BY <1>16 DEF Drain
<1>17. CASE Join
  BY <1>17 DEF Join
<1>18. CASE OwnerUnasked
  BY <1>18 DEF OwnerUnasked, NotifyIdle
<1>19. CASE Over \/ UNCHANGED poolvars
  BY <1>19 DEF poolvars, Over
<1> QED
  BY <1>1, <1>2, <1>3, <1>4, <1>5, <1>6, <1>7, <1>8, <1>9, <1>10, <1>11, <1>12, <1>13, <1>14, <1>15, <1>16, <1>17, <1>18, <1>19 DEF PoolNext, Locks, Works, OwnerLocks

\* The threads, counters and condition variables implement a FIFO from which
\* every task is taken once, which WriteBuffer and SSDCache rely on.
THEOREM PoolImplementsQueue == PoolSpec => RefinesTaskPool
<1>1. PoolInit => TP!Init
  BY DEF PoolInit, TP!Init, Running
<1>2. PoolIInv /\ [PoolNext]_poolvars => [TP!Next]_<<m_scheduler, Running, finished>>
  BY PoolStep
<1> QED
  BY <1>1, <1>2, PoolInvariance, PTL DEF PoolSpec, RefinesTaskPool, TP!Spec
=============================================================================
