# mog: a verification project for the storage server

`mog` is the storage tier of cudadb. A client (a caffe input layer) asks for files by path; the
server answers them from a memory buffer, a RAM cache, block files on SSD or HDD, or, the first time,
from the distributed file system, after which it keeps a copy. This directory holds TLA+ models of
the server, TLC runs that check them on small instances and proofs that TLAPS checks for every
instance. Paths below are under `src/mog_server/src/` unless they start with another directory of `src/`.

## 1. The system

| Component | State it keeps | Operations | Talks to | What makes it correct |
|---|---|---|---|---|
| `WriteBuffer` | hash table `kv_store`, queue `kv_list`, `blocks`, two size counters, `wbuffer_lock` | `write`, `flush`, `read`, `sync`, `close` | pool `flush_thread_pool`; `CentraIndex::put`; spins on `SSDCache::block_num` | every accepted value reaches a file and the index; each is freed once; counters equal what they count; the limit holds up to the callers in flight |
| `CentraIndex` | LevelDB: key to (block, offset, length) | `put`, `get`, `load`, `close` | written by `flush`, read by `CpuCache::read` | an index entry names that key's bytes |
| `CpuCache` | items with slab lists, free slab lists, `free_slab_num`, a read/write lock | `read`, `insert`, `close` | calls index and `SSDCache::read` on a miss | slabs are conserved; an item is one file |
| `SSDCache` | `cached_block`, `caching_block`, queue of cached ids, `block_num`, read counts | `read`, `fetch`, `flush`, `new_block`, `sync`, `close` | own pool; files on SSD and HDD | one fetch per block; readers find their file; size bounded; room comes back |
| `mog` | `ready`, `total_size`, the components | `open`, `create`, `load`, `close`, `read_file`, `read`, `insert_file_with_copy`, `insert_file`, `exist`, `sync` | all of the above | a reply is the file asked for; the HDD budget holds |
| server (`main.cpp`) | `mtx`, `reset_flag`, `first`, `DB`, worker threads | `CreateMogEntry`, `worker_routine` | ZeroMQ dealer/router; `mog` | one reset at a time, which ends; workers use an open store |
| client (`src/mog_client/mog.h`, `src/core/mog.h`) | REQ sockets, each with an atomic "in use" flag | `get` | server | one caller per socket; a reply is the file asked for |
| request path (`src/depend/zeromq-4.1.4`) | pipes, identities, REQ's and REP's place in the exchange, whose turn it is | what REQ, ROUTER, the proxy, DEALER and REP do with a message | client and workers | each request is in one place and answered once |
| mailbox (`src/depend/zeromq-4.1.4`) | a lock-free queue `ypipe_t` of chunks, a lock for senders, an eventfd, `active` | `send`, `recv`, destructor | every ZeroMQ thread with every other | the queue is a FIFO; a sleeping receiver is woken, once; nobody is inside when it goes |
| pipe pair (`src/depend/zeromq-4.1.4`) | two `ypipe_t` of messages, per end a state of six, watermark counts, `in_active`, `out_active` | `read`, `write`, `rollback`, `flush`, `terminate`, `process_*` | its peer, through the queues and the mailboxes | the watermark holds; the ends agree when to go; nothing waited for is lost; nothing is used after it is freed |
| thread pool (boost.threadpool, `include/threadpool`) | queue of tasks, three counters, one monitor, two conditions | `schedule`, `pending`, `active`, deletion | scheduled by `WriteBuffer` and `SSDCache`, deleted by their `close` | every task runs once, in order; who waits for the tasks gets all of them; deletion ends |
| `GpuCache` (`src/mog_gpu/`) | items, a FIFO of free slabs, a FIFO of keys to evict, a read/write lock | `read`, `insert`, `close` | CUDA copies | a slab has one owner; what is read is what was inserted last |
| others | `src/core/io.cpp` (image decoding), `MappedFile` (empty class), `mog.yaml` (constants), `*.cpp.old` (not built) | | | |

How a request runs: `worker_routine` receives a path; a `!` asks for a reset; otherwise the worker
tests `reset_flag` and, if clear, calls `mog::read_file`, which tests `ready` and then looks in the
write buffer (shared lock, released), the RAM cache (shared lock, released), the index (LevelDB's own
lock), the block file (`ssd_cache_rwlock` shared); it inserts what it found in the RAM cache, and on a
miss of all it reads the file and calls `WriteBuffer::write`.

What is hard here:

* **No lock spans two looks.** While a worker goes from buffer to cache to index to block, entries
  move the other way: queue to block, block to file, file to index, out of `kv_store`.
* **Tests outside the lock that guards the action**: the buffer's limit (`WriteBuffer.cpp:58`), the
  SSD's (`SSDCache.cpp:66`), the HDD's budget (`mog.cpp:324`), `ready` and `reset_flag`.
* **A loop that trusts counters**: the cut of a block pops a `std::queue` without asking whether it
  is empty (`WriteBuffer.cpp:95-105`).
* **A mutex that one thread locks and another unlocks** (`main.cpp:36,51,96`).
* **Waiting by spinning** on what other threads do (`WriteBuffer.cpp:58-61`).
* **A reset while everything runs**: `close()` frees one component after the other while workers and the
  tasks of two pools are inside them (`mog.cpp:216-250`), and cancels nothing: what keeps the order right
  is which pool is deleted before which component is closed.
* **Counters as substitutes for a queue's state**: the pool's `active()`, read without its monitor by who
  waits for the tasks; `free_slab_num` of the GPU cache, on whose strength `front()` and `pop()` are called.
* **Messages in two channels**: a pipe's data and delimiter go through a lock-free queue, its commands through
  the mailbox, and each overtakes the other; both ends may terminate at the same time (`pipe.cpp`).
* **Lock-free sleep and wake-up**: a reader sleeps and a writer publishes by one compare-and-swap each, on
  addresses that are used again (`ypipe.hpp`, `yqueue.hpp`), and the signal is sent outside the lock.
* **Replies that outlive their askers**: a client's process that dies leaves requests with the server,
  whose replies must not reach the sockets of the next process.

`PROJECT.json` lists these and the others, one by one, at their lines.

## 2. Modules

| Module | Models | Built on |
|---|---|---|
| `SlabMath` | the slab classes and rounding | |
| `KVMap` | abstract: a map that changes by accepted writes only | |
| `TaskPool` | abstract: a queue of tasks, each taken once and in order | |
| `SleepyQueue` | abstract: a FIFO whose writer learns from `flush()` that the reader sleeps | |
| `WriteBuffer` | `WriteBuffer::write` and `flush` with the pool, `CentraIndex::put` | `SlabMath`; implements `KVMap` |
| `MogStore` | `mog::read_file`, `insert_file_with_copy`, `CpuCache`, `CentraIndex::get`, what a block file can give | extends, and implements, `WriteBuffer` |
| `SSDCache` | `SSDCache::read` and `fetch` with the pool | |
| `ThreadPool` | boost.threadpool, `SSDCache::sync`, deletion of a pool | implements `TaskPool` |
| `MogServer` | `main.cpp`, and `mog::open`/`close` as stages | |
| `MogReset` | `mog::close`, `open` and `create` statement by statement, with both pools' tasks and the workers inside | extends, and implements, `MogServer` |
| `MogClient` | `get` of the client, REQ, ROUTER, proxy, DEALER, REP; deaths of either process | |
| `YPipe` | ZeroMQ's `ypipe_t` on `yqueue_t`, by addresses and single accesses | implements `SleepyQueue` |
| `ZmqMailbox` | `mailbox_t`, its eventfd and the ways it is called | extends `SleepyQueue` |
| `ZmqPipe` | a pair of `pipe_t`, with the queues between them and the commands in both mailboxes | |
| `GpuCache` | `insert`, `read`, `close` of the GPU cache | |
| `MCWriteBuffer`, `MCMogStore`, `MCSSDCache`, `MCGpuCache`, `MCMogClient`, `MCYPipe`, `MCZmqPipe` | instances for TLC | the module named |
| `MogStoreProofs` (with `WriteBuffer`'s), `SSDCacheProofs` (with `ThreadPool`'s), `MogResetProofs` (with `MogServer`'s), `MogClientProofs`, `GpuCacheProofs`, `YPipeProofs`, `ZmqMailboxProofs`, `ZmqPipeProofs` | theorems | the module named, TLAPS |

How they fit: `MogStore` is one request through one store, and composes buffer, RAM cache, index and
blocks. `SSDCache` and `ThreadPool` are the detail of what it, and `WriteBuffer`, take for granted:
copies that come and go, and a FIFO of tasks. `MogReset` takes the same components through their lives
and forgets what is in them. `MogClient` brings the requests to the workers; it takes ZeroMQ's pipes for FIFOs,
and `ZmqPipe`, `ZmqMailbox` and `YPipe` are what is below, each on what the next one promises: the pipe on
mailboxes that deliver every command in order, the mailbox on a queue that is a `SleepyQueue`, which `YPipe`
implements.

Operators with names such as `FrontFitsAfter` or `CloseStillReady` stand next to the definition they
alter and are used by no specification: each is a plausible mistake in that piece of code, and
`PROJECT.json` ("mutants") says which property notices it.

### WriteBuffer

Variables carry the members' names. `wpc`/`warg` are where a caller of `write()` is and its arguments;
`fpc`/`fblk`/`flushed_size` the same of a pool thread in `flush()`; `pending` is the pool's FIFO of
tasks; `hdd[b]` the sequence of entries in block `b`'s file. An entry's offset in the file is its
position in that sequence: the code adds up the lengths of the entries before it.

| Action | Code |
|---|---|
| `Call` | entry to `write()` past the length test |
| `Admit` | first spin loop, `total_size` read without the lock |
| `Reject` | lock, hash present: return -1 |
| `Insert` | lock, insert, count; if the queue exceeds a block, take an id and keep the lock |
| `CutMove`, `CutEnd` | an iteration of the cutting loop; its exit, `schedule`, unlock |
| `FlushOpen` | a pool thread takes the oldest task, removes and creates the file (no lock) |
| `FlushLock` | `wbuffer_lock` for writing |
| `FlushEntry` | one entry: bytes, index, `delete[]`, erase from `kv_store` |
| `FlushClose` | close, forget the block, subtract, unlock |

Locked sections are split where someone without the lock can see the difference: `total_size` by
`Admit`, index and files by readers. The second spin loop of `write()` waits for `SSDCache::block_num`
and reads nothing of the buffer; here it is a delay before `Insert`/`Reject`, and that it ends is
`RoomAgain` of `SSDCache`.

### MogStore

`rpc` is where a worker is in `read_file`, `rkey`, `rloc` and `rlen` its key, `key_centra_index` and the
length `read_file` returns; `mog_data` is what is at the front of the memory it copies replies to. Its steps: `Request`, `BufferRead`, `CacheHit` or `CacheMiss`, `IndexGet`, `DiskRead`,
`CacheInsert`, `FileOnly` or `FileStore`, then a whole `write()` of `WriteBuffer`, `Stored`, `Reply`.
`File` is the file system, and contents are values. Length and bytes of a reply are two things in the code, and
here: a worker allocates `mog_data` once (`main.cpp:43`) and replies with as many bytes of it as `read_file`
returns (`main.cpp:85-87`), whoever wrote them there. `flush()` puts an entry in the index before the stream's
buffer has reached the file (`WriteBuffer.cpp:137` and `142`), so a reader that comes in between gets fewer bytes
from `fread` than it asks for, whose count nobody looks at (`SSDCache.cpp:190,201`). What was in its memory before
then stays (`DiskRead`): all of it, which is the reply to an earlier request for another file, or the end of it behind
what there was to read, which is `Garbage`, as is memory never written to. A copy of the block taken then is short for as
long as it is cached (`ssd[b] = "partial"`). `shortRead` is history, the keys of which some read was short.
`SsdCopy` and `SsdEvict` are all that `MogStore` needs of `SSDCache`.

The RAM cache keeps for each key the sequence of insertions, each with the length from the index and the bytes from
the worker's memory (`CpuCache.cpp:120`), as `insert()` appends slabs to an item that exists; `free_slab_num` is the code's counter. Its eviction loop stands behind a `return` and never
runs.

### SSDCache

`read()` holds `ssd_cache_rwlock` shared throughout, so a fetcher can install only while no reader is
inside; between themselves readers interleave at every access to `read_num`, `read_record`,
`caching_block`. `fetch()` tests `block_num` and copies the file without a lock: `FetchStart` (the test,
which may give up), `CopyOpen`, `CopyEnd`, then with the write lock `Install`, `Evict` for each turn of
the eviction loop, `EvictEnd`, `FetchEnd`. `check_threshold` is 50 in the code.

### ThreadPool

The pool is vendored under `include/threadpool`; `TaskPool` is what `WriteBuffer` and `SSDCache` are
modelled with, and `ThreadPool` shows that this is what they get.

| Action | Code (`include/threadpool/boost/threadpool/detail/`) |
|---|---|
| `Schedule` | `pool_core::schedule` with its `notify_one` |
| `Enter`, `Take`, `Idle`, `Wake`, `Quit` | `execute_task`: monitor, oldest task or wait, end of the wait |
| `Finish` | the task returns, `worker_thread::run` goes on |
| `Destructed`, `Exit` | `worker_destructed`, the thread's function returns |
| `Sync`, `SyncLoop` | `SSDCache::sync` |
| `Delete`, `Wait`, `Terminate`, `Drain`, `Join` | the policy `wait_for_all_tasks`, `terminate_all_workers(true)` |
| `WakeUnasked`, `OwnerUnasked` | a condition variable that returns without a notification |

A section under the monitor is one step, except where the code waits in it or joins threads in it, and
where `active()`, which takes no lock, sees a worker that has been counted out and not yet in again.
`finished` and `before` are history.
`Schedule` needs a pool whose deletion has not begun (`Alive`): `pool_core.hpp:182` does not test that, it is the duty of the owner. The mutant `SyncLoopActiveFirst` is the order of
`WriteBuffer.cpp:173`: that `sync()` can return with a task running. Nothing in the server calls it.

### MogServer and MogReset

`MogServer` has the statements of `CreateMogEntry` one by one, `mog::open` and `close` as the stages
another thread can tell apart (`store`, `hdd_blocks`), and `worker_routine` with the test of
`reset_flag`, the test of `ready`, the use of the store. A use of memory that was freed may abort or not
(`alive' \in BOOLEAN`).

`MogReset` keeps these variables and adds what the stages consist of. `step` is the creator's statement:

| Action | Code |
|---|---|
| `FreeBuffer`, `BufferPool` | `WriteBuffer::close`: clears buffer and blocks, then deletes the pool, which waits for its tasks |
| `CloseIndex` | `CentraIndex::close` |
| `Sync`, `ClearSSD`, `SSDPool` | `SSDCache::close` |
| `RemoveSSD` | `remove_all` of the SSD directory |
| `MakeMog`, `WipeSSD`, `WipeHDD` | the new `mog`, the directories that `open`/`create` empty |
| `SetupIndex`, `InitialBuffer`, `InitialSSD` | `setup()` and `initial()` of the components |
| `FlushTake`, `FlushLock`, `FlushEnd` | `WriteBuffer::flush` as far as blocks and files go |
| `FetchTake`, `FetchEnd` | `SSDCache::fetch` likewise |
| `LookupOpen`, `LookupFreed`, `ReadBlock` | a worker in `read_file`: may cut a block, may schedule a fetch, may be sent to a block, opens its file |

`FreeBuffer` takes the statements of `WriteBuffer.cpp:181-187` together: a flush that locks in the middle of them is not counted
as a user of what is freed. `FetchEnd` has no eviction loop, which `SSDCache` has; a block that is evicted loses copy and entry
together. The tasks that a worker inside the store would schedule while `close()` waits are not followed: such a worker
makes `clean` `FALSE`, and may abort the process.

A block is its id, which is the name of its files; ids start again with each reset, so that an id that
survives one anywhere is a wrong file later. `clean` becomes `FALSE` when `close()` frees what a worker or a
flush is using (section 6); most properties are about resets for which it has not, and say
so. The others (`OneCreator`, `ReadyMeansOpen`, `ResetEnds`, `RefinesServer`) hold in any case.

### MogClient

A message is one value with the identity the `ROUTER` put in front of it. A caller's steps are those of
`mog::get` (`src/core/mog.h:68-84`): `TestAndSet` on one flag after the other, `Send`, `Recv`, `Clear`. The
message goes through `Transfer` (pipe and session to the `ROUTER`), `ForwardRequest` (the proxy, and the
DEALER's turn, `lb.cpp`, `fq.cpp`), `Receive` and `Reply` (`rep.cpp`, `worker_routine`), `ForwardReply`
(`router.cpp`, which drops what has no connection). `Throw` is REQ's exception when it is out of step
(`req.cpp`); no behaviour reaches it, which is part of `SocketPrivate`.

`ServerDies` loses what the server holds; a request not yet taken by the connection survives
(`session_base.cpp`), `ServerStarts` brings a new server. `ClientDies` starts a process with new sockets
and identities while its predecessor's requests are still with the server.

### YPipe, ZmqMailbox and ZmqPipe

`YPipe` has `begin`, `back` and `end` of `yqueue_t` as addresses (a chunk and a place in it), `r`, `w`, `f` and
`c` of `ypipe_t`, the spare chunk, and a heap that may give a freed address out again at once. A step of a
thread ends before its next access to `c`, `spare_chunk` or a chunk's links: `Write`, `NextChunk` and `Link`
(`write`, `push`), `Unwrite` (`unwrite`, `unpush`), `Flush`, `SetC`, `Signal` (`flush` and what its caller does
when it returns `false`); `CheckRead`, `Read`, `Recycle`, `Wake`. `list` is history: the addresses
from `begin` to `end` as `push` added them and `pop` and `unpush` took them away. `ChunksConserved` says that the code's
own links agree with it (`Linked`), and the refinement reads `SleepyQueue`'s sequences off it, between the pointers. The
assumption `N # 1` is that of every instantiation in the library, whose granularities are 16 and 256.

`ZmqMailbox`: `Enter`, `Lock`, `Write`, `Flush`, `Unlock`, `Signal` are `mailbox_t::send`, `Signal` after the lock;
`PolledCall`, `AnyCall`, `CallAgain`, `Read`, `Empty`, `Signalled`, `TimesOut`, `Interrupted`, `TakeSignal`,
`ReadFirst` are `recv` with `signaler_t::wait` and `recv`, and its callers: `io_thread_t::in_event` and
`process_commands` go on until there is nothing, threads that poll call when the eventfd is readable, sockets at any
time. `Destroy` is the destructor, called when the last command was received, as `process_term_ack` and the reaper
do it.

`ZmqPipe` has for each of two ends the members of `pipe_t`, the message queue to its peer (`unflushed`, `flushed`),
the reader's sleep as `SleepyQueue` has it, and the commands on their way to it. A call is one action unless it
sends a command after it has changed the queue, where the peer may come between (`pc`). Messages are read whole: of one of several
frames, `read` sends the count again with each frame while it is a multiple of `lwm` (`pipe.cpp:182-186`), which changes
nothing for a writer that has it. `process_pipe_term`,
`process_pipe_term_ack`, `process_delimiter` and `terminate` have one action for each state they tell apart, and
the state names are the code's. `deleted` are the ends that `process_pipe_term_ack` has deallocated, `hasty` the
ends that were told not to wait for pending messages.

### GpuCache

`Insert` is `insert()` up to the eviction loop, `Evict` one turn of it, `Store` the rest; the write lock is
held from the first to the last. `Find` is the look-up of `read()`, which has no lock, and `Return` the copy
under the read lock; `dangling` are the readers whose iterator was found during, or survived, a change of
the map. An insertion of a key that is cached returns its slabs to the free list and leaves them in the
item (`src/mog_gpu/GpuCache.cpp:77-86,113-120`); `again` counts them, and what is promised only without them
says `again = 0`. `CountIsCovered` and `EvictionFindsItem` hold with them.

## 3. Runs

| Run | Instance | Shows |
|---|---|---|
| `buffer` | 2 callers, 2 flushers, 4 keys, 2 lengths, blocks and buffer of one page, 2 blocks | the safety of the buffer, that it implements `KVMap`, that cut blocks reach disk, a full buffer drains and calls that wait for it return |
| `store` | 2 workers, 1 flusher, 4 files (a half page and three whole ones, of which two are alike), blocks and buffer of two pages, RAM cache of one, HDD budget of 95% of one | replies and cached items have their file's length, and its bytes unless a read of that very file was short; the budget is passed by at most a file per worker |
| `ssd` | 2 readers, 2 fetchers, 3 blocks, `max_block_num` 2, threshold 0 | one fetch per block, readers find the file they chose, room comes back |
| `pool` | 2 workers, an owner, 3 tasks, 1 spurious wake-up | `sync()` and deletion wait for all tasks, every task runs, deletion ends, the pool is a `TaskPool` |
| `reset` | 2 creators, 2 workers, 1 flusher, 1 fetcher, 2 blocks between resets | a reset ends; tasks keep what they need; the new store is empty; blocks have files; flags name open stores; all this implements `MogServer` |
| `client` | 2 callers, 2 sockets, 2 workers, 1 death | a socket has one user; a reply belongs to its request; sockets come free |
| `gpu` | 3 keys, values of 1, 2 and 4 slabs, 5 slabs, 2 inserters, 1 reader, 1 repeated insertion | evictions never run out; reads are right, with the exceptions named |
| `ypipe` | 7 elements, chunks of 2, 6 addresses | no chunk is lost or freed in use; addresses that come back confuse nobody: the pipe is a `SleepyQueue` |
| `mailbox` | 2 senders, 3 commands, 1 receiver | one signal at a time; commands show and arrive; nobody is inside a destroyed mailbox |
| `pipes` | messages both ways, watermarks of 3 and 1, terminations on either side or both, delayed or not | the assertions of `pipe.cpp`, memory, watermarks, nothing lost; termination ends; a stopped writer goes on |
| `store_insert`, `ssd_stuck` | 3 files, one of them empty; threshold 1 | the two disagreements of section 6 |

Why these bounds suffice for what they ask:

* *Files.* In `store` a half page and two whole ones exceed a block of two pages, so that a file is read from
  the middle of a block; the four together exceed the budget by more than the two workers may pass it. Of the files of one page two have
  the same contents and one has others, so that what an earlier reply left can be right, wrong at the same length, or longer than
  the file. What
  depends on lengths otherwise (empty files, missing ones) is in the theorems, which are for any files.
* *Sizes.* With one-page blocks and a one-page buffer (`max_page_num` is `12*1 \div 10 = 1`), two half
  slabs fill a block exactly, a half and a whole one overflow it, and a third admitted caller passes the
  limit: every branch of `write()` and both ways out of the cutting loop occur. `store` has a buffer of two
  pages because its blocks have two: in a buffer smaller than a block a writer can wait for room that no cut
  ever makes (`src/mog_server/src/WriteBuffer.cpp:58,88`); the configuration counts the buffer in gigabytes, which a
  block of the usual 64 MB is far from.
* *`MaxBlocks`* is a bound the program does not have. In `WriteBuffer`, `Call` leaves room for every
  call under way, so it cuts behaviours off between calls, never inside one; `AtBound` is the stutter
  there. One block in `store` is cut, flushed, copied, dropped and read with two files in it, and
  of `buffer`'s two one is flushed while the other is cut. In `MogReset` it bounds the blocks between two resets; resets are unbounded, and with two a block
  can be in use while the id of another is taken again.
* *SSD.* Three blocks in a cache for two: a full cache, an eviction, a block fetched again after one.
  Threshold 0 makes every second read choose a block to fetch.
* *Pool.* Three tasks for two workers: one waits in the queue while both run. `MaxSpurious` bounds
  spurious wake-ups; one is enough to find a loop that does not test its condition again.
* *Client.* Two callers on two sockets contend for the first one and use both. `MaxDeaths` counts the
  deaths of both processes together: one of either. A third caller, which would make the loop go around
  with every flag set, makes the instance too large to be checked in minutes; that case is in the
  proofs only, which are for any number.
* *Queue.* Chunks of two are filled and left by every second element; of seven elements four chunks come and
  go, the spare one among them, so that an address is taken again while both threads still compare pointers.
  Six addresses are more than are ever allocated at once.
* *Mailbox and pipes.* Three commands of two senders: one is received while another is written and a third one
  waits for the lock. With a high watermark of 3 and `max_wm_delta` 1 the low one is 2, so `compute_lwm` takes
  its second branch, for 1 its first one; the session may terminate twice (to linger, then
  to give up), the socket, which never lingers, once; the socket writes 4 messages, the session 2.
* *GPU.* Five slabs and a largest value of four: an insertion evicts one, two or three items, and can
  find the key it is inserting at the head of the queue. `MaxAgain` bounds repeated insertions only
  because each makes its item's list of slabs longer.
* *Threads.* Two of each kind give every race of two; symmetry (of workers, and of keys with the same file, in `store`)
  is used only in runs without liveness.
* *Deadlock* is checked in every run but `client`: after a death of the server callers that wait for a
  reply wait for ever, as the code makes them (no timeout, no retry), and nothing else need happen. In the
  others the ends there are have a stutter of their own (`AtBound`, `Over`, `Closed`, `Aborted`).

Constants of `reset`: `Creators` bounds how many creator threads there can be at once, not how
many resets; two are one more than `mtx` lets in.

## 4. Fairness

* Running threads run: weak fairness of each thread's own steps. This is all that `MogReset` and
  `MogClient` assume.
* Lock waits end: strong fairness of the steps that take `wbuffer_lock` or `ssd_cache_rwlock`
  (`FlushLock`, `Insert`/`Reject`, `Install`). `boost::shared_mutex` makes new readers
  wait once a writer does, and wakes every waiter; likewise of `Lock` in `ZmqMailbox`. For the pool's monitor (`Locks`, `OwnerLocks`) it is an
  assumption about the system's mutex.
* Flags are no locks: nothing is assumed of who gets a socket's `test_and_set`. A caller may spin for
  ever while others take the sockets in turn, and no property says otherwise; `SocketsComeFree` is
  about the socket.
* A receiver polls its mailbox and is not interrupted for ever (strong fairness of `Signalled`), and goes on
  until there is nothing more, as its callers do. In `ZmqPipe` ends take their commands, who has written
  flushes, and a session or socket goes on reading what there is, as their loops do; nobody need write or
  terminate.
* Requests, calls of `write()`, calls of `get`, scheduling, deletion of a pool, SSD copies and evictions in
  `MogStore`, and deaths are not assumed to happen. A server that died is started again.
* `Insert`/`Reject` also stand for the second spin loop, which ends because the SSD cache gets room again (`RoomAgain`,
  which needs `max_block_num > 0`; only a configuration with an SSD smaller than a block makes it 0, and then every
  writer spins for ever). The first spin loop is in the model: `Admit` has weak fairness only, and `CallsReturn` says that it ends
  once no new calls take the room, which in a run `MaxBlocks` sees to. The other steps of a request wait for nothing but
  `wbuffer_lock`, so that nothing is said of their progress, and `StoreSpec` has no fairness.

## 5. Proofs

All are for any sets of keys, values, threads, blocks and any sizes, from the assumptions named `ASSUME` in
the modules: types of the constants, finiteness of a set of threads where it is counted
(`PoolAssumption`), `None` apart from the rest, and sizes that are positive where the code divides by them
or needs room for one value. In each
proof module `IInv` (`RInv` in two) is the inductive invariant, there is a lemma for each action or kind of
action, and the theorems follow from the one that says `[]IInv`.

**`MogStoreProofs`, of `WriteBuffer`**: `TypeCorrect`, `EveryValueFreedOnce`, `NoEntryStranded`,
`CutNeverFindsQueueEmpty`, `CutLeavesNewestOnly`, `OvershootIsBounded`, `IndexIsSound`,
`ClosedBlocksStay`; and `Refinement`: if no two keys have one hash (`HashInjective`), `Spec` implements
`KVMap`. Without the hypothesis it is false: `read()` compares hashes. `IInv` adds to `TypeOK`:

* `LockHeld`: who holds `wbuffer_lock` is whoever is cutting or writing, and only that one;
* `CallersReady`, `StoreLegal`: arguments and entries are where they should be, and lengths legal;
* `BlockStages`: of each block id, whether it is unused, being cut, pending, opened, being written or
  closed, and that these exclude one another; this is why no file is opened twice;
* `QueuedNotInBlock`, `StoreCovered`, `FreedOnce`: each live entry is in one place;
* `Cutting`, `QueueSized`: during a cut, block and queue together exceed a block and do not without
  the newest entry, so while the front fits, something is behind it. This needs the queue's slabs to
  add up to `total_size_without_block`. The sum cannot be a recursive operator here; `SlabsOf` states
  that a function of partial sums exists, with lemmas for the head, the ends, an append and a tail;
* `Reserved`: `total_size` plus a slab for each caller admitted is at most the limit plus a slab for
  each caller there is;
* `IndexSound`, which is inductive with the others.

For `Refinement`, `Insert` is a `Put`; `FlushEntry`, `FlushOpen` and all others leave `Lookup` unchanged.

`MemoryIsCounted` and `MemoryIsBounded` are about sums of slabs over the entries in memory, and `BudgetHolds` below about
sums of lengths. `SumFunction` is a fold, of which nothing could be derived by an induction over its set. Instead,
`SumIsUnits` shows the sum of a function to be the cardinality of its `Units`, the pairs of an argument and a
number from 1 to the function's value there: if it failed for a set, it would for a smallest one, and for this it does not. What happens to a
sum if an entry comes, goes or changes (`SumAdd`, `SumBounded`, `SumOfNone`) is then a fact about cardinalities. `MInv`
adds to `MemoryCounted` that a flush that writes nothing has freed nothing.

**`MogStoreProofs`, of `MogStore`**: `StoreImplementsBuffer` (`StoreSpec => Spec`: every step of a worker is a step of the
buffer or leaves it alone; that `FileStore` calls `write()` with a key needs `KeyKnown`), so that
everything proved of the buffer holds of it in the store. With `HashInjective`: `StoreTypeCorrect`,
`RepliesAreRight`, `RamCacheIsRight`. `RInv` says that every entry in memory, in a block, in a file or on
its way in holds its key's file (`AllHeld`), that a place taken from the index still holds the key when the
block is read (`Located`; the lemma `PlacesStay`), what a worker has in its memory at each stage (`Obtained`) and what
the RAM cache has (`CachedRight`). Both say of the length what it is, and of the bytes that they are the file's if the file is
not empty and its key not in `shortRead` (`Right`). The exception is for the key itself: that a worker's memory holds
something else between two requests, and after a short read also in the next insertion, must not reach the reply for any other
key. This rests on every step that leads to a reply filling the memory, which only `DiskRead` may fail to do.
Without the hypothesis, `BudgetHolds`: `BInv` relates the test of the budget to the count made after the write. What is stored is counted
or of a worker that has written and not yet counted (`StoredCounted`), and the count leaves room for a file for each worker
between test and count (`CountFits`), by lengths that were tested (`WritersFit`).

**`SSDCacheProofs`**: `CacheTypeCorrect`, `BlocksFetchedOnce`, `CopiesFindNoFile`, `CacheIsConsistent`,
`ReadersFindFiles`, `SSDIsBounded`. A block is fetched once only because it is in `caching_block` before,
and not in `cached_block` during its fetch (`NotCached`); a copy finds no file because what is on the SSD is
cached or being copied (`FilesKnown`); a reader keeps its file because evictions need the lock it shares
(`Locking`, `Reading`). The bound is `Room`: `block_num` and the fetches past the test of the size are fewer
than `max_block_num` and the fetchers together.

**`SSDCacheProofs`, of `ThreadPool`**: `PoolTypeCorrect`, `CountsAreRight`, `SyncSeesTasksDone`, `ShutdownWaitsForTasks`
and `PoolImplementsQueue` (`Spec => RefinesTaskPool`). `MonitorHeld` says who is inside; `TasksApart` that a
task is once in the queue, with one worker, or finished, which the refinement needs as much as
`SyncedTasksDone`; `SyncStages` how far `sync()` has come: when it has seen an empty queue, what was there
before is running or finished, and when it then sees no active worker, it is finished, because a worker
that runs a task is counted (`NoneActiveRunsNone`).

**`MogResetProofs`**, of `MogServer`: `ServerTypeCorrect`, `OneCreatorAtATime`, `ReadyStoreIsOpen`. `Stages` says
what the flags are at each statement of `CreateMogEntry`; it is needed because `ready` is also written by any
worker that gets a `!`. Of `MogReset`: `ResetTypeCorrect`, `TasksKeepTheirStore`, `StoreOpensEmpty`, `BlocksHaveFiles`,
`ResetImplementsServer` (`ResetSpec => RefinesServer`) and from it `ResetKeepsServer`. `RInv` has the
invariant of `MogServer`, and says where a reset is inside `close` and `open` (`StepsMatch`), at which step
which tasks have ended (`TasksEnd`), that both directories have what index, tasks and cache name
(`FilesThere`), what is left of the old store at each step (`Emptied`), and that a store that was freed
with no user gets none before it is open (`Unused`). The refinement needs it: a flush that ends is a step
of `MogServer` only where `close` has not gone past the deletion of the pool.

**`MogClientProofs`**: `ClientTypeCorrect`, `SocketsArePrivate`, `RepliesMatchRequests`, `MessagesAreOnce`.
`Messaging` follows the message of a socket: it is in one of six places (`OnePlace`), once (`OnceThere`),
and only while REQ waits (`Awaited`). `RightFile` says that it names the file its caller wants; `Held` ties
flags, REQ's state and callers; `Unborn` says that identities of later incarnations are on no message, and
is what makes a death of the client harmless. The first two alone are not inductive: a late reply would
reach a socket that waits for another one.

**`GpuCacheProofs`**: `GpuTypeCorrect`, `SlabsSuffice`, `QueueHoldsCachedKeys`, `SlabsArePrivate`,
`ReadsAreRight`, `SlabsAreCounted`, `EvictionAlwaysFinds`. `Sized` (an item has at least the slabs of its type, more if inserted again) is what keeps
`free_slab_num` below the length of the list; `Queued` says that map and queue have the same keys but for
the one that is being inserted; `ContentsRight` and `IteratorsGood` say what a reader that is not
`dangling` will copy. `AllCounted`, that free slabs and those in use by type make up all there are, is needed for the last
theorem: an insertion that lacks slabs finds some in use, so an item that has them, so a queue that is not empty.
The sum over types is counted as above, by `Units`.

**`YPipeProofs`**: `QueueTypeCorrect`, `ChunksAreConserved` and `QueueIsSleepyQueue` (`Spec => IsSleepyQueue`), for any
granularity from 2 on, any addresses and any number of writes. `ChunksConserved` is not inductive: `IInv` adds

* `Ascending`: within a chunk the addresses of `list` ascend, so none is in it twice, and comparing addresses is comparing
  places, although a chunk that was freed may come back at once;
* `InOrder`: `r`, `w`, `f` and `back` are at places of `list` in this order, and `back` is one before the end unless
  `push` is waiting for a chunk; this is what keeps `pop` off the writer's part and `unpush` off the reader's;
* `Sleeping`: `c` is `w`, or `NULL` while the reader sleeps, has read all that was flushed, and no signal is owed;
* `InHand`: a thread holds a chunk exactly between its two accesses to the list.

What the pointers delimit are slices of `list` (`Slice`); a lemma for each action says that the invariant is kept and that
the slices change as one step of `SleepyQueue`, or not at all (`Kept`).

**`ZmqMailboxProofs`**: `MailboxTypeCorrect`, `OneSignalAtATime`, `WokenFinds`, `CommandsShow` and
`DestructionIsSafe`, for any senders and commands. `LockHeld` says who is between `Lock` and `Unlock`;
`Unflushed` what of the queue only that sender sees; `Called` that a signal is owed or sent exactly while the
queue's reader is `"called"`, which no argument about the eventfd alone gives; `Receiver` what each stage of
`recv` knows of `active` and the queue; `QueuedOnce`, `HeldOnce` and `InHand` follow a command from its sender
to the receiver, so that the last one received has no sender left that owes a signal (`Gone`).

**`ZmqPipeProofs`**: `PipeTypeCorrect`, `ProtocolHolds`, `HwmHolds`, `NothingLostHolds`, `WakeUpHolds`, `CreditHolds`, for
any watermarks, messages and calls of `terminate()`. `IInv` says

* of the states of the two ends, which pairs there are and who may be deallocated (`EndFits`);
* of each mailbox, that a request is in it exactly while it was made and not taken, likewise an
  acknowledgement, and that nothing is behind an acknowledgement (`MailFits`): so none reaches an end that is
  freed, and the assertions of the handlers, which list the states a command may meet, hold;
* of the counts on their way to a writer, that they rise from the one it has to what was read (`CountsFit`), so that the
  distance from writer to reader never jumps over the watermark, which the code compares by `==`; and that the
  last one sent is a multiple of `lwm`, less than `lwm` below what was read (`CreditFits`);
* of each queue, that it holds the unread messages, then delimiters (`StreamFits`), that who read the delimiter or
  acknowledged without haste has read all (`AllReadFit`), and that a reader that was called is being told (`WakeUpOnItsWay`).

`WakeUpHolds` and `CreditHolds` are the safety half of `TerminationEnds` and `WriterGoesOn`: in no state is a reader that has
something to read, or a writer that is stopped, without a message or a command that will move it. `CreditHolds` also
needs that `lwm` is at most `hwm`, which the lemma about `compute_lwm` gives for every watermark.

Only model-checked: liveness (`BufferDrains`, `CutBlocksReachDisk`, `CallsReturn`, `RoomAgain`,
`TasksRun`, `ShutdownEnds`, `ResetEnds`, `SocketsComeFree`, `CommandsArrive`, `TerminationEnds`, `WriterGoesOn`),
which is out of the prover's reach. Every safety property, action property and refinement of a run that passes is also a
theorem. The other way round, what is proved and not run:
the type invariants, `CutTakesAllButNewest`, `OvershootBounded`, `IndexSound`, `ClosedBlocksFixed`, `CopyTargetAbsent`,
`CacheAgrees`, `FilesBounded`, `CountsRight`, `OneCreator`, `CountIsCovered`, `AllCounted`, `SlabsPrivate`,
`WokenFindsCommand`, `MemoryCounted`, `WakeUpOnItsWay` and `CreditOnItsWay`.

Assumptions of the models, not checked by anything: LevelDB's `put` and `get` are atomic; the file
system gives back what was written and closed; memory is sequentially consistent, also for the plain
counters the code reads without a lock and for the atomic operations of `ypipe_t`; TCP delivers the messages of one connection in order or the
connection ends.

## 6. Disagreements between code and comments

1. `CpuCache.cpp:120` inserts where `CpuCache.cpp:109` says "there is no such item in the cache":
   two workers that miss together both insert, and the second set of slabs is lost (`store_insert`).
2. `SSDCache.cpp:66`: a fetch that finds the cache full leaves its block in `caching_block`, of which
   `SSDCache.cpp:154` says "fetching blocks from hdd and store it in ssd"; the block is never fetched again
   (`ssd_stuck`). A reset makes it possible again (`OpensEmpty`).

Observed in the models, without runs of their own, because no line of the repository says otherwise:

A reply may be another file's bytes, and stay so. A worker that reads a block before its stream was closed
(`WriteBuffer.cpp:137,142`) gets a short `fread` (`SSDCache.cpp:190,201`), and what its `mog_data` held from an earlier request
(`main.cpp:43,85`) is returned at the length of the file asked for; `CpuCache.cpp:119-120` then keeps these bytes under the
wrong key, and later requests get them from the RAM cache. Without the exception `k \notin shortRead` TLC refutes `RepliesRight` and
`RamCacheRight` in the instance of `store`: at the end of the trace the item of the half page has the bytes of a whole one.

A reset closes the store (`main.cpp:26`) under workers that
are past the test which `mog.cpp:290` sums up as "mog is ready" (`Lookup` and `OpenBlock` of `MogServer` in a
store that is not open, `clean` of `MogReset`).

The hazards in `PROJECT.json` that no
property covers (a `!` at the wrong moment is answered OK and does nothing; a missing file during a reset ends
the process); writes that were refused count against the budget, and a reset does not set it back
(`mog.cpp:326`); a client whose server dies never returns from `get`.

## 7. Not modelled

* `WriteBuffer::sync`, `SSDCache::flush` and `new_block`, `CentraIndex::load`, `mog::load`, `exist`, `sync`,
  `insert_file`: nothing in the server calls them.
* Files of more than 64 MB, for which `mog.cpp:317` answers with length 0; error returns of LevelDB (they are
  looked at by nobody who could react); tasks that throw; pools that are resized.
* Of ZeroMQ (`src/depend/zeromq-4.1.4`, by far the largest part of the repository by lines): socket types other than
  REQ, ROUTER, DEALER and REP, the engines, transports, poller and security, options; of its pipes `hiccup`,
  conflation, `set_hwms` and `set_nodelay`; of its mailboxes the signaler for Windows and sockets, and forks.
  `MogClient` has no watermarks, because a REQ socket has one message on the way. The rest of the library
  is not on the way of a request. `src/depend/yaml-cpp` and `cppzmq` parse a
  configuration read once and wrap calls; the copies of `cuda.h` are declarations. This is why most lines of
  the repository have no definition in the models.
* CUDA allocation and copies (`GpuCache` has a copy as a slab's contents), image decoding in
  `src/core/io.cpp`, `MappedFile`, the superseded `*.cpp.old`.

## 8. Plan

Done: buffer, store, SSD cache, thread pool, server, reset, client and GPU cache, ZeroMQ's mailbox, pipes and queue,
each with its proofs.

What could be added, by importance:

1. `MogReset` with what the blocks hold: that after a reset no reply comes from a file of the old store.
   `OpensEmpty` shows it of ids; contents would join `MogStore` and `MogReset` in one module.
2. A client instance with three callers, once symmetry of sockets (which their order in the loop breaks)
   is replaced by something that makes it small enough.
