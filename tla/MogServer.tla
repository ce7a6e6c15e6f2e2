----------------------------- MODULE MogServer -----------------------------
(***************************************************************************)
(* The server's threads around one store (main.cpp).  main() locks mtx and *)
(* starts a thread in CreateMogEntry, which opens the store and unlocks    *)
(* mtx.  Workers answer file requests, and on a request that starts with   *)
(* '!' one that gets mtx starts another such thread, which closes the      *)
(* store and opens an empty one.  Workers only look at the flags           *)
(* reset_flag and mog::ready: they hold nothing while they use the store.  *)
(***************************************************************************)

CONSTANTS
    Workers,   \* the server's worker threads
    Creators,  \* threads in CreateMogEntry
    main       \* the one of them that main() starts

ASSUME ServerAssumption == main \in Creators

VARIABLES
    mtx,         \* locked?
    first, reset_flag,
    DB,          \* is the pointer set?
    ready,       \* mog::ready
    store,       \* its components: "none" made yet, "open" or "closed"
    hdd_blocks,  \* does the HDD directory hold the blocks the index names?
    cpc,         \* creators: the statement they are at
    wpc,         \* workers: where they are
    alive        \* FALSE once the process has aborted

flags == <<mtx, first, reset_flag, DB, ready>>
data == <<store, hdd_blocks>>
vars == <<flags, data, cpc, wpc, alive>>

Init ==
    /\ mtx = TRUE
    /\ first = TRUE
    /\ reset_flag = FALSE
    /\ DB = FALSE
    /\ ready = FALSE
    /\ store = "none"
    /\ hdd_blocks = FALSE
    /\ cpc = [c \in Creators |-> IF c = main THEN "start" ELSE "none"]
    /\ wpc = [w \in Workers |-> "idle"]
    /\ alive = TRUE

Creates(c, here, there) == alive /\ cpc[c] = here /\ cpc' = [cpc EXCEPT ![c] = there]
Works(w, here, there) == alive /\ wpc[w] = here /\ wpc' = [wpc EXCEPT ![w] = there]
-----------------------------------------------------------------------------
(***************************************************************************)
(* CreateMogEntry                                                          *)
(***************************************************************************)

RaiseFlag(c) ==
    /\ Creates(c, "start", IF DB THEN "close" ELSE "make")
    /\ reset_flag' = TRUE
    /\ UNCHANGED <<mtx, first, DB, ready, data, wpc, alive>>

\* mog::close: no longer ready, then one component after the other is freed.
CloseStillReady(c) ==
    /\ Creates(c, "close", "free")
    /\ UNCHANGED <<flags, data, wpc, alive>>
Close(c) ==
    /\ Creates(c, "close", "free")
    /\ ready' = FALSE
    /\ UNCHANGED <<mtx, first, reset_flag, DB, data, wpc, alive>>

\* A flush may be inside the blocks that are freed, without a lock.
Free(c) ==
    /\ Creates(c, "free", "make")
    /\ store' = "closed"
    /\ alive' \in BOOLEAN
    /\ UNCHANGED <<flags, hdd_blocks, wpc>>

\* The first time a mog is constructed, not ready; then ready is reset again.
Make(c) ==
    /\ Creates(c, "make", "wipe")
    /\ first' = FALSE
    /\ DB' = (DB \/ first)
    /\ ready' = FALSE
    /\ UNCHANGED <<mtx, reset_flag, data, wpc, alive>>

\* mog::open: both directories are removed, the components set up, ready set.
Wipe(c) ==
    /\ Creates(c, "wipe", "setup")
    /\ hdd_blocks' = FALSE
    /\ UNCHANGED <<flags, store, wpc, alive>>

Setup(c) ==
    /\ Creates(c, "setup", "opened")
    /\ store' = "open"
    /\ UNCHANGED <<flags, hdd_blocks, wpc, alive>>

Opened(c) ==
    /\ Creates(c, "opened", "lower")
    /\ ready' = TRUE
    /\ UNCHANGED <<mtx, first, reset_flag, DB, data, wpc, alive>>

LowerFlag(c) ==
    /\ Creates(c, "lower", "ready")
    /\ reset_flag' = FALSE
    /\ UNCHANGED <<mtx, first, DB, ready, data, wpc, alive>>

SetReady(c) ==
    /\ Creates(c, "ready", "unlock")
    /\ ready' = TRUE
    /\ UNCHANGED <<mtx, first, reset_flag, DB, data, wpc, alive>>

UnlockIfReady(c) ==
    /\ ready
    /\ Creates(c, "unlock", "none")
    /\ mtx' = FALSE
    /\ UNCHANGED <<first, reset_flag, DB, ready, data, wpc, alive>>
Unlock(c) ==
    /\ Creates(c, "unlock", "none")
    /\ mtx' = FALSE
    /\ UNCHANGED <<first, reset_flag, DB, ready, data, wpc, alive>>
-----------------------------------------------------------------------------
(***************************************************************************)
(* worker_routine                                                          *)
(***************************************************************************)

Receive(w) ==
    /\ \E request \in {"clean", "file"} : Works(w, "idle", request)
    /\ UNCHANGED <<flags, data, cpc, alive>>

\* The pointer is used whether it is set or not.
CleanUnready(w) ==
    /\ Works(w, "clean", "try_lock")
    /\ alive' = DB
    /\ ready' = FALSE
    /\ UNCHANGED <<mtx, first, reset_flag, DB, data, cpc>>

\* A creator is started and has the lock.  The reply to the client is the same
\* whether the lock was free or not.
StartCreator(w) ==
    /\ Works(w, "try_lock", "idle")
    /\ \E c \in Creators :
        /\ cpc[c] = "none"
        /\ cpc' = [cpc EXCEPT ![c] = "start"]
    /\ mtx' = TRUE
    /\ UNCHANGED <<first, reset_flag, DB, ready, data, alive>>
CleanLocked(w) == ~mtx /\ StartCreator(w)

CleanRefused(w) ==
    /\ Works(w, "try_lock", "idle")
    /\ mtx
    /\ UNCHANGED <<flags, data, cpc, alive>>

FileTest(w) ==
    /\ Works(w, "file", IF reset_flag THEN "direct" ELSE "read_file")
    /\ UNCHANGED <<flags, data, cpc, alive>>

\* The worker reads the file itself.  One that is missing has length -1, for
\* which message_t throws.
Direct(w) ==
    /\ Works(w, "direct", "idle")
    /\ alive' \in BOOLEAN
    /\ UNCHANGED <<flags, data, cpc>>

\* read_file tests ready; if it is not set the file is read and returned.
ReadyTest(w) ==
    /\ Works(w, "read_file", IF ready THEN "lookup" ELSE "idle")
    /\ alive' = DB
    /\ UNCHANGED <<flags, data, cpc>>

\* Buffer, RAM cache, index, perhaps a write: done, or a block file has to be
\* opened.  What is used after it was freed may do anything.
Lookup(w) ==
    /\ \E next \in {"idle"} \cup (IF hdd_blocks THEN {"block"} ELSE {}) :
        Works(w, "lookup", next)
    /\ alive' \in (IF store = "open" THEN {TRUE} ELSE BOOLEAN)
    /\ UNCHANGED <<flags, data, cpc>>

\* Without the file LOG(FATAL) aborts.  After a reset there may be no such file,
\* or one of the new store that has its name.
OpenBlock(w) ==
    /\ Works(w, "block", "idle")
    /\ alive' \in BOOLEAN
    /\ UNCHANGED <<flags, data, cpc>>

\* WriteBuffer::flush writes a block and puts it in the index, while the store
\* is open and while close() waits for the flush threads.
FlushBlock ==
    /\ alive
    /\ store = "open" \/ (store = "closed" /\ \E c \in Creators : cpc[c] = "make")
    /\ hdd_blocks' = TRUE
    /\ UNCHANGED <<flags, store, cpc, wpc, alive>>

\* Nothing happens in a process that has aborted.
Aborted == ~alive /\ UNCHANGED vars

Create(c) ==
    \/ RaiseFlag(c) \/ Close(c) \/ Free(c) \/ Make(c) \/ Wipe(c) \/ Setup(c)
    \/ Opened(c) \/ LowerFlag(c) \/ SetReady(c) \/ Unlock(c)
Serve(w) ==
    \/ CleanUnready(w) \/ CleanLocked(w) \/ CleanRefused(w) \/ FileTest(w)
    \/ Direct(w) \/ ReadyTest(w) \/ Lookup(w) \/ OpenBlock(w)

Next ==
    \/ \E c \in Creators : Create(c)
    \/ \E w \in Workers : Receive(w) \/ Serve(w)
    \/ FlushBlock
    \/ Aborted

Spec == Init /\ [][Next]_vars

\* Every thread runs; requests need not come.
FairSpec ==
    /\ Spec
    /\ \A c \in Creators : WF_vars(Create(c))
    /\ \A w \in Workers : WF_vars(Serve(w))
-----------------------------------------------------------------------------
(***************************************************************************)
(* Properties                                                              *)
(***************************************************************************)

\* Types of the flags, the store and the threads.
TypeOK ==
    /\ mtx \in BOOLEAN /\ first \in BOOLEAN /\ reset_flag \in BOOLEAN
    /\ DB \in BOOLEAN /\ ready \in BOOLEAN /\ alive \in BOOLEAN
    /\ store \in {"none", "open", "closed"}
    /\ hdd_blocks \in BOOLEAN
    /\ cpc \in [Creators -> {"none", "start", "close", "free", "make", "wipe",
                             "setup", "opened", "lower", "ready", "unlock"}]
    /\ wpc \in [Workers -> {"idle", "clean", "try_lock", "file", "direct",
                            "read_file", "lookup", "block"}]

\* mtx is locked by one thread and unlocked by another.  All the same at most
\* one thread is in CreateMogEntry, and as long as one is mtx is locked.
OneCreator ==
    /\ \A c, d \in Creators : cpc[c] # "none" /\ cpc[d] # "none" => c = d
    /\ (\E c \in Creators : cpc[c] # "none") => mtx

\* ready is written by creators and by any worker that gets a '!', without a
\* lock; nevertheless a store that is not open is never called ready, and when
\* reset_flag sends workers to the store it is open.
ReadyMeansOpen ==
    /\ ready => store = "open"
    /\ DB /\ ~reset_flag => store = "open"

\* A reset ends, and the next '!' can have mtx, unless the process aborts.
ResetEnds == mtx ~> ~mtx \/ ~alive
=============================================================================
