--------------------------- MODULE MogResetProofs ---------------------------
(***************************************************************************)
(* Proofs about MogServer and MogReset, for any number of workers,         *)
(* creators and pool threads: one reset runs at a time, leaves no task     *)
(* without what it needs and no block of the old store behind, and all     *)
(* this implements MogServer, whose own invariant comes first.             *)
(***************************************************************************)
EXTENDS MogReset, TLAPS

-----------------------------------------------------------------------------
(***************************************************************************)
(* MogServer                                                               *)
(***************************************************************************)


\* What is true of the flags and the store at each statement of a creator, and
\* when there is none.
AtStart == \A c \in Creators :
    /\ cpc[c] \in {"start", "ready", "unlock"} => ~reset_flag
    /\ cpc[c] = "start" /\ DB => store = "open"
Flagged == \A c \in Creators :
    cpc[c] \in {"close", "free", "make", "wipe", "setup", "opened", "lower"} => reset_flag
Unready == \A c \in Creators :
    cpc[c] \in {"free", "make", "wipe", "setup", "opened"} => ~ready
IsOpen == \A c \in Creators :
    cpc[c] \in {"opened", "lower", "ready", "unlock"} => store = "open" /\ DB
NoCreator == (\A c \in Creators : cpc[c] = "none") => ~reset_flag /\ store = "open"
Unmade == (first => ~DB) /\ (~DB => first) /\ (~DB => ~ready)

Stages == AtStart /\ Flagged /\ Unready /\ IsOpen /\ NoCreator /\ Unmade
Made == \A c \in Creators : cpc[c] \in {"wipe", "setup"} => DB
IInv == TypeOK /\ OneCreator /\ ReadyMeansOpen /\ Stages /\ Made

\* Before the store is first opened only main()'s creator is there.
LEMMA InitInv == Init => IInv
BY ServerAssumption DEF Init, IInv, TypeOK, OneCreator, ReadyMeansOpen, Stages,
    AtStart, Flagged, Unready, IsOpen, NoCreator, Unmade, Made

\* Every statement of CreateMogEntry keeps the invariant.
LEMMA CreateInv ==
    ASSUME IInv, NEW c \in Creators, Create(c)
    PROVE  IInv'
<1> USE DEF TypeOK, OneCreator, ReadyMeansOpen, Stages, AtStart, Flagged, Unready, IsOpen,
        NoCreator, Unmade, Made, Creates, flags, data
<1>1. CASE RaiseFlag(c)
  <2>1. TypeOK'
    BY <1>1 DEF IInv, RaiseFlag
  <2>2. OneCreator' /\ ReadyMeansOpen' /\ Stages' /\ Made'
    BY <1>1, SMT DEF IInv, RaiseFlag
  <2> QED
    BY <2>1, <2>2 DEF IInv
<1>2. CASE Close(c)
  <2>1. TypeOK'
    BY <1>2 DEF IInv, Close
  <2>2. OneCreator' /\ ReadyMeansOpen' /\ Stages' /\ Made'
    BY <1>2, SMT DEF IInv, Close
  <2> QED
    BY <2>1, <2>2 DEF IInv
<1>3. CASE Free(c)
  <2>1. TypeOK'
    BY <1>3 DEF IInv, Free
  <2>2. OneCreator' /\ ReadyMeansOpen' /\ Stages' /\ Made'
    BY <1>3, SMT DEF IInv, Free
  <2> QED
    BY <2>1, <2>2 DEF IInv
<1>4. CASE Make(c)
  <2>1. TypeOK'
    BY <1>4 DEF IInv, Make
  <2>2. OneCreator' /\ ReadyMeansOpen' /\ Stages' /\ Made'
    BY <1>4, SMT DEF IInv, Make
  <2> QED
    BY <2>1, <2>2 DEF IInv
<1>5. CASE Wipe(c)
  <2>1. TypeOK'
    BY <1>5 DEF IInv, Wipe
  <2>2. OneCreator' /\ ReadyMeansOpen' /\ Stages' /\ Made'
    BY <1>5, SMT DEF IInv, Wipe
  <2> QED
    BY <2>1, <2>2 DEF IInv
<1>6. CASE Setup(c)
  <2>1. TypeOK'
    BY <1>6 DEF IInv, Setup
  <2>2. OneCreator' /\ ReadyMeansOpen' /\ Stages' /\ Made'
    BY <1>6, SMT DEF IInv, Setup
  <2> QED
    BY <2>1, <2>2 DEF IInv
<1>7. CASE Opened(c)
  <2>1. TypeOK'
    BY <1>7 DEF IInv, Opened
  <2>2. OneCreator' /\ ReadyMeansOpen' /\ Stages' /\ Made'
    BY <1>7, SMT DEF IInv, Opened
  <2> QED
    BY <2>1, <2>2 DEF IInv
<1>8. CASE LowerFlag(c)
  <2>1. TypeOK'
    BY <1>8 DEF IInv, LowerFlag
  <2>2. OneCreator' /\ ReadyMeansOpen' /\ Stages' /\ Made'
    BY <1>8, SMT DEF IInv, LowerFlag
  <2> QED
    BY <2>1, <2>2 DEF IInv
<1>9. CASE SetReady(c)
  <2>1. TypeOK'
    BY <1>9 DEF IInv, SetReady
  <2>2. OneCreator' /\ ReadyMeansOpen' /\ Stages' /\ Made'
    BY <1>9, SMT DEF IInv, SetReady
  <2> QED
    BY <2>1, <2>2 DEF IInv
<1>10. CASE Unlock(c)
  <2>1. TypeOK'
    BY <1>10 DEF IInv, Unlock
  <2>2. OneCreator' /\ ReadyMeansOpen' /\ Stages' /\ Made'
    BY <1>10, SMT DEF IInv, Unlock
  <2> QED
    BY <2>1, <2>2 DEF IInv
<1> QED
  BY <1>1, <1>2, <1>3, <1>4, <1>5, <1>6, <1>7, <1>8, <1>9, <1>10 DEF Create

\* So does every step of a worker.
LEMMA ServeInv ==
    ASSUME IInv, NEW w \in Workers, Serve(w)
    PROVE  IInv'
<1> USE DEF TypeOK, OneCreator, ReadyMeansOpen, Stages, AtStart, Flagged, Unready, IsOpen,
        NoCreator, Unmade, Made, Works, flags, data
<1>1. CASE CleanUnready(w)
  <2>1. TypeOK'
    BY <1>1 DEF IInv, CleanUnready
  <2>2. OneCreator' /\ ReadyMeansOpen' /\ Stages' /\ Made'
    BY <1>1, SMT DEF IInv, CleanUnready
  <2> QED
    BY <2>1, <2>2 DEF IInv
<1>2. CASE CleanLocked(w)
  <2>1. TypeOK'
    BY <1>2 DEF IInv, CleanLocked, StartCreator
  <2>2. OneCreator' /\ ReadyMeansOpen' /\ Stages' /\ Made'
    BY <1>2, SMT DEF IInv, CleanLocked, StartCreator
  <2> QED
    BY <2>1, <2>2 DEF IInv
<1>3. CASE CleanRefused(w)
  <2>1. TypeOK'
    BY <1>3 DEF IInv, CleanRefused
  <2>2. OneCreator' /\ ReadyMeansOpen' /\ Stages' /\ Made'
    BY <1>3, SMT DEF IInv, CleanRefused
  <2> QED
    BY <2>1, <2>2 DEF IInv
<1>4. CASE FileTest(w)
  <2>1. TypeOK'
    BY <1>4 DEF IInv, FileTest
  <2>2. OneCreator' /\ ReadyMeansOpen' /\ Stages' /\ Made'
    BY <1>4, SMT DEF IInv, FileTest
  <2> QED
    BY <2>1, <2>2 DEF IInv
<1>5. CASE Direct(w)
  <2>1. TypeOK'
    BY <1>5 DEF IInv, Direct
  <2>2. OneCreator' /\ ReadyMeansOpen' /\ Stages' /\ Made'
    BY <1>5, SMT DEF IInv, Direct
  <2> QED
    BY <2>1, <2>2 DEF IInv
<1>6. CASE ReadyTest(w)
  <2>1. TypeOK'
    BY <1>6 DEF IInv, ReadyTest
  <2>2. OneCreator' /\ ReadyMeansOpen' /\ Stages' /\ Made'
    BY <1>6, SMT DEF IInv, ReadyTest
  <2> QED
    BY <2>1, <2>2 DEF IInv
<1>7. CASE Lookup(w)
  <2>1. TypeOK'
    BY <1>7 DEF IInv, Lookup
  <2>2. OneCreator' /\ ReadyMeansOpen' /\ Stages' /\ Made'
    BY <1>7, SMT DEF IInv, Lookup
  <2> QED
    BY <2>1, <2>2 DEF IInv
<1>8. CASE OpenBlock(w)
  <2>1. TypeOK'
    BY <1>8 DEF IInv, OpenBlock
  <2>2. OneCreator' /\ ReadyMeansOpen' /\ Stages' /\ Made'
    BY <1>8, SMT DEF IInv, OpenBlock
  <2> QED
    BY <2>1, <2>2 DEF IInv
<1> QED
  BY <1>1, <1>2, <1>3, <1>4, <1>5, <1>6, <1>7, <1>8 DEF Serve

\* The remaining steps, and stuttering.
LEMMA OtherInv ==
    ASSUME IInv, \/ \E w \in Workers : Receive(w)
                 \/ FlushBlock
                 \/ Aborted
                 \/ UNCHANGED vars
    PROVE  IInv'
<1> USE DEF TypeOK, OneCreator, ReadyMeansOpen, Stages, AtStart, Flagged, Unready, IsOpen,
        NoCreator, Unmade, Made, Works, flags, data
<1>1. ASSUME NEW w \in Workers, Receive(w) PROVE IInv'
  BY <1>1 DEF IInv, Receive
<1>2. CASE FlushBlock
  BY <1>2, SMT DEF IInv, FlushBlock
<1>3. CASE UNCHANGED vars
  BY <1>3, SMT DEF IInv, vars
<1> QED
  BY <1>1, <1>2, <1>3 DEF Aborted

\* Every step keeps the invariant.
LEMMA ServerNextInv == IInv /\ [Next]_vars => IInv'
BY CreateInv, ServeInv, OtherInv DEF Next

\* The inductive invariant of the server.
THEOREM ServerInvariance == Spec => []IInv
BY InitInv, ServerNextInv, PTL DEF Spec

\* The types of the server's state.
THEOREM ServerTypeCorrect == Spec => []TypeOK
<1>1. IInv => TypeOK
  BY DEF IInv
<1> QED
  BY ServerInvariance, <1>1, PTL

\* mtx, locked by one thread and unlocked by another, keeps CreateMogEntry to
\* one thread at a time.
THEOREM OneCreatorAtATime == Spec => []OneCreator
<1>1. IInv => OneCreator
  BY DEF IInv
<1> QED
  BY ServerInvariance, <1>1, PTL

\* A store that is not open is never called ready, nor left to workers with
\* reset_flag lowered.
THEOREM ReadyStoreIsOpen == Spec => []ReadyMeansOpen
<1>1. IInv => ReadyMeansOpen
  BY DEF IInv
<1> QED
  BY ServerInvariance, <1>1, PTL
-----------------------------------------------------------------------------
(***************************************************************************)
(* MogReset                                                                *)
(***************************************************************************)
NoFlushes == flush_pending = {} /\ \A f \in Flushers : fpc[f] = "idle"
Users == {w \in Workers : wpc[w] \in {"lookup", "block"}}
Closing == {"buffer_pool", "index", "ssd_sync", "ssd_clear", "ssd_pool", "ssd_dir"}

\* Where the creator is inside close() and open() agrees with where it is in
\* CreateMogEntry, and with the store.
StepsMatch ==
    /\ step # "out" => \E c \in Creators : cpc[c] \in {"make", "wipe", "setup"}
    /\ step \in Closing => store = "closed"
    /\ \A c \in Creators :
        /\ cpc[c] \in {"close", "free"} => store = "open"
        /\ cpc[c] = "make"  => store # "open" /\ step \in {"out"} \cup Closing
        /\ cpc[c] = "wipe"  => store # "open" /\ step \in {"out", "hdd_dir"}
        /\ cpc[c] = "setup" => store # "open" /\ step \in {"setup", "initial", "initial_ssd"}
    /\ ~DB => store = "none" /\ Users = {}

\* Tasks are left only in an open store and until close() has waited for them,
\* and the index is open for as long as it may have to take a block.
TasksEnd ==
    /\ store = "open" \/ step = "buffer_pool" \/ NoFlushes
    /\ store = "open" \/ step \in {"buffer_pool", "index", "ssd_sync"} \/ NoFetches
    /\ store = "open" \/ step \in {"buffer_pool", "initial", "initial_ssd"} => index = "open"

\* The directories have the files that tasks and index refer to.
FilesThere ==
    /\ index_blocks \subseteq hdd
    /\ index_blocks # {} => hdd_blocks
    /\ \A f \in Flushers : fpc[f] # "idle" => fblk[f] \in hdd
    /\ fetch_pending \subseteq hdd
    /\ \A g \in Fetchers : gpc[g] = "copy" => gblk[g] \in hdd
    /\ store = "open" => cached_block \subseteq ssd

\* What is left of the old store at each stage.
Emptied ==
    /\ store # "open" => blocks = {}
    /\ store # "open" /\ step \notin {"buffer_pool", "index", "ssd_sync", "ssd_clear"} =>
         cached_block = {} /\ caching_block = {}
    /\ step = "hdd_dir" => index_blocks = {} /\ ssd = {}
    /\ step \in {"setup", "initial", "initial_ssd"} => index_blocks = {} /\ ssd = {} /\ hdd = {}
    /\ step = "initial_ssd" => latest_block_id = 0

\* Without a worker that uses the store when it is closed, none does before it
\* is open again.
Unused ==
    clean => \A c \in Creators :
        /\ cpc[c] \in {"make", "wipe", "setup", "opened"} => Users = {}
        /\ cpc[c] = "opened" => NoFlushes /\ NoFetches

RInv == IInv /\ ResetTypeOK /\ StepsMatch /\ TasksEnd /\ FilesThere /\ Emptied /\ Unused
        /\ OpensEmpty /\ BlockHasFile

-----------------------------------------------------------------------------
(***************************************************************************)
(* Every step is a step of MogServer or none                               *)
(***************************************************************************)

\* Of a creator: FreeBuffer, MakeMog, WipeHDD and InitialSSD are Free, Make,
\* Wipe and Setup; the steps between them change nothing there.
LEMMA ResetStepRefines ==
    ASSUME NEW c \in Creators, ResetStep(c)
    PROVE  Next \/ UNCHANGED vars
<1> USE DEF InStep, Next, Create, flags, data
<1>1. CASE FreeBuffer(c)
  BY <1>1 DEF FreeBuffer, Free, InUse
<1>2. CASE BufferPool(c)
  BY <1>2 DEF BufferPool, BufferPoolNow
<1>3. CASE CloseIndex(c)
  BY <1>3 DEF CloseIndex
<1>4. CASE Sync(c)
  BY <1>4 DEF Sync, SyncNot
<1>5. CASE ClearSSD(c)
  BY <1>5 DEF ClearSSD, ClearCached
<1>6. CASE SSDPool(c)
  BY <1>6 DEF SSDPool
<1>7. CASE RemoveSSD(c)
  BY <1>7 DEF RemoveSSD
<1>8. CASE MakeMog(c)
  BY <1>8 DEF MakeMog, Make
<1>9. CASE WipeSSD(c)
  BY <1>9 DEF WipeSSD
<1>10. CASE WipeHDD(c)
  BY <1>10 DEF WipeHDD, Wipe
<1>11. CASE SetupIndex(c)
  BY <1>11 DEF SetupIndex
<1>12. CASE InitialBuffer(c)
  BY <1>12 DEF InitialBuffer
<1>13. CASE InitialSSD(c)
  BY <1>13 DEF InitialSSD, Setup
<1>14. CASE Flags(c)
  BY <1>14 DEF Flags
<1> QED
  BY <1>1, <1>2, <1>3, <1>4, <1>5, <1>6, <1>7, <1>8, <1>9, <1>10, <1>11, <1>12, <1>13, <1>14 DEF ResetStep

\* Of a pool's thread: FlushEnd is FlushBlock, since close() waits for it.
LEMMA TaskRefines ==
    ASSUME RInv, \/ \E f \in Flushers : Flush(f)
                 \/ \E g \in Fetchers : Fetch(g)
    PROVE  Next \/ UNCHANGED vars
<1>1. ASSUME NEW f \in Flushers, FlushEnd(f) PROVE Next \/ UNCHANGED vars
  <2>1. store = "open" \/ (store = "closed" /\ \E c \in Creators : cpc[c] = "make")
    BY <1>1, SMT DEF FlushEnd, RInv, TasksEnd, StepsMatch, NoFlushes, Closing
  <2>2. CASE hdd_blocks' = TRUE
    BY <1>1, <2>1, <2>2 DEF FlushEnd, FlushBlock, Next, flags
  <2>3. CASE UNCHANGED hdd_blocks
    BY <1>1, <2>3 DEF FlushEnd, vars, flags, data
  <2> QED
    BY <1>1, <2>2, <2>3 DEF FlushEnd
<1> QED
  BY <1>1 DEF Flush, Fetch, FlushTake, FlushLock, FetchTake, FetchEnd

\* Of a worker: a block that the index names is on the HDD.
LEMMA WorkerRefines ==
    ASSUME RInv, NEW w \in Workers, ServeStep(w)
    PROVE  Next \/ UNCHANGED vars
<1> USE DEF Works, Next, Serve, flags, data
<1>1. CASE LookupOpen(w)
  <2>1. (\E b \in index_blocks : TRUE) => hdd_blocks
    BY DEF RInv, FilesThere
  <2>2. CASE Works(w, "lookup", "idle")
    BY <1>1, <2>2 DEF LookupOpen, Lookup
  <2>3. CASE Works(w, "lookup", "block") /\ \E b \in index_blocks : TRUE
    BY <1>1, <2>1, <2>3 DEF LookupOpen, Lookup
  <2> QED
    BY <1>1, <2>2, <2>3 DEF LookupOpen
<1>2. CASE LookupFreed(w)
  <2>1. (\E b \in index_blocks : TRUE) => hdd_blocks
    BY DEF RInv, FilesThere
  <2>2. CASE Works(w, "lookup", "idle")
    BY <1>2, <2>2 DEF LookupFreed, Lookup
  <2>3. CASE Works(w, "lookup", "block") /\ \E b \in index_blocks : TRUE
    BY <1>2, <2>1, <2>3 DEF LookupFreed, Lookup
  <2> QED
    BY <1>2, <2>2, <2>3 DEF LookupFreed
<1>3. CASE ReadBlock(w)
  <2>1. alive' \in BOOLEAN
    <3>1. CASE wblk[w] \in cached_block
      <4>1. alive' = (wblk[w] \in ssd)
        BY <1>3, <3>1, Zenon DEF ReadBlock
      <4>2. (wblk[w] \in ssd) \in BOOLEAN
        OBVIOUS
      <4> QED
        BY <4>1, <4>2, Zenon
    <3>2. CASE wblk[w] \notin cached_block
      <4>1. alive' = (wblk[w] \in hdd)
        BY <1>3, <3>2, Zenon DEF ReadBlock
      <4>2. (wblk[w] \in hdd) \in BOOLEAN
        OBVIOUS
      <4> QED
        BY <4>1, <4>2, Zenon
    <3> QED
      BY <3>1, <3>2
  <2> QED
    BY <1>3, <2>1 DEF ReadBlock, OpenBlock
<1>4. CASE Outside(w)
  BY <1>4 DEF Outside
<1> QED
  BY <1>1, <1>2, <1>3, <1>4 DEF ServeStep

\* Every step of a reset is a step of the server or none.
LEMMA StepRefines == RInv /\ [ResetNext]_resetVars => [Next]_vars
<1> SUFFICES ASSUME RInv, [ResetNext]_resetVars PROVE Next \/ UNCHANGED vars
  OBVIOUS
<1>1. ASSUME NEW w \in Workers, Receive(w) PROVE Next
  BY <1>1 DEF Next
<1>2. CASE Aborted
  BY <1>2 DEF Next
<1>3. CASE UNCHANGED resetVars
  BY <1>3 DEF resetVars
<1> QED
  BY <1>1, <1>2, <1>3, ResetStepRefines, TaskRefines, WorkerRefines DEF ResetNext

\* So the server's invariant holds after every step.
LEMMA ServerPart == RInv /\ [ResetNext]_resetVars => IInv'
BY StepRefines, ServerNextInv DEF RInv

-----------------------------------------------------------------------------
(***************************************************************************)
(* Every step keeps the invariant                                          *)
(***************************************************************************)

\* The invariant holds before the first store is opened.
LEMMA ResetInitInv == ResetInit => RInv
<1> SUFFICES ASSUME ResetInit PROVE RInv
  OBVIOUS
<1>1. IInv
  BY InitInv DEF ResetInit
<1>2. ResetTypeOK
  BY ResetAssumption DEF ResetInit, ResetTypeOK, Blocks
<1>3. StepsMatch /\ TasksEnd /\ FilesThere /\ Emptied /\ Unused /\ OpensEmpty /\ BlockHasFile
  BY ServerAssumption DEF ResetInit, Init, StepsMatch, TasksEnd, FilesThere, Emptied, Unused,
    OpensEmpty, BlockHasFile, NoFlushes, NoFetches, Users, Closing
<1> QED
  BY <1>1, <1>2, <1>3 DEF RInv

\* The steps of mog::close keep the invariant.
LEMMA CloseInv ==
    ASSUME RInv, IInv', NEW c \in Creators,
           FreeBuffer(c) \/ BufferPool(c) \/ CloseIndex(c) \/ Sync(c) \/ ClearSSD(c) \/ SSDPool(c) \/ RemoveSSD(c)
    PROVE  RInv'
<1> USE DEF RInv, IInv, TypeOK, OneCreator, ReadyMeansOpen, Stages, AtStart, Flagged, Unready, IsOpen,
        NoCreator, Unmade, Made, Creates, Works, InStep, NoFlushes, NoFetches, flags, data, vars, detail,
        buffer, flushes, indexed, files, cache, fetches
<1>1. CASE FreeBuffer(c)
  <2>1. ResetTypeOK'
    BY <1>1, ResetAssumption, SMT DEF FreeBuffer, Free, InUse, ResetTypeOK, Blocks
  <2>2. StepsMatch'
    BY <1>1, SMT DEF FreeBuffer, Free, InUse, StepsMatch, Users, Closing
  <2>3. TasksEnd'
    BY <1>1, SMT DEF FreeBuffer, Free, InUse, StepsMatch, TasksEnd, Closing
  <2>4. FilesThere' /\ Emptied'
    BY <1>1, SMT DEF FreeBuffer, Free, InUse, StepsMatch, TasksEnd, FilesThere, Emptied, Closing
  <2>5. Unused'
    BY <1>1, SMT DEF FreeBuffer, Free, InUse, StepsMatch, TasksEnd, Unused, Users, Closing
  <2>6. OpensEmpty' /\ BlockHasFile'
    BY <1>1, SMT DEF FreeBuffer, Free, InUse, StepsMatch, TasksEnd, FilesThere, Emptied, Unused,
      OpensEmpty, BlockHasFile, Users, Closing
  <2> QED
    BY <2>1, <2>2, <2>3, <2>4, <2>5, <2>6 DEF RInv
<1>2. CASE BufferPool(c)
  <2>1. ResetTypeOK'
    BY <1>2, ResetAssumption, SMT DEF BufferPool, BufferPoolNow, ResetTypeOK, Blocks
  <2>2. StepsMatch'
    BY <1>2, SMT DEF BufferPool, BufferPoolNow, StepsMatch, Users, Closing
  <2>3. TasksEnd'
    BY <1>2, SMT DEF BufferPool, BufferPoolNow, StepsMatch, TasksEnd, Closing
  <2>4. FilesThere' /\ Emptied'
    BY <1>2, SMT DEF BufferPool, BufferPoolNow, StepsMatch, TasksEnd, FilesThere, Emptied,
      Closing
  <2>5. Unused'
    BY <1>2, SMT DEF BufferPool, BufferPoolNow, StepsMatch, TasksEnd, Unused, Users, Closing
  <2>6. OpensEmpty' /\ BlockHasFile'
    BY <1>2, SMT DEF BufferPool, BufferPoolNow, StepsMatch, TasksEnd, FilesThere, Emptied,
      Unused, OpensEmpty, BlockHasFile, Users, Closing
  <2> QED
    BY <2>1, <2>2, <2>3, <2>4, <2>5, <2>6 DEF RInv
<1>3. CASE CloseIndex(c)
  <2>1. ResetTypeOK'
    BY <1>3, ResetAssumption, SMT DEF CloseIndex, ResetTypeOK, Blocks
  <2>2. StepsMatch'
    BY <1>3, SMT DEF CloseIndex, StepsMatch, Users, Closing
  <2>3. TasksEnd'
    BY <1>3, SMT DEF CloseIndex, StepsMatch, TasksEnd, Closing
  <2>4. FilesThere' /\ Emptied'
    BY <1>3, SMT DEF CloseIndex, StepsMatch, TasksEnd, FilesThere, Emptied, Closing
  <2>5. Unused'
    BY <1>3, SMT DEF CloseIndex, StepsMatch, TasksEnd, Unused, Users, Closing
  <2>6. OpensEmpty' /\ BlockHasFile'
    BY <1>3, SMT DEF CloseIndex, StepsMatch, TasksEnd, FilesThere, Emptied, Unused, OpensEmpty,
      BlockHasFile, Users, Closing
  <2> QED
    BY <2>1, <2>2, <2>3, <2>4, <2>5, <2>6 DEF RInv
<1>4. CASE Sync(c)
  <2>1. ResetTypeOK'
    BY <1>4, ResetAssumption, SMT DEF Sync, SyncNot, ResetTypeOK, Blocks
  <2>2. StepsMatch'
    BY <1>4, SMT DEF Sync, SyncNot, StepsMatch, Users, Closing
  <2>3. TasksEnd'
    BY <1>4, SMT DEF Sync, SyncNot, StepsMatch, TasksEnd, Closing
  <2>4. FilesThere' /\ Emptied'
    BY <1>4, SMT DEF Sync, SyncNot, StepsMatch, TasksEnd, FilesThere, Emptied, Closing
  <2>5. Unused'
    BY <1>4, SMT DEF Sync, SyncNot, StepsMatch, TasksEnd, Unused, Users, Closing
  <2>6. OpensEmpty' /\ BlockHasFile'
    BY <1>4, SMT DEF Sync, SyncNot, StepsMatch, TasksEnd, FilesThere, Emptied, Unused,
      OpensEmpty, BlockHasFile, Users, Closing
  <2> QED
    BY <2>1, <2>2, <2>3, <2>4, <2>5, <2>6 DEF RInv
<1>5. CASE ClearSSD(c)
  <2>1. ResetTypeOK'
    BY <1>5, ResetAssumption, SMT DEF ClearSSD, ClearCached, ResetTypeOK, Blocks
  <2>2. StepsMatch'
    BY <1>5, SMT DEF ClearSSD, ClearCached, StepsMatch, Users, Closing
  <2>3. TasksEnd'
    BY <1>5, SMT DEF ClearSSD, ClearCached, StepsMatch, TasksEnd, Closing
  <2>4. FilesThere' /\ Emptied'
    BY <1>5, SMT DEF ClearSSD, ClearCached, StepsMatch, TasksEnd, FilesThere, Emptied, Closing
  <2>5. Unused'
    BY <1>5, SMT DEF ClearSSD, ClearCached, StepsMatch, TasksEnd, Unused, Users, Closing
  <2>6. OpensEmpty' /\ BlockHasFile'
    BY <1>5, SMT DEF ClearSSD, ClearCached, StepsMatch, TasksEnd, FilesThere, Emptied, Unused,
      OpensEmpty, BlockHasFile, Users, Closing
  <2> QED
    BY <2>1, <2>2, <2>3, <2>4, <2>5, <2>6 DEF RInv
<1>6. CASE SSDPool(c)
  <2>1. ResetTypeOK'
    BY <1>6, ResetAssumption, SMT DEF SSDPool, ResetTypeOK, Blocks
  <2>2. StepsMatch'
    BY <1>6, SMT DEF SSDPool, StepsMatch, Users, Closing
  <2>3. TasksEnd'
    BY <1>6, SMT DEF SSDPool, StepsMatch, TasksEnd, Closing
  <2>4. FilesThere' /\ Emptied'
    BY <1>6, SMT DEF SSDPool, StepsMatch, TasksEnd, FilesThere, Emptied, Closing
  <2>5. Unused'
    BY <1>6, SMT DEF SSDPool, StepsMatch, TasksEnd, Unused, Users, Closing
  <2>6. OpensEmpty' /\ BlockHasFile'
    BY <1>6, SMT DEF SSDPool, StepsMatch, TasksEnd, FilesThere, Emptied, Unused, OpensEmpty,
      BlockHasFile, Users, Closing
  <2> QED
    BY <2>1, <2>2, <2>3, <2>4, <2>5, <2>6 DEF RInv
<1>7. CASE RemoveSSD(c)
  <2>1. ResetTypeOK'
    BY <1>7, ResetAssumption, SMT DEF RemoveSSD, ResetTypeOK, Blocks
  <2>2. StepsMatch'
    BY <1>7, SMT DEF RemoveSSD, StepsMatch, Users, Closing
  <2>3. TasksEnd'
    BY <1>7, SMT DEF RemoveSSD, StepsMatch, TasksEnd, Closing
  <2>4. FilesThere' /\ Emptied'
    BY <1>7, SMT DEF RemoveSSD, StepsMatch, TasksEnd, FilesThere, Emptied, Closing
  <2>5. Unused'
    BY <1>7, SMT DEF RemoveSSD, StepsMatch, TasksEnd, Unused, Users, Closing
  <2>6. OpensEmpty' /\ BlockHasFile'
    BY <1>7, SMT DEF RemoveSSD, StepsMatch, TasksEnd, FilesThere, Emptied, Unused, OpensEmpty,
      BlockHasFile, Users, Closing
  <2> QED
    BY <2>1, <2>2, <2>3, <2>4, <2>5, <2>6 DEF RInv
<1> QED
  BY <1>1, <1>2, <1>3, <1>4, <1>5, <1>6, <1>7 DEF RInv

\* The steps of mog::open keep it.
LEMMA OpenInv ==
    ASSUME RInv, IInv', NEW c \in Creators,
           MakeMog(c) \/ WipeSSD(c) \/ WipeHDD(c) \/ SetupIndex(c) \/ InitialBuffer(c) \/ InitialSSD(c)
    PROVE  RInv'
<1> USE DEF RInv, IInv, TypeOK, OneCreator, ReadyMeansOpen, Stages, AtStart, Flagged, Unready, IsOpen,
        NoCreator, Unmade, Made, Creates, Works, InStep, NoFlushes, NoFetches, flags, data, vars, detail,
        buffer, flushes, indexed, files, cache, fetches
<1>1. CASE MakeMog(c)
  <2>1. ResetTypeOK'
    BY <1>1, ResetAssumption, SMT DEF MakeMog, Make, ResetTypeOK, Blocks
  <2>2. StepsMatch'
    BY <1>1, SMT DEF MakeMog, Make, StepsMatch, Users, Closing
  <2>3. TasksEnd'
    BY <1>1, SMT DEF MakeMog, Make, StepsMatch, TasksEnd, Closing
  <2>4. FilesThere' /\ Emptied'
    BY <1>1, SMT DEF MakeMog, Make, StepsMatch, TasksEnd, FilesThere, Emptied, Closing
  <2>5. Unused'
    BY <1>1, SMT DEF MakeMog, Make, StepsMatch, TasksEnd, Unused, Users, Closing
  <2>6. OpensEmpty' /\ BlockHasFile'
    BY <1>1, SMT DEF MakeMog, Make, StepsMatch, TasksEnd, FilesThere, Emptied, Unused,
      OpensEmpty, BlockHasFile, Users, Closing
  <2> QED
    BY <2>1, <2>2, <2>3, <2>4, <2>5, <2>6 DEF RInv
<1>2. CASE WipeSSD(c)
  <2>1. ResetTypeOK'
    BY <1>2, ResetAssumption, SMT DEF WipeSSD, ResetTypeOK, Blocks
  <2>2. StepsMatch'
    BY <1>2, SMT DEF WipeSSD, StepsMatch, Users, Closing
  <2>3. TasksEnd'
    BY <1>2, SMT DEF WipeSSD, StepsMatch, TasksEnd, Closing
  <2>4. FilesThere' /\ Emptied'
    BY <1>2, SMT DEF WipeSSD, StepsMatch, TasksEnd, FilesThere, Emptied, Closing
  <2>5. Unused'
    BY <1>2, SMT DEF WipeSSD, StepsMatch, TasksEnd, Unused, Users, Closing
  <2>6. OpensEmpty' /\ BlockHasFile'
    BY <1>2, SMT DEF WipeSSD, StepsMatch, TasksEnd, FilesThere, Emptied, Unused, OpensEmpty,
      BlockHasFile, Users, Closing
  <2> QED
    BY <2>1, <2>2, <2>3, <2>4, <2>5, <2>6 DEF RInv
<1>3. CASE WipeHDD(c)
  <2>1. ResetTypeOK'
    BY <1>3, ResetAssumption, SMT DEF WipeHDD, Wipe, ResetTypeOK, Blocks
  <2>2. StepsMatch'
    BY <1>3, SMT DEF WipeHDD, Wipe, StepsMatch, Users, Closing
  <2>3. TasksEnd'
    BY <1>3, SMT DEF WipeHDD, Wipe, StepsMatch, TasksEnd, Closing
  <2>4. FilesThere' /\ Emptied'
    BY <1>3, SMT DEF WipeHDD, Wipe, StepsMatch, TasksEnd, FilesThere, Emptied, Closing
  <2>5. Unused'
    BY <1>3, SMT DEF WipeHDD, Wipe, StepsMatch, TasksEnd, Unused, Users, Closing
  <2>6. OpensEmpty' /\ BlockHasFile'
    BY <1>3, SMT DEF WipeHDD, Wipe, StepsMatch, TasksEnd, FilesThere, Emptied, Unused,
      OpensEmpty, BlockHasFile, Users, Closing
  <2> QED
    BY <2>1, <2>2, <2>3, <2>4, <2>5, <2>6 DEF RInv
<1>4. CASE SetupIndex(c)
  <2>1. ResetTypeOK'
    BY <1>4, ResetAssumption, SMT DEF SetupIndex, ResetTypeOK, Blocks
  <2>2. StepsMatch'
    BY <1>4, SMT DEF SetupIndex, StepsMatch, Users, Closing
  <2>3. TasksEnd'
    BY <1>4, SMT DEF SetupIndex, StepsMatch, TasksEnd, Closing
  <2>4. FilesThere' /\ Emptied'
    BY <1>4, SMT DEF SetupIndex, StepsMatch, TasksEnd, FilesThere, Emptied, Closing
  <2>5. Unused'
    BY <1>4, SMT DEF SetupIndex, StepsMatch, TasksEnd, Unused, Users, Closing
  <2>6. OpensEmpty' /\ BlockHasFile'
    BY <1>4, SMT DEF SetupIndex, StepsMatch, TasksEnd, FilesThere, Emptied, Unused, OpensEmpty,
      BlockHasFile, Users, Closing
  <2> QED
    BY <2>1, <2>2, <2>3, <2>4, <2>5, <2>6 DEF RInv
<1>5. CASE InitialBuffer(c)
  <2>1. ResetTypeOK'
    BY <1>5, ResetAssumption, SMT DEF InitialBuffer, ResetTypeOK, Blocks
  <2>2. StepsMatch'
    BY <1>5, SMT DEF InitialBuffer, StepsMatch, Users, Closing
  <2>3. TasksEnd'
    BY <1>5, SMT DEF InitialBuffer, StepsMatch, TasksEnd, Closing
  <2>4. FilesThere' /\ Emptied'
    BY <1>5, SMT DEF InitialBuffer, StepsMatch, TasksEnd, FilesThere, Emptied, Closing
  <2>5. Unused'
    BY <1>5, SMT DEF InitialBuffer, StepsMatch, TasksEnd, Unused, Users, Closing
  <2>6. OpensEmpty' /\ BlockHasFile'
    BY <1>5, SMT DEF InitialBuffer, StepsMatch, TasksEnd, FilesThere, Emptied, Unused,
      OpensEmpty, BlockHasFile, Users, Closing
  <2> QED
    BY <2>1, <2>2, <2>3, <2>4, <2>5, <2>6 DEF RInv
<1>6. CASE InitialSSD(c)
  <2>1. ResetTypeOK'
    BY <1>6, ResetAssumption, SMT DEF InitialSSD, Setup, ResetTypeOK, Blocks
  <2>2. StepsMatch'
    BY <1>6, SMT DEF InitialSSD, Setup, StepsMatch, Users, Closing
  <2>3. TasksEnd'
    BY <1>6, SMT DEF InitialSSD, Setup, StepsMatch, TasksEnd, Closing
  <2>4. FilesThere' /\ Emptied'
    BY <1>6, SMT DEF InitialSSD, Setup, StepsMatch, TasksEnd, FilesThere, Emptied, Closing
  <2>5. Unused'
    BY <1>6, SMT DEF InitialSSD, Setup, StepsMatch, TasksEnd, Unused, Users, Closing
  <2>6. OpensEmpty' /\ BlockHasFile'
    BY <1>6, SMT DEF InitialSSD, Setup, StepsMatch, TasksEnd, FilesThere, Emptied, Unused,
      OpensEmpty, BlockHasFile, Users, Closing
  <2> QED
    BY <2>1, <2>2, <2>3, <2>4, <2>5, <2>6 DEF RInv
<1> QED
  BY <1>1, <1>2, <1>3, <1>4, <1>5, <1>6 DEF RInv

\* The rest of CreateMogEntry keeps it.
LEMMA FlagsInv ==
    ASSUME RInv, IInv', NEW c \in Creators, Flags(c)
    PROVE  RInv'
<1> USE DEF RInv, IInv, TypeOK, OneCreator, ReadyMeansOpen, Stages, AtStart, Flagged, Unready, IsOpen,
        NoCreator, Unmade, Made, Creates, Works, InStep, NoFlushes, NoFetches, flags, data, vars, detail,
        buffer, flushes, indexed, files, cache, fetches
<1>1. CASE RaiseFlag(c) /\ UNCHANGED detail
  <2>1. ResetTypeOK'
    BY <1>1, ResetAssumption, SMT DEF Flags, RaiseFlag, ResetTypeOK, Blocks
  <2>2. StepsMatch'
    BY <1>1, SMT DEF Flags, RaiseFlag, StepsMatch, Users, Closing
  <2>3. TasksEnd'
    BY <1>1, SMT DEF Flags, RaiseFlag, StepsMatch, TasksEnd, Closing
  <2>4. FilesThere' /\ Emptied'
    BY <1>1, SMT DEF Flags, RaiseFlag, StepsMatch, TasksEnd, FilesThere, Emptied, Closing
  <2>5. Unused'
    BY <1>1, SMT DEF Flags, RaiseFlag, StepsMatch, TasksEnd, Unused, Users, Closing
  <2>6. OpensEmpty' /\ BlockHasFile'
    BY <1>1, SMT DEF Flags, RaiseFlag, StepsMatch, TasksEnd, FilesThere, Emptied, Unused,
      OpensEmpty, BlockHasFile, Users, Closing
  <2> QED
    BY <2>1, <2>2, <2>3, <2>4, <2>5, <2>6 DEF RInv
<1>2. CASE Close(c) /\ UNCHANGED detail
  <2>1. ResetTypeOK'
    BY <1>2, ResetAssumption, SMT DEF Flags, Close, ResetTypeOK, Blocks
  <2>2. StepsMatch'
    BY <1>2, SMT DEF Flags, Close, StepsMatch, Users, Closing
  <2>3. TasksEnd'
    BY <1>2, SMT DEF Flags, Close, StepsMatch, TasksEnd, Closing
  <2>4. FilesThere' /\ Emptied'
    BY <1>2, SMT DEF Flags, Close, StepsMatch, TasksEnd, FilesThere, Emptied, Closing
  <2>5. Unused'
    BY <1>2, SMT DEF Flags, Close, StepsMatch, TasksEnd, Unused, Users, Closing
  <2>6. OpensEmpty' /\ BlockHasFile'
    BY <1>2, SMT DEF Flags, Close, StepsMatch, TasksEnd, FilesThere, Emptied, Unused,
      OpensEmpty, BlockHasFile, Users, Closing
  <2> QED
    BY <2>1, <2>2, <2>3, <2>4, <2>5, <2>6 DEF RInv
<1>3. CASE Opened(c) /\ UNCHANGED detail
  <2>1. ResetTypeOK'
    BY <1>3, ResetAssumption, SMT DEF Flags, Opened, ResetTypeOK, Blocks
  <2>2. StepsMatch'
    BY <1>3, SMT DEF Flags, Opened, StepsMatch, Users, Closing
  <2>3. TasksEnd'
    BY <1>3, SMT DEF Flags, Opened, StepsMatch, TasksEnd, Closing
  <2>4. FilesThere' /\ Emptied'
    BY <1>3, SMT DEF Flags, Opened, StepsMatch, TasksEnd, FilesThere, Emptied, Closing
  <2>5. Unused'
    BY <1>3, SMT DEF Flags, Opened, StepsMatch, TasksEnd, Unused, Users, Closing
  <2>6. OpensEmpty' /\ BlockHasFile'
    BY <1>3, SMT DEF Flags, Opened, StepsMatch, TasksEnd, FilesThere, Emptied, Unused,
      OpensEmpty, BlockHasFile, Users, Closing
  <2> QED
    BY <2>1, <2>2, <2>3, <2>4, <2>5, <2>6 DEF RInv
<1>4. CASE LowerFlag(c) /\ UNCHANGED detail
  <2>1. ResetTypeOK'
    BY <1>4, ResetAssumption, SMT DEF Flags, LowerFlag, ResetTypeOK, Blocks
  <2>2. StepsMatch'
    BY <1>4, SMT DEF Flags, LowerFlag, StepsMatch, Users, Closing
  <2>3. TasksEnd'
    BY <1>4, SMT DEF Flags, LowerFlag, StepsMatch, TasksEnd, Closing
  <2>4. FilesThere' /\ Emptied'
    BY <1>4, SMT DEF Flags, LowerFlag, StepsMatch, TasksEnd, FilesThere, Emptied, Closing
  <2>5. Unused'
    BY <1>4, SMT DEF Flags, LowerFlag, StepsMatch, TasksEnd, Unused, Users, Closing
  <2>6. OpensEmpty' /\ BlockHasFile'
    BY <1>4, SMT DEF Flags, LowerFlag, StepsMatch, TasksEnd, FilesThere, Emptied, Unused,
      OpensEmpty, BlockHasFile, Users, Closing
  <2> QED
    BY <2>1, <2>2, <2>3, <2>4, <2>5, <2>6 DEF RInv
<1>5. CASE SetReady(c) /\ UNCHANGED detail
  <2>1. ResetTypeOK'
    BY <1>5, ResetAssumption, SMT DEF Flags, SetReady, ResetTypeOK, Blocks
  <2>2. StepsMatch'
    BY <1>5, SMT DEF Flags, SetReady, StepsMatch, Users, Closing
  <2>3. TasksEnd'
    BY <1>5, SMT DEF Flags, SetReady, StepsMatch, TasksEnd, Closing
  <2>4. FilesThere' /\ Emptied'
    BY <1>5, SMT DEF Flags, SetReady, StepsMatch, TasksEnd, FilesThere, Emptied, Closing
  <2>5. Unused'
    BY <1>5, SMT DEF Flags, SetReady, StepsMatch, TasksEnd, Unused, Users, Closing
  <2>6. OpensEmpty' /\ BlockHasFile'
    BY <1>5, SMT DEF Flags, SetReady, StepsMatch, TasksEnd, FilesThere, Emptied, Unused,
      OpensEmpty, BlockHasFile, Users, Closing
  <2> QED
    BY <2>1, <2>2, <2>3, <2>4, <2>5, <2>6 DEF RInv
<1>6. CASE Unlock(c) /\ UNCHANGED detail
  <2>1. ResetTypeOK'
    BY <1>6, ResetAssumption, SMT DEF Flags, Unlock, ResetTypeOK, Blocks
  <2>2. StepsMatch'
    BY <1>6, SMT DEF Flags, Unlock, StepsMatch, Users, Closing
  <2>3. TasksEnd'
    BY <1>6, SMT DEF Flags, Unlock, StepsMatch, TasksEnd, Closing
  <2>4. FilesThere' /\ Emptied'
    BY <1>6, SMT DEF Flags, Unlock, StepsMatch, TasksEnd, FilesThere, Emptied, Closing
  <2>5. Unused'
    BY <1>6, SMT DEF Flags, Unlock, StepsMatch, TasksEnd, Unused, Users, Closing
  <2>6. OpensEmpty' /\ BlockHasFile'
    BY <1>6, SMT DEF Flags, Unlock, StepsMatch, TasksEnd, FilesThere, Emptied, Unused,
      OpensEmpty, BlockHasFile, Users, Closing
  <2> QED
    BY <2>1, <2>2, <2>3, <2>4, <2>5, <2>6 DEF RInv
<1> QED
  BY <1>1, <1>2, <1>3, <1>4, <1>5, <1>6 DEF Flags

\* Flushes keep it.
LEMMA FlushInv ==
    ASSUME RInv, IInv', NEW f \in Flushers, Flush(f)
    PROVE  RInv'
<1> USE DEF RInv, IInv, TypeOK, OneCreator, ReadyMeansOpen, Stages, AtStart, Flagged, Unready, IsOpen,
        NoCreator, Unmade, Made, Creates, Works, InStep, NoFlushes, NoFetches, flags, data, vars, detail,
        buffer, flushes, indexed, files, cache, fetches
<1>1. CASE FlushTake(f)
  <2>1. ResetTypeOK'
    BY <1>1, ResetAssumption, SMT DEF FlushTake, ResetTypeOK, Blocks, FilesThere
  <2>2. StepsMatch'
    BY <1>1, SMT DEF FlushTake, StepsMatch, Users, Closing
  <2>3. TasksEnd'
    BY <1>1, SMT DEF FlushTake, StepsMatch, TasksEnd, Closing
  <2>4. FilesThere' /\ Emptied'
    BY <1>1, SMT DEF FlushTake, StepsMatch, TasksEnd, FilesThere, Emptied, Closing, ResetTypeOK
  <2>5. Unused'
    BY <1>1, SMT DEF FlushTake, StepsMatch, TasksEnd, Unused, Users, Closing
  <2>6. OpensEmpty' /\ BlockHasFile'
    BY <1>1, SMT DEF FlushTake, StepsMatch, TasksEnd, FilesThere, Emptied, Unused, OpensEmpty,
      BlockHasFile, Users, Closing, ResetTypeOK
  <2> QED
    BY <2>1, <2>2, <2>3, <2>4, <2>5, <2>6 DEF RInv
<1>2. CASE FlushLock(f)
  <2>1. ResetTypeOK'
    BY <1>2, ResetAssumption, SMT DEF FlushLock, ResetTypeOK, Blocks, FilesThere
  <2>2. StepsMatch'
    BY <1>2, SMT DEF FlushLock, StepsMatch, Users, Closing
  <2>3. TasksEnd'
    BY <1>2, SMT DEF FlushLock, StepsMatch, TasksEnd, Closing
  <2>4. FilesThere' /\ Emptied'
    BY <1>2, SMT DEF FlushLock, StepsMatch, TasksEnd, FilesThere, Emptied, Closing, ResetTypeOK
  <2>5. Unused'
    BY <1>2, SMT DEF FlushLock, StepsMatch, TasksEnd, Unused, Users, Closing
  <2>6. OpensEmpty' /\ BlockHasFile'
    BY <1>2, SMT DEF FlushLock, StepsMatch, TasksEnd, FilesThere, Emptied, Unused, OpensEmpty,
      BlockHasFile, Users, Closing, ResetTypeOK
  <2> QED
    BY <2>1, <2>2, <2>3, <2>4, <2>5, <2>6 DEF RInv
<1>3. CASE FlushEnd(f)
  <2>1. ResetTypeOK'
    <3>1. fblk[f] \in Blocks
      BY <1>3 DEF FlushEnd, FilesThere, ResetTypeOK
    <3>2. blocks' \subseteq Blocks /\ index_blocks' \subseteq Blocks
      BY <1>3, <3>1 DEF FlushEnd, ResetTypeOK
    <3>3. fpc' \in [Flushers -> {"idle", "open", "loop"}] /\ fblk' \in [Flushers -> 0 .. MaxBlocks]
      BY <1>3, ResetAssumption, SMT DEF FlushEnd, ResetTypeOK
    <3> QED
      BY <1>3, <3>2, <3>3 DEF FlushEnd, ResetTypeOK
  <2>2. StepsMatch'
    BY <1>3, SMT DEF FlushEnd, FlushBlock, StepsMatch, Users, Closing
  <2>3. TasksEnd'
    BY <1>3, SMT DEF FlushEnd, FlushBlock, StepsMatch, TasksEnd, Closing
  <2>4. FilesThere' /\ Emptied'
    BY <1>3, SMT DEF FlushEnd, FlushBlock, StepsMatch, TasksEnd, FilesThere, Emptied, Closing,
      ResetTypeOK
  <2>5. Unused'
    BY <1>3, SMT DEF FlushEnd, FlushBlock, StepsMatch, TasksEnd, Unused, Users, Closing
  <2>6. OpensEmpty' /\ BlockHasFile'
    BY <1>3, SMT DEF FlushEnd, FlushBlock, StepsMatch, TasksEnd, FilesThere, Emptied, Unused,
      OpensEmpty, BlockHasFile, Users, Closing, ResetTypeOK
  <2> QED
    BY <2>1, <2>2, <2>3, <2>4, <2>5, <2>6 DEF RInv
<1> QED
  BY <1>1, <1>2, <1>3 DEF Flush

\* Fetches keep it.
LEMMA FetchInv ==
    ASSUME RInv, IInv', NEW g \in Fetchers, Fetch(g)
    PROVE  RInv'
<1> USE DEF RInv, IInv, TypeOK, OneCreator, ReadyMeansOpen, Stages, AtStart, Flagged, Unready, IsOpen,
        NoCreator, Unmade, Made, Creates, Works, InStep, NoFlushes, NoFetches, flags, data, vars, detail,
        buffer, flushes, indexed, files, cache, fetches
<1>1. CASE FetchTake(g)
  <2>1. ResetTypeOK'
    BY <1>1, ResetAssumption, SMT DEF FetchTake, ResetTypeOK, Blocks, FilesThere
  <2>2. StepsMatch'
    BY <1>1, SMT DEF FetchTake, StepsMatch, Users, Closing
  <2>3. TasksEnd'
    BY <1>1, SMT DEF FetchTake, StepsMatch, TasksEnd, Closing
  <2>4. FilesThere' /\ Emptied'
    BY <1>1, SMT DEF FetchTake, StepsMatch, TasksEnd, FilesThere, Emptied, Closing, ResetTypeOK
  <2>5. Unused'
    BY <1>1, SMT DEF FetchTake, StepsMatch, TasksEnd, Unused, Users, Closing
  <2>6. OpensEmpty' /\ BlockHasFile'
    BY <1>1, SMT DEF FetchTake, StepsMatch, TasksEnd, FilesThere, Emptied, Unused, OpensEmpty,
      BlockHasFile, Users, Closing, ResetTypeOK
  <2> QED
    BY <2>1, <2>2, <2>3, <2>4, <2>5, <2>6 DEF RInv
<1>2. CASE FetchEnd(g)
  <2>1. ResetTypeOK'
    <3>1. gblk[g] \in Blocks
      BY <1>2 DEF FetchEnd, FilesThere, ResetTypeOK
    <3>2. ssd' \subseteq Blocks /\ cached_block' \subseteq Blocks /\ caching_block' \subseteq Blocks
      BY <1>2, <3>1 DEF FetchEnd, ResetTypeOK
    <3>3. gpc' \in [Fetchers -> {"idle", "copy"}] /\ gblk' \in [Fetchers -> 0 .. MaxBlocks]
      BY <1>2, ResetAssumption, SMT DEF FetchEnd, ResetTypeOK
    <3> QED
      BY <1>2, <3>2, <3>3 DEF FetchEnd, ResetTypeOK
  <2>2. StepsMatch'
    BY <1>2, SMT DEF FetchEnd, StepsMatch, Users, Closing
  <2>3. TasksEnd'
    BY <1>2, SMT DEF FetchEnd, StepsMatch, TasksEnd, Closing
  <2>4. FilesThere' /\ Emptied'
    BY <1>2, SMT DEF FetchEnd, StepsMatch, TasksEnd, FilesThere, Emptied, Closing, ResetTypeOK
  <2>5. Unused'
    BY <1>2, SMT DEF FetchEnd, StepsMatch, TasksEnd, Unused, Users, Closing
  <2>6. OpensEmpty' /\ BlockHasFile'
    BY <1>2, SMT DEF FetchEnd, StepsMatch, TasksEnd, FilesThere, Emptied, Unused, OpensEmpty,
      BlockHasFile, Users, Closing, ResetTypeOK
  <2> QED
    BY <2>1, <2>2, <2>3, <2>4, <2>5, <2>6 DEF RInv
<1> QED
  BY <1>1, <1>2 DEF Fetch

\* Workers inside read_file keep it.
LEMMA ReadInv ==
    ASSUME RInv, IInv', NEW w \in Workers,
           LookupOpen(w) \/ LookupFreed(w) \/ ReadBlock(w)
    PROVE  RInv'
<1> USE DEF RInv, IInv, TypeOK, OneCreator, ReadyMeansOpen, Stages, AtStart, Flagged, Unready, IsOpen,
        NoCreator, Unmade, Made, Creates, Works, InStep, NoFlushes, NoFetches, flags, data, vars, detail,
        buffer, flushes, indexed, files, cache, fetches
<1>1. CASE LookupOpen(w)
  <2>1. ResetTypeOK'
    <3>1. latest_block_id' \in 0 .. MaxBlocks /\ blocks' \subseteq Blocks /\ flush_pending' \subseteq Blocks
      <4>1. CASE CutBlock
        BY <4>1, ResetAssumption, SMT DEF CutBlock, ResetTypeOK, Blocks
      <4>2. CASE UNCHANGED buffer
        BY <4>2 DEF ResetTypeOK
      <4> QED
        BY <1>1, <4>1, <4>2 DEF LookupOpen
    <3>2. cached_block' \subseteq Blocks /\ caching_block' \subseteq Blocks /\ fetch_pending' \subseteq Blocks
      BY <1>1 DEF LookupOpen, ScheduleFetch, ResetTypeOK
    <3>3. wblk' \in [Workers -> 0 .. MaxBlocks]
      BY <1>1, ResetAssumption, SMT DEF LookupOpen, ResetTypeOK, Blocks
    <3> QED
      BY <1>1, <3>1, <3>2, <3>3 DEF LookupOpen, ResetTypeOK
  <2>2. StepsMatch'
    BY <1>1, SMT DEF LookupOpen, Lookup, CutBlock, ScheduleFetch, StepsMatch, Users, Closing
  <2>3. TasksEnd'
    BY <1>1, SMT DEF LookupOpen, Lookup, CutBlock, ScheduleFetch, StepsMatch, TasksEnd, Closing
  <2>4. FilesThere' /\ Emptied'
    BY <1>1, SMT DEF LookupOpen, Lookup, CutBlock, ScheduleFetch, StepsMatch, TasksEnd,
      FilesThere, Emptied, Closing, ResetTypeOK
  <2>5. Unused'
    BY <1>1, SMT DEF LookupOpen, Lookup, CutBlock, ScheduleFetch, StepsMatch, TasksEnd, Unused,
      Users, Closing
  <2>6. OpensEmpty' /\ BlockHasFile'
    BY <1>1, SMT DEF LookupOpen, Lookup, CutBlock, ScheduleFetch, StepsMatch, TasksEnd,
      FilesThere, Emptied, Unused, OpensEmpty, BlockHasFile, Users, Closing, ResetTypeOK
  <2> QED
    BY <2>1, <2>2, <2>3, <2>4, <2>5, <2>6 DEF RInv
<1>2. CASE LookupFreed(w)
  <2>1. ResetTypeOK'
    BY <1>2, ResetAssumption, SMT DEF LookupFreed, Lookup, ResetTypeOK, Blocks
  <2>2. StepsMatch'
    BY <1>2, SMT DEF LookupFreed, Lookup, StepsMatch, Users, Closing
  <2>3. TasksEnd'
    BY <1>2, SMT DEF LookupFreed, Lookup, StepsMatch, TasksEnd, Closing
  <2>4. FilesThere' /\ Emptied'
    BY <1>2, SMT DEF LookupFreed, Lookup, StepsMatch, TasksEnd, FilesThere, Emptied, Closing
  <2>5. Unused'
    BY <1>2, SMT DEF LookupFreed, Lookup, StepsMatch, TasksEnd, Unused, Users, Closing
  <2>6. OpensEmpty' /\ BlockHasFile'
    BY <1>2, SMT DEF LookupFreed, Lookup, StepsMatch, TasksEnd, FilesThere, Emptied, Unused,
      OpensEmpty, BlockHasFile, Users, Closing
  <2> QED
    BY <2>1, <2>2, <2>3, <2>4, <2>5, <2>6 DEF RInv
<1>3. CASE ReadBlock(w)
  <2>1. ResetTypeOK'
    BY <1>3, ResetAssumption, SMT DEF ReadBlock, OpenBlock, ResetTypeOK, Blocks
  <2>2. StepsMatch'
    BY <1>3, SMT DEF ReadBlock, OpenBlock, StepsMatch, Users, Closing
  <2>3. TasksEnd'
    BY <1>3, SMT DEF ReadBlock, OpenBlock, StepsMatch, TasksEnd, Closing
  <2>4. FilesThere' /\ Emptied'
    BY <1>3, SMT DEF ReadBlock, OpenBlock, StepsMatch, TasksEnd, FilesThere, Emptied, Closing
  <2>5. Unused'
    BY <1>3, SMT DEF ReadBlock, OpenBlock, StepsMatch, TasksEnd, Unused, Users, Closing
  <2>6. OpensEmpty' /\ BlockHasFile'
    BY <1>3, SMT DEF ReadBlock, OpenBlock, StepsMatch, TasksEnd, FilesThere, Emptied, Unused,
      OpensEmpty, BlockHasFile, Users, Closing
  <2> QED
    BY <2>1, <2>2, <2>3, <2>4, <2>5, <2>6 DEF RInv
<1> QED
  BY <1>1, <1>2, <1>3 DEF RInv

\* Workers outside of read_file keep it.
LEMMA OutsideInv ==
    ASSUME RInv, IInv', NEW w \in Workers,
           Outside(w) \/ (Receive(w) /\ UNCHANGED detail)
    PROVE  RInv'
<1> USE DEF RInv, IInv, TypeOK, OneCreator, ReadyMeansOpen, Stages, AtStart, Flagged, Unready, IsOpen,
        NoCreator, Unmade, Made, Creates, Works, InStep, NoFlushes, NoFetches, flags, data, vars, detail,
        buffer, flushes, indexed, files, cache, fetches
<1>1. CASE CleanUnready(w) /\ UNCHANGED detail
  <2>1. ResetTypeOK'
    BY <1>1, ResetAssumption, SMT DEF CleanUnready, ResetTypeOK, Blocks
  <2>2. StepsMatch'
    BY <1>1, SMT DEF CleanUnready, StepsMatch, Users, Closing
  <2>3. TasksEnd'
    BY <1>1, SMT DEF CleanUnready, StepsMatch, TasksEnd, Closing
  <2>4. FilesThere' /\ Emptied'
    BY <1>1, SMT DEF CleanUnready, StepsMatch, TasksEnd, FilesThere, Emptied, Closing
  <2>5. Unused'
    BY <1>1, SMT DEF CleanUnready, StepsMatch, TasksEnd, Unused, Users, Closing
  <2>6. OpensEmpty' /\ BlockHasFile'
    BY <1>1, SMT DEF CleanUnready, StepsMatch, TasksEnd, FilesThere, Emptied, Unused,
      OpensEmpty, BlockHasFile, Users, Closing
  <2> QED
    BY <2>1, <2>2, <2>3, <2>4, <2>5, <2>6 DEF RInv
<1>2. CASE CleanLocked(w) /\ UNCHANGED detail
  <2>1. ResetTypeOK'
    BY <1>2, ResetAssumption, SMT DEF StartCreator, CleanLocked, ResetTypeOK, Blocks
  <2>2. StepsMatch'
    BY <1>2, SMT DEF StartCreator, CleanLocked, StepsMatch, Users, Closing
  <2>3. TasksEnd'
    BY <1>2, SMT DEF StartCreator, CleanLocked, StepsMatch, TasksEnd, Closing
  <2>4. FilesThere' /\ Emptied'
    BY <1>2, SMT DEF StartCreator, CleanLocked, StepsMatch, TasksEnd, FilesThere, Emptied,
      Closing
  <2>5. Unused'
    BY <1>2, SMT DEF StartCreator, CleanLocked, StepsMatch, TasksEnd, Unused, Users, Closing
  <2>6. OpensEmpty' /\ BlockHasFile'
    BY <1>2, SMT DEF StartCreator, CleanLocked, StepsMatch, TasksEnd, FilesThere, Emptied,
      Unused, OpensEmpty, BlockHasFile, Users, Closing
  <2> QED
    BY <2>1, <2>2, <2>3, <2>4, <2>5, <2>6 DEF RInv
<1>3. CASE CleanRefused(w) /\ UNCHANGED detail
  <2>1. ResetTypeOK'
    BY <1>3, ResetAssumption, SMT DEF CleanRefused, ResetTypeOK, Blocks
  <2>2. StepsMatch'
    BY <1>3, SMT DEF CleanRefused, StepsMatch, Users, Closing
  <2>3. TasksEnd'
    BY <1>3, SMT DEF CleanRefused, StepsMatch, TasksEnd, Closing
  <2>4. FilesThere' /\ Emptied'
    BY <1>3, SMT DEF CleanRefused, StepsMatch, TasksEnd, FilesThere, Emptied, Closing
  <2>5. Unused'
    BY <1>3, SMT DEF CleanRefused, StepsMatch, TasksEnd, Unused, Users, Closing
  <2>6. OpensEmpty' /\ BlockHasFile'
    BY <1>3, SMT DEF CleanRefused, StepsMatch, TasksEnd, FilesThere, Emptied, Unused,
      OpensEmpty, BlockHasFile, Users, Closing
  <2> QED
    BY <2>1, <2>2, <2>3, <2>4, <2>5, <2>6 DEF RInv
<1>4. CASE FileTest(w) /\ UNCHANGED detail
  <2>1. ResetTypeOK'
    BY <1>4, ResetAssumption, SMT DEF FileTest, ResetTypeOK, Blocks
  <2>2. StepsMatch'
    BY <1>4, SMT DEF FileTest, StepsMatch, Users, Closing
  <2>3. TasksEnd'
    BY <1>4, SMT DEF FileTest, StepsMatch, TasksEnd, Closing
  <2>4. FilesThere' /\ Emptied'
    BY <1>4, SMT DEF FileTest, StepsMatch, TasksEnd, FilesThere, Emptied, Closing
  <2>5. Unused'
    BY <1>4, SMT DEF FileTest, StepsMatch, TasksEnd, Unused, Users, Closing
  <2>6. OpensEmpty' /\ BlockHasFile'
    BY <1>4, SMT DEF FileTest, StepsMatch, TasksEnd, FilesThere, Emptied, Unused, OpensEmpty,
      BlockHasFile, Users, Closing
  <2> QED
    BY <2>1, <2>2, <2>3, <2>4, <2>5, <2>6 DEF RInv
<1>5. CASE Direct(w) /\ UNCHANGED detail
  <2>1. ResetTypeOK'
    BY <1>5, ResetAssumption, SMT DEF Direct, ResetTypeOK, Blocks
  <2>2. StepsMatch'
    BY <1>5, SMT DEF Direct, StepsMatch, Users, Closing
  <2>3. TasksEnd'
    BY <1>5, SMT DEF Direct, StepsMatch, TasksEnd, Closing
  <2>4. FilesThere' /\ Emptied'
    BY <1>5, SMT DEF Direct, StepsMatch, TasksEnd, FilesThere, Emptied, Closing
  <2>5. Unused'
    BY <1>5, SMT DEF Direct, StepsMatch, TasksEnd, Unused, Users, Closing
  <2>6. OpensEmpty' /\ BlockHasFile'
    BY <1>5, SMT DEF Direct, StepsMatch, TasksEnd, FilesThere, Emptied, Unused, OpensEmpty,
      BlockHasFile, Users, Closing
  <2> QED
    BY <2>1, <2>2, <2>3, <2>4, <2>5, <2>6 DEF RInv
<1>6. CASE ReadyTest(w) /\ UNCHANGED detail
  <2>1. ResetTypeOK'
    BY <1>6, ResetAssumption, SMT DEF ReadyTest, ResetTypeOK, Blocks
  <2>2. StepsMatch'
    BY <1>6, SMT DEF ReadyTest, StepsMatch, Users, Closing
  <2>3. TasksEnd'
    BY <1>6, SMT DEF ReadyTest, StepsMatch, TasksEnd, Closing
  <2>4. FilesThere' /\ Emptied'
    BY <1>6, SMT DEF ReadyTest, StepsMatch, TasksEnd, FilesThere, Emptied, Closing
  <2>5. Unused'
    BY <1>6, SMT DEF ReadyTest, StepsMatch, TasksEnd, Unused, Users, Closing
  <2>6. OpensEmpty' /\ BlockHasFile'
    BY <1>6, SMT DEF ReadyTest, StepsMatch, TasksEnd, FilesThere, Emptied, Unused, OpensEmpty,
      BlockHasFile, Users, Closing
  <2> QED
    BY <2>1, <2>2, <2>3, <2>4, <2>5, <2>6 DEF RInv
<1>7. CASE Receive(w) /\ UNCHANGED detail
  <2>1. ResetTypeOK'
    BY <1>7, ResetAssumption, SMT DEF Receive, ResetTypeOK, Blocks
  <2>2. StepsMatch'
    BY <1>7, SMT DEF Receive, StepsMatch, Users, Closing
  <2>3. TasksEnd'
    BY <1>7, SMT DEF Receive, StepsMatch, TasksEnd, Closing
  <2>4. FilesThere' /\ Emptied'
    BY <1>7, SMT DEF Receive, StepsMatch, TasksEnd, FilesThere, Emptied, Closing
  <2>5. Unused'
    BY <1>7, SMT DEF Receive, StepsMatch, TasksEnd, Unused, Users, Closing
  <2>6. OpensEmpty' /\ BlockHasFile'
    BY <1>7, SMT DEF Receive, StepsMatch, TasksEnd, FilesThere, Emptied, Unused, OpensEmpty,
      BlockHasFile, Users, Closing
  <2> QED
    BY <2>1, <2>2, <2>3, <2>4, <2>5, <2>6 DEF RInv
<1> QED
  BY <1>1, <1>2, <1>3, <1>4, <1>5, <1>6, <1>7 DEF Outside

\* A stutter keeps it.
LEMMA StutterInv == RInv /\ UNCHANGED resetVars => RInv'
<1> SUFFICES ASSUME RInv, UNCHANGED resetVars PROVE RInv'
  OBVIOUS
<1>1. IInv'
  BY ServerPart
<1>2. ResetTypeOK' /\ StepsMatch' /\ TasksEnd' /\ FilesThere' /\ Emptied' /\ Unused' /\ OpensEmpty' /\ BlockHasFile'
  BY DEF RInv, resetVars, detail, vars, flags, data, buffer, flushes, indexed, files, cache, fetches,
    ResetTypeOK, StepsMatch, TasksEnd, FilesThere, Emptied, Unused, OpensEmpty, BlockHasFile,
    NoFlushes, NoFetches, Users, Closing
<1> QED
  BY <1>1, <1>2 DEF RInv

\* Every step keeps it.
LEMMA ResetNextInv == RInv /\ [ResetNext]_resetVars => RInv'
<1> SUFFICES ASSUME RInv, [ResetNext]_resetVars PROVE RInv'
  OBVIOUS
<1>1. IInv'
  BY ServerPart
<1>2. ASSUME NEW c \in Creators, ResetStep(c) PROVE RInv'
  BY <1>1, <1>2, CloseInv, OpenInv, FlagsInv DEF ResetStep
<1>3. CASE Aborted /\ UNCHANGED detail
  BY <1>3, StutterInv DEF Aborted, resetVars
<1> QED
  BY <1>1, <1>2, <1>3, FlushInv, FetchInv, ReadInv, OutsideInv, StutterInv DEF ResetNext, ServeStep

\* The inductive invariant.
THEOREM ResetInvariance == ResetSpec => []RInv
BY ResetInitInv, ResetNextInv, PTL DEF ResetSpec
-----------------------------------------------------------------------------
(***************************************************************************)
(* What follows                                                            *)
(***************************************************************************)

\* The types of what a reset touches.
THEOREM ResetTypeCorrect == ResetSpec => []ResetTypeOK
<1>1. RInv => ResetTypeOK
  BY DEF RInv
<1> QED
  BY <1>1, ResetInvariance, PTL

\* close() takes nothing away from a task that needs it, and no task meets the
\* store that is opened after it.
THEOREM TasksKeepTheirStore == ResetSpec => []TasksKeepStore
<1>1. RInv => TasksKeepStore
  <2> SUFFICES ASSUME RInv PROVE TasksKeepStore
    OBVIOUS
  <2> USE DEF RInv, StepsMatch, TasksEnd, FilesThere, Unused, NoFlushes, NoFetches, Closing
  <2>1. \A f \in Flushers : fpc[f] = "loop" => index = "open"
    BY SMT
  <2>2. \A g \in Fetchers : gpc[g] = "copy" => gblk[g] \in hdd
    OBVIOUS
  <2>3. \A c \in Creators : cpc[c] \in {"wipe", "setup", "opened"} /\ clean => NoFetches /\ NoFlushes
    BY SMT
  <2> QED
    BY <2>1, <2>2, <2>3 DEF TasksKeepStore
<1> QED
  BY <1>1, ResetInvariance, PTL

\* A store opened anew has nothing of the old one.
THEOREM StoreOpensEmpty == ResetSpec => []OpensEmpty
<1>1. RInv => OpensEmpty
  BY DEF RInv
<1> QED
  BY <1>1, ResetInvariance, PTL

\* A block that the index or the cache names has its file.
THEOREM BlocksHaveFiles == ResetSpec => []BlockHasFile
<1>1. RInv => BlockHasFile
  BY DEF RInv
<1> QED
  BY <1>1, ResetInvariance, PTL

\* The reset in detail is one of MogServer's.
THEOREM ResetImplementsServer == ResetSpec => RefinesServer
<1>1. ResetInit => Init
  BY DEF ResetInit
<1> QED
  BY <1>1, StepRefines, ResetInvariance, PTL DEF ResetSpec, Spec, RefinesServer

\* So its theorems hold here.
THEOREM ResetKeepsServer == ResetSpec => [](OneCreator /\ ReadyMeansOpen)
<1>1. RefinesServer => [](OneCreator /\ ReadyMeansOpen)
  BY OneCreatorAtATime, ReadyStoreIsOpen, PTL DEF RefinesServer
<1> QED
  BY <1>1, ResetImplementsServer, PTL
=============================================================================
