----------------------------- MODULE ThreadPool -----------------------------
(***************************************************************************)
(* The thread pool of WriteBuffer and SSDCache (boost.threadpool, kept in  *)
(* src/mog_server/src/include): a FIFO of tasks, a fixed number of worker  *)
(* threads, one monitor and two condition variables.  Its owner schedules, *)
(* waits for the tasks as SSDCache::sync does, and deletes the pool, which *)
(* runs the policy wait_for_all_tasks.  A section under the monitor is a   *)
(* step, except where the code waits in it, joins threads in it, or where  *)
(* active(), which takes no lock, can look inside.  A pool that shrinks,   *)
(* and a task that throws, are left out: nothing resizes a pool, and an    *)
(* exception that leaves a thread ends the process.                        *)
(***************************************************************************)
EXTENDS Integers, Sequences, FiniteSets

CONSTANTS
    Workers,      \* the pool's threads
    Owner,        \* the thread that syncs and deletes
    Tasks,        \* tasks that may be scheduled, each once
    MaxSpurious,  \* bound: wake-ups that no notification caused
    Nil

ASSUME ThreadPoolAssumption ==
    /\ IsFiniteSet(Workers)
    /\ Owner \notin Workers
    /\ Nil \notin Workers \cup Tasks \cup {Owner}
    /\ MaxSpurious \in Nat

VARIABLES
    m_worker_count, m_target_worker_count, m_active_worker_count,
    m_scheduler,              \* tasks pending, oldest first
    m_terminate_all_workers,
    m_terminated_workers,     \* those to be joined
    m_monitor,                \* who holds it from one step to the next
    wpc, task,                \* workers: where they are, the task they run
    opc,                      \* the owner: where it is
    finished,                 \* history: tasks that have returned
    before,                   \* history: tasks scheduled when sync() began
    spurious                  \* spurious wake-ups so far

counters == <<m_worker_count, m_target_worker_count, m_active_worker_count>>
ending == <<m_terminate_all_workers, m_terminated_workers>>
history == <<finished, before>>
poolvars == <<counters, m_scheduler, ending, m_monitor, wpc, task, opc, history, spurious>>

\* The constructor has resized the pool: every worker counts as active.
PoolInit ==
    /\ m_worker_count = Cardinality(Workers)
    /\ m_target_worker_count = Cardinality(Workers)
    /\ m_active_worker_count = Cardinality(Workers)
    /\ m_scheduler = <<>>
    /\ m_terminate_all_workers = FALSE
    /\ m_terminated_workers = {}
    /\ m_monitor = Nil
    /\ wpc = [w \in Workers |-> "fetch"]
    /\ task = [w \in Workers |-> Nil]
    /\ opc = "open"
    /\ finished = {}
    /\ before = {}
    /\ spurious = 0

Pending == {m_scheduler[i] : i \in DOMAIN m_scheduler}
Running == {task[w] : w \in Workers} \ {Nil}
Known == Pending \cup Running \cup finished

\* m_worker_idle_or_terminated_event: the owner alone waits for it.
NotifyIdle ==
    opc' = CASE opc = "waiting"  -> "wait"
             [] opc = "draining" -> "drain"
             [] OTHER            -> opc

\* m_task_or_terminate_workers_event: workers wait for it.
Waiting == {w \in Workers : wpc[w] = "waiting"}
NotifyOne ==
    \/ Waiting = {} /\ wpc' = wpc
    \/ \E w \in Waiting : wpc' = [wpc EXCEPT ![w] = "woken"]
NotifyAll == wpc' = [w \in Workers |-> IF w \in Waiting THEN "woken" ELSE wpc[w]]

TooManyWorkers == m_worker_count > m_target_worker_count

Moves(w, here, there) == wpc[w] = here /\ wpc' = [wpc EXCEPT ![w] = there]
-----------------------------------------------------------------------------
(***************************************************************************)
(* schedule(), of any thread                                               *)
(***************************************************************************)

\* The owner schedules nothing once it has begun to delete the pool.  That is
\* its duty: schedule() does not test it.
Alive == opc \in {"open", "pending", "active", "synced"}

Pushes(t) ==
    /\ Alive
    /\ t \notin Known
    /\ m_monitor = Nil
    /\ m_scheduler' = Append(m_scheduler, t)
    /\ UNCHANGED <<counters, ending, m_monitor, task, opc, history, spurious>>
ScheduleSilently(t) == Pushes(t) /\ UNCHANGED wpc
Schedule(t) == Pushes(t) /\ NotifyOne
-----------------------------------------------------------------------------
(***************************************************************************)
(* worker_thread::run and execute_task()                                   *)
(***************************************************************************)

\* The monitor is taken; a worker too many leaves.
Enter(w) ==
    /\ m_monitor = Nil
    /\ Moves(w, "fetch", IF TooManyWorkers THEN "leaving" ELSE "looking")
    /\ m_monitor' = IF TooManyWorkers THEN Nil ELSE w
    /\ UNCHANGED <<counters, m_scheduler, ending, task, opc, history, spurious>>

\* The oldest task is taken and the monitor released.
TakeTop(w, left) ==
    /\ m_scheduler # <<>>
    /\ Moves(w, "looking", "running")
    /\ task' = [task EXCEPT ![w] = Head(m_scheduler)]
    /\ m_scheduler' = left
    /\ m_monitor' = Nil
    /\ UNCHANGED <<counters, ending, opc, history, spurious>>
TakeUnpopped(w) == TakeTop(w, m_scheduler)
Take(w) == TakeTop(w, Tail(m_scheduler))

\* Nothing to do: no longer active, and waiting, which releases the monitor.
Idle(w) ==
    /\ m_scheduler = <<>>
    /\ ~TooManyWorkers
    /\ Moves(w, "looking", "waiting")
    /\ m_active_worker_count' = m_active_worker_count - 1
    /\ NotifyIdle
    /\ m_monitor' = Nil
    /\ UNCHANGED <<m_worker_count, m_target_worker_count, m_scheduler, ending, task,
                   history, spurious>>

Quit(w) ==
    /\ m_scheduler = <<>>
    /\ TooManyWorkers
    /\ Moves(w, "looking", "leaving")
    /\ m_monitor' = Nil
    /\ UNCHANGED <<counters, m_scheduler, ending, task, opc, history, spurious>>

\* A wait ends with the monitor held and the worker active again.
WakeAs(w, active) ==
    /\ m_monitor = Nil
    /\ Moves(w, "woken", "looking")
    /\ m_active_worker_count' = active
    /\ m_monitor' = w
    /\ UNCHANGED <<m_worker_count, m_target_worker_count, m_scheduler, ending, task,
                   opc, history, spurious>>
Wake(w) == WakeAs(w, m_active_worker_count + 1)

\* The task's function returns, and the loop of run() goes on.
Finish(w) ==
    /\ Moves(w, "running", "fetch")
    /\ finished' = finished \cup {task[w]}
    /\ task' = [task EXCEPT ![w] = Nil]
    /\ UNCHANGED <<counters, m_scheduler, ending, m_monitor, opc, before, spurious>>

\* worker_destructed().
Destructed(w) ==
    /\ m_monitor = Nil
    /\ Moves(w, "leaving", "ended")
    /\ m_worker_count' = m_worker_count - 1
    /\ m_active_worker_count' = m_active_worker_count - 1
    /\ NotifyIdle
    /\ m_terminated_workers' =
        m_terminated_workers \cup (IF m_terminate_all_workers THEN {w} ELSE {})
    /\ UNCHANGED <<m_target_worker_count, m_scheduler, m_terminate_all_workers,
                   m_monitor, task, history, spurious>>

\* The thread's function returns.
Exit(w) ==
    /\ Moves(w, "ended", "gone")
    /\ UNCHANGED <<counters, m_scheduler, ending, m_monitor, task, opc, history, spurious>>

\* A condition variable may end a wait unasked.
WakeUnasked(w) ==
    /\ spurious < MaxSpurious
    /\ spurious' = spurious + 1
    /\ Moves(w, "waiting", "woken")
    /\ UNCHANGED <<counters, m_scheduler, ending, m_monitor, task, opc, history>>
-----------------------------------------------------------------------------
(***************************************************************************)
(* The owner                                                               *)
(***************************************************************************)

Owns(here, there) == opc = here /\ opc' = there
OwnerOnly == UNCHANGED <<counters, m_scheduler, ending, m_monitor, wpc, task, finished, spurious>>

Sync ==
    /\ opc \in {"open", "synced"}
    /\ opc' = "pending"
    /\ before' = Known
    /\ OwnerOnly

\* pending() takes the monitor, active() does not.  The loop tests one, then
\* the other, and starts again when it finds a task.
NonePending == m_monitor = Nil /\ m_scheduler = <<>>
NoneActive == m_active_worker_count = 0

\* The order of WriteBuffer::sync.
SyncLoopActiveFirst ==
    /\ \/ NoneActive /\ Owns("pending", "active")
       \/ NonePending /\ Owns("active", "synced")
       \/ m_monitor = Nil /\ m_scheduler # <<>> /\ Owns("active", "pending")
    /\ UNCHANGED before /\ OwnerOnly

\* The order of SSDCache::sync.
SyncLoop ==
    /\ \/ NonePending /\ Owns("pending", "active")
       \/ NoneActive /\ Owns("active", "synced")
       \/ ~NoneActive /\ Owns("active", "pending")
    /\ UNCHANGED before /\ OwnerOnly

\* delete: shutdown() of the policy wait_for_all_tasks.
Delete ==
    /\ opc \in {"open", "synced"}
    /\ opc' = "wait"
    /\ UNCHANGED before /\ OwnerOnly

\* wait(): until no worker is active and no task pending.
WaitTo(idle) ==
    /\ m_monitor = Nil
    /\ Owns("wait", IF idle THEN "terminate" ELSE "waiting")
    /\ UNCHANGED before /\ OwnerOnly
WaitForWorkers == WaitTo(NoneActive)
Wait == WaitTo(NoneActive /\ m_scheduler = <<>>)

\* terminate_all_workers(true): to the loop that waits for active workers.
TerminateAs(notify) ==
    /\ m_monitor = Nil
    /\ Owns("terminate", "drain")
    /\ m_terminate_all_workers' = TRUE
    /\ m_target_worker_count' = 0
    /\ m_monitor' = Owner
    /\ notify
    /\ UNCHANGED <<m_worker_count, m_active_worker_count, m_scheduler,
                   m_terminated_workers, task, history, spurious>>
TerminateSilently == TerminateAs(UNCHANGED wpc)
Terminate == TerminateAs(NotifyAll)

\* The monitor is released to wait, or kept to join.
Drain ==
    /\ m_monitor \in {Nil, Owner}
    /\ Owns("drain", IF NoneActive THEN "join" ELSE "draining")
    /\ m_monitor' = IF NoneActive THEN Owner ELSE Nil
    /\ UNCHANGED <<counters, m_scheduler, ending, wpc, task, history, spurious>>

Join ==
    /\ \A w \in m_terminated_workers : wpc[w] = "gone"
    /\ Owns("join", "closed")
    /\ m_terminated_workers' = {}
    /\ m_monitor' = Nil
    /\ UNCHANGED <<counters, m_scheduler, m_terminate_all_workers, wpc, task, history, spurious>>

OwnerUnasked ==
    /\ spurious < MaxSpurious
    /\ spurious' = spurious + 1
    /\ opc \in {"waiting", "draining"}
    /\ NotifyIdle
    /\ UNCHANGED <<counters, m_scheduler, ending, m_monitor, wpc, task, history>>

\* All threads have ended.
Over == opc = "closed" /\ (\A w \in Workers : wpc[w] = "gone") /\ UNCHANGED poolvars

Locks(w) == Enter(w) \/ Wake(w) \/ Destructed(w)
Works(w) == Take(w) \/ Idle(w) \/ Quit(w) \/ Finish(w) \/ Exit(w)
OwnerLocks == Wait \/ Terminate \/ Drain

PoolNext ==
    \/ \E t \in Tasks : Schedule(t)
    \/ \E w \in Workers : Locks(w) \/ Works(w) \/ WakeUnasked(w)
    \/ Sync \/ SyncLoop \/ Delete \/ OwnerLocks \/ Join \/ OwnerUnasked
    \/ Over

PoolSpec == PoolInit /\ [][PoolNext]_poolvars

\* Threads run, tasks return, and who wants the monitor gets it.  Whether the
\* owner syncs or deletes is left open.
FairPoolSpec ==
    /\ PoolSpec
    /\ \A w \in Workers : WF_poolvars(Works(w)) /\ SF_poolvars(Locks(w))
    /\ SF_poolvars(OwnerLocks) /\ WF_poolvars(Join)
-----------------------------------------------------------------------------
(***************************************************************************)
(* Properties                                                              *)
(***************************************************************************)

\* Types of the state of the pool, its workers and its owner.
PoolTypeOK ==
    /\ m_worker_count \in Nat
    /\ m_target_worker_count \in Nat
    /\ m_active_worker_count \in Nat
    /\ m_scheduler \in Seq(Tasks)
    /\ m_terminate_all_workers \in BOOLEAN
    /\ m_terminated_workers \in SUBSET Workers
    /\ m_monitor \in Workers \cup {Owner, Nil}
    /\ wpc \in [Workers -> {"fetch", "looking", "waiting", "woken", "running",
                            "leaving", "ended", "gone"}]
    /\ task \in [Workers -> Tasks \cup {Nil}]
    /\ opc \in {"open", "pending", "active", "synced", "wait", "waiting", "terminate",
                "drain", "draining", "join", "closed"}
    /\ finished \in SUBSET Tasks
    /\ before \in SUBSET Tasks
    /\ spurious \in 0 .. MaxSpurious

\* size() and active() are what their names say, though a worker counts itself
\* out and in again around every wait: the first are the workers that have not
\* left, the second those of them that are not waiting for a task.
Present == {w \in Workers : wpc[w] \notin {"ended", "gone"}}
Active == {w \in Workers : wpc[w] \in {"fetch", "looking", "running", "leaving"}}
CountsRight ==
    /\ m_worker_count = Cardinality(Present)
    /\ m_active_worker_count = Cardinality(Active)

\* When sync() of the SSD cache returns, every task that was scheduled when it
\* began has returned: it reads pending() first, and a task that is no longer
\* pending keeps its worker active until it is done.
SyncedTasksDone == opc = "synced" => before \subseteq finished

\* Once wait() has returned in shutdown(), no task is pending or running.
PastWait == opc \in {"terminate", "drain", "draining", "join", "closed"}
ShutdownWaits == PastWait => m_scheduler = <<>> /\ Running = {}

\* Each task is executed once and they are taken in order: the pool is the
\* queue that WriteBuffer and SSDCache are modelled with.
TP == INSTANCE TaskPool WITH queue <- m_scheduler, running <- Running, done <- finished
RefinesTaskPool == TP!Spec

\* A task that was scheduled is executed: no notification is lost.
TasksRun == \A t \in Tasks : t \in Pending ~> t \in finished

\* Deleting a pool ends, and so do all its threads: the owner, which joins
\* with the monitor held, waits for no thread that needs it.
ShutdownEnds == opc = "wait" ~> opc = "closed" /\ \A w \in Workers : wpc[w] = "gone"
=============================================================================
