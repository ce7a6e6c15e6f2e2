----------------------------- MODULE ZmqMailbox -----------------------------
(***************************************************************************)
(* The mailbox through which the threads of ZeroMQ send each other         *)
(* commands (src/depend/zeromq-4.1.4/src/mailbox.cpp): any number of       *)
(* senders and one receiver, a lock for the senders, an eventfd            *)
(* (signaler.cpp) that says that there is something after there was        *)
(* nothing, and a ypipe_t, of which this module assumes what SleepyQueue   *)
(* says.  The receiver polls the eventfd, or calls recv() whenever it      *)
(* likes, and goes on calling it until it fails; in the end it destroys    *)
(* the mailbox.                                                            *)
(***************************************************************************)
EXTENDS SleepyQueue, FiniteSets

CONSTANTS
    Senders,
    Commands,   \* the commands that are sent, each once; with the last one the owner can go
    None

ASSUME MailboxAssumption == None \notin Senders \cup Commands

VARIABLES
    sync,       \* the sender that holds the lock
    spc,        \* senders: where they are
    cmd,        \* senders: the command they send
    ok,         \* senders: what flush() returned
    eventfd,    \* the counter of the eventfd
    active,     \* mailbox_t::active
    rpc,        \* the receiver: where it is
    timeout,    \* "none" to return at once, "infinite" to wait
    sent, received  \* the commands so far

svars == <<sync, spc, cmd, ok, sent>>
rvars == <<active, rpc, timeout, received>>
vars == <<qvars, svars, eventfd, rvars>>

\* The constructor reads once, in vain.
Init ==
    /\ partial = <<>> /\ complete = <<>> /\ queue = <<>> /\ last = <<>>
    /\ reader = "asleep"
    /\ sync = None
    /\ spc = [s \in Senders |-> "out"]
    /\ cmd = [s \in Senders |-> None]
    /\ ok = [s \in Senders |-> TRUE]
    /\ eventfd = 0
    /\ active = FALSE
    /\ rpc = "out"
    /\ timeout = "none"
    /\ sent = {}
    /\ received = {}

SenderMoves(s, here, there) == spc[s] = here /\ spc' = [spc EXCEPT ![s] = there]
Moves(here, there) == rpc = here /\ rpc' = there
-----------------------------------------------------------------------------
(***************************************************************************)
(* mailbox_t::send                                                         *)
(***************************************************************************)

Enter(s) ==
    /\ SenderMoves(s, "out", "called")
    /\ \E m \in Commands \ sent :
        /\ cmd' = [cmd EXCEPT ![s] = m]
        /\ sent' = sent \cup {m}
    /\ UNCHANGED <<qvars, sync, ok, eventfd, rvars>>

Lock(s) ==
    /\ sync = None
    /\ SenderMoves(s, "called", "write")
    /\ sync' = s
    /\ UNCHANGED <<qvars, cmd, ok, sent, eventfd, rvars>>

Write(s) ==
    /\ SenderMoves(s, "write", "flush")
    /\ QWrite(cmd[s], FALSE)
    /\ UNCHANGED <<sync, cmd, ok, sent, eventfd, rvars>>

\* flush() that goes by what is in the queue and not by the reader.
FlushIfEmpty(s) ==
    /\ SenderMoves(s, "flush", "unlock")
    /\ QFlush
    /\ ok' = [ok EXCEPT ![s] = queue # <<>>]
    /\ UNCHANGED <<sync, cmd, sent, eventfd, rvars>>

Flush(s) ==
    /\ SenderMoves(s, "flush", "unlock")
    /\ QFlush
    /\ ok' = [ok EXCEPT ![s] = reader # "asleep"]
    /\ UNCHANGED <<sync, cmd, sent, eventfd, rvars>>

\* send() that does not look at what flush() returned.
UnlockOnly(s) ==
    /\ SenderMoves(s, "unlock", "out")
    /\ sync' = None
    /\ UNCHANGED <<qvars, cmd, ok, sent, eventfd, rvars>>

Unlock(s) ==
    /\ SenderMoves(s, "unlock", IF ok[s] THEN "out" ELSE "signal")
    /\ sync' = None
    /\ UNCHANGED <<qvars, cmd, ok, sent, eventfd, rvars>>

\* signaler.send(), after the lock was released.
Signal(s) ==
    /\ SenderMoves(s, "signal", "out")
    /\ eventfd' = eventfd + 1
    /\ UNCHANGED <<qvars, sync, cmd, ok, sent, rvars>>
-----------------------------------------------------------------------------
(***************************************************************************)
(* mailbox_t::recv and its callers                                         *)
(***************************************************************************)

Calls(here, t) ==
    /\ Moves(here, IF active THEN "read" ELSE "wait")
    /\ timeout' = t
    /\ UNCHANGED <<qvars, svars, eventfd, active, received>>

\* A caller that is content with one command.
CallNoMore ==
    /\ Moves("again", "out")
    /\ UNCHANGED <<qvars, svars, eventfd, active, timeout, received>>

\* A thread that polls calls recv() when the eventfd is readable, a socket's at any time.
PolledCall == eventfd > 0 /\ Calls("out", "none")
AnyCall == \E t \in {"none", "infinite"} : Calls("out", t)
\* process_commands() and in_event() go on until there is nothing more.
CallAgain == Calls("again", "none")

Received == received' = received \cup {Head(queue)}

Read ==
    /\ Moves("read", "again")
    /\ QRead
    /\ Received
    /\ UNCHANGED <<svars, eventfd, active, timeout>>

Empty ==
    /\ Moves("read", "wait")
    /\ QSleep
    /\ active' = FALSE
    /\ UNCHANGED <<svars, eventfd, timeout, received>>

\* signaler.wait(): a signal, EAGAIN, or EINTR, after which io_thread_t and reaper_t
\* call again and a socket's caller is told.
Signalled ==
    /\ eventfd > 0
    /\ Moves("wait", "signalled")
    /\ UNCHANGED <<qvars, svars, eventfd, active, timeout, received>>
TimesOut ==
    /\ eventfd = 0 /\ timeout = "none"
    /\ Moves("wait", "out")
    /\ UNCHANGED <<qvars, svars, eventfd, active, timeout, received>>
Interrupted ==
    /\ \E there \in {"out", "again"} : Moves("wait", there)
    /\ UNCHANGED <<qvars, svars, eventfd, active, timeout, received>>

\* signaler.recv(): the counter is read and reset; of two signals one is put back.
TakeSignal ==
    /\ Moves("signalled", "first")
    /\ eventfd' = IF eventfd = 2 THEN 1 ELSE 0
    /\ active' = TRUE
    /\ reader' = "active"
    /\ UNCHANGED <<partial, complete, queue, last, svars, timeout, received>>

\* The command that the signal was for: zmq_assert (ok).
ReadFirst ==
    /\ rpc = "first"
    /\ IF queue # <<>>
       THEN rpc' = "again" /\ QRead /\ Received
       ELSE rpc' = "aborted" /\ UNCHANGED <<qvars, received>>
    /\ UNCHANGED <<svars, eventfd, active, timeout>>

\* A destructor that does not wait for the lock.
DestroyAtOnce ==
    /\ received = Commands
    /\ rpc \in {"out", "again"} /\ rpc' = "destroyed"
    /\ UNCHANGED <<qvars, svars, eventfd, active, timeout, received>>

\* The owner is deleted when the last command it waits for was received.
Destroy ==
    /\ received = Commands
    /\ sync = None  \* sync.lock (); sync.unlock ();
    /\ rpc \in {"out", "again"} /\ rpc' = "destroyed"
    /\ UNCHANGED <<qvars, svars, eventfd, active, timeout, received>>

Over == rpc = "destroyed" /\ UNCHANGED vars

Sends(s) == Enter(s) \/ Lock(s) \/ Write(s) \/ Flush(s) \/ Unlock(s) \/ Signal(s)
Receives ==
    \/ CallAgain \/ Read \/ Empty \/ Signalled \/ TimesOut \/ TakeSignal \/ ReadFirst
    \/ rpc = "out" /\ PolledCall
Next ==
    \/ \E s \in Senders : Sends(s)
    \/ Receives \/ AnyCall \/ Interrupted
    \/ Destroy \/ Over

\* Threads run and lock() returns; who sends, calls without a poll, is interrupted
\* and destroys does so as it likes.
Fairness ==
    /\ \A s \in Senders :
        /\ SF_vars(Lock(s))
        /\ WF_vars(Write(s) \/ Flush(s) \/ Unlock(s) \/ Signal(s))
    /\ WF_vars(CallAgain \/ Read \/ Empty \/ TimesOut \/ TakeSignal \/ ReadFirst)
    /\ SF_vars(Signalled) /\ WF_vars(PolledCall)

Spec == Init /\ [][Next]_vars /\ Fairness
-----------------------------------------------------------------------------
(***************************************************************************)
(* Properties                                                              *)
(***************************************************************************)

Positions == {"out", "called", "write", "flush", "unlock", "signal"}
Stages == {"out", "read", "wait", "signalled", "first", "again", "aborted", "destroyed"}

\* The type invariant.
TypeOK ==
    /\ queue \in Seq(Commands) /\ complete \in Seq(Commands) /\ partial = <<>>
    /\ reader \in {"active", "asleep", "called"}
    /\ sync \in Senders \cup {None}
    /\ spc \in [Senders -> Positions]
    /\ cmd \in [Senders -> Commands \cup {None}]
    /\ ok \in [Senders -> BOOLEAN]
    /\ eventfd \in Nat
    /\ active \in BOOLEAN
    /\ rpc \in Stages
    /\ timeout \in {"none", "infinite"}
    /\ sent \subseteq Commands /\ received \subseteq Commands

\* Senders that were told to wake the receiver and did not do so yet.
Owing(s) == spc[s] = "signal" \/ (spc[s] = "unlock" /\ ~ok[s])

(* There is never more than one signal, sent or still to be sent, although   *)
(* it is sent outside the lock: zmq_assert (dummy == 1) holds                *)
(* (signaler.cpp:293), and the case above it, a second signal that is put    *)
(* back (signaler.cpp:286-291), does not occur.                              *)
OneSignal ==
    /\ eventfd <= 1
    /\ \A s, t \in Senders : Owing(s) /\ Owing(t) => s = t
    /\ \A s \in Senders : Owing(s) => eventfd = 0

(* A receiver that was woken finds a command: zmq_assert (ok)                *)
(* (mailbox.cpp:93-94).                                                      *)
WokenFindsCommand == rpc # "aborted" /\ (rpc = "first" => queue # <<>>)

(* A receiver that is not inside recv() and has commands waiting can see it  *)
(* by polling the eventfd, now or when the sender that owes the signal has   *)
(* sent it: nothing is left behind when in_event() or process_commands()     *)
(* returns (mailbox.cpp:71-82, io_thread.cpp:81, socket_base.cpp:1019).      *)
CommandsShowOnFd ==
    rpc \in {"out", "wait"} /\ queue # <<>> => eventfd = 1 \/ \E s \in Senders : Owing(s)

(* When the mailbox is gone, no sender is inside send() any more, also not   *)
(* in signaler.send(), which no lock protects: the last command is received  *)
(* after its signal, and the destructor waits for the lock                   *)
(* (mailbox.cpp:47-50,63-65).                                                *)
DestroyedUnused == rpc = "destroyed" => \A s \in Senders : spc[s] = "out"

(* Every command sent is received, if the receiver polls: a receiver that    *)
(* sleeps is woken.                                                          *)
CommandsArrive == \A m \in Commands : m \in sent ~> m \in received
=============================================================================
