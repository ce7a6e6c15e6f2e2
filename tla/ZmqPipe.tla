------------------------------ MODULE ZmqPipe -------------------------------
(***************************************************************************)
(* A pair of pipe_t (src/depend/zeromq-4.1.4/src/pipe.cpp), through which  *)
(* a socket and a session, or two sockets of one process, pass messages.   *)
(* Each end belongs to a thread of its own.  Between the ends are a queue  *)
(* of messages for each direction (a SleepyQueue) and a queue of commands  *)
(* to each end (a mailbox).  A handler is a step up to the next thing the  *)
(* other thread can see.  Messages are whole ones: parts of an incomplete  *)
(* message stay on the writer's side, and rollback() drops them (QUnwrite  *)
(* of SleepyQueue).  Left out, as nothing here uses them: hiccup(),        *)
(* conflating pipes, set_hwms() and set_nodelay().                         *)
(***************************************************************************)
EXTENDS Integers, Sequences

CONSTANTS
    Ends,           \* the two
    hwm,            \* of each: high watermark of its outbound messages, 0 for none
    max_wm_delta,   \* of config.hpp
    Delays,         \* of each: with what its owner calls terminate()
    MaxMessages,    \* bound, of each: messages it writes
    MaxTerminates   \* bound, of each: calls of terminate()

Peer(e) == CHOOSE p \in Ends : p # e

ASSUME PipesAssumption ==
    /\ \E a, b \in Ends : a # b /\ Ends = {a, b}
    /\ hwm \in [Ends -> Nat] /\ max_wm_delta \in Nat \ {0}
    /\ Delays \in [Ends -> SUBSET BOOLEAN]
    /\ MaxMessages \in [Ends -> Nat] /\ MaxTerminates \in [Ends -> Nat]

lwm_above_hwm(h) == h + 1
compute_lwm(h) == IF h > max_wm_delta * 2 THEN h - max_wm_delta ELSE (h + 1) \div 2
lwm(e) == compute_lwm(hwm[Peer(e)])

VARIABLES
    pipe,       \* the pipe_t of each end
    unflushed,  \* of each: what it has written and not flushed
    flushed,    \* of each: what it has flushed and its peer has not read
    reader,     \* of each: whether it reads, sleeps, or was called, as in SleepyQueue
    commands,   \* of each: commands on their way to it, oldest first
    pc,         \* of each: inside which call it is
    deleted,    \* ends that are deallocated
    calls,      \* of each: calls of terminate()
    hasty       \* history: ends of which one of them was not to wait
flow == <<unflushed, flushed, reader>>
ended == <<calls, hasty>>
vars == <<pipe, flow, commands, pc, deleted, ended>>

delimiter == 0  \* messages are numbered from 1

Init ==
    /\ pipe = [e \in Ends |->
         [state |-> "active", delay |-> TRUE, in_active |-> TRUE, out_active |-> TRUE,
          outpipe |-> TRUE, msgs_read |-> 0, msgs_written |-> 0, peers_msgs_read |-> 0]]
    /\ unflushed = [e \in Ends |-> <<>>]
    /\ flushed = [e \in Ends |-> <<>>]
    /\ reader = [e \in Ends |-> "active"]
    /\ commands = [e \in Ends |-> <<>>]
    /\ pc = [e \in Ends |-> "idle"]
    /\ deleted = {}
    /\ calls = [e \in Ends |-> 0]
    /\ hasty = {}

Idle(e) == pc[e] = "idle" /\ e \notin deleted

\* send_activate_read and its like: a command to the peer.
Command(name, n) == [name |-> name, msgs_read |-> n]
Sent(e, command) == [commands EXCEPT ![Peer(e)] = Append(@, command)]
Send(e, name) == commands' = Sent(e, Command(name, 0))
-----------------------------------------------------------------------------
(***************************************************************************)
(* Writing                                                                 *)
(***************************************************************************)

Writable(e) == Idle(e) /\ pipe[e].out_active /\ pipe[e].state = "active"
FullLate(e) == hwm[e] > 0 /\ pipe[e].msgs_written - pipe[e].peers_msgs_read = hwm[e] + 1
Full(e) == hwm[e] > 0 /\ pipe[e].msgs_written - pipe[e].peers_msgs_read = hwm[e]

Write(e) ==
    /\ Writable(e) /\ ~Full(e)
    /\ pipe[e].msgs_written < MaxMessages[e]
    /\ unflushed' = [unflushed EXCEPT ![e] = Append(@, pipe[e].msgs_written + 1)]
    /\ pipe' = [pipe EXCEPT ![e].msgs_written = @ + 1]
    /\ UNCHANGED <<flushed, reader, commands, pc, deleted, ended>>

\* check_write() at the high watermark.
Stop(e) ==
    /\ Writable(e) /\ Full(e)
    /\ pipe' = [pipe EXCEPT ![e].out_active = FALSE]
    /\ UNCHANGED <<flow, commands, pc, deleted, ended>>

\* flush() of which nobody looks at the result.
FlushSilently(e, items) ==
    /\ flushed' = [flushed EXCEPT ![e] = @ \o unflushed[e] \o items]
    /\ unflushed' = [unflushed EXCEPT ![e] = <<>>]
    /\ pc' = [pc EXCEPT ![e] = "idle"]
    /\ reader' = reader

\* ypipe_t::flush() of what is in the queue and items.
FlushWith(e, items) ==
    /\ flushed' = [flushed EXCEPT ![e] = @ \o unflushed[e] \o items]
    /\ unflushed' = [unflushed EXCEPT ![e] = <<>>]
    /\ IF reader[Peer(e)] = "asleep"
       THEN /\ reader' = [reader EXCEPT ![Peer(e)] = "called"]
            /\ pc' = [pc EXCEPT ![e] = "activate_read"]
       ELSE reader' = reader /\ pc' = [pc EXCEPT ![e] = "idle"]

Flush(e) ==
    /\ Idle(e)
    /\ pipe[e].state # "term_ack_sent"
    /\ pipe[e].outpipe
    /\ unflushed[e] # <<>>
    /\ FlushWith(e, <<>>)
    /\ UNCHANGED <<pipe, commands, deleted, ended>>

\* flush() was told that the reader sleeps.
ActivateRead(e) ==
    /\ pc[e] = "activate_read"
    /\ Send(e, "activate_read")
    /\ pc' = [pc EXCEPT ![e] = "idle"]
    /\ UNCHANGED <<pipe, flow, deleted, ended>>
-----------------------------------------------------------------------------
(***************************************************************************)
(* Reading                                                                 *)
(***************************************************************************)

Readable(e) ==
    Idle(e) /\ pipe[e].in_active /\ pipe[e].state \in {"active", "waiting_for_delimiter"}

ReadMessage(e) ==
    LET n == pipe[e].msgs_read + 1
    IN  /\ Readable(e)
        /\ flushed[Peer(e)] # <<>> /\ Head(flushed[Peer(e)]) # delimiter
        /\ flushed' = [flushed EXCEPT ![Peer(e)] = Tail(@)]
        /\ pipe' = [pipe EXCEPT ![e].msgs_read = n]
        /\ commands' = IF lwm(e) > 0 /\ n % lwm(e) = 0
                       THEN Sent(e, Command("activate_write", n)) ELSE commands
        /\ UNCHANGED <<unflushed, reader, pc, deleted, ended>>

\* read() and check_read() of an empty queue.
ReadNothing(e) ==
    /\ Readable(e)
    /\ flushed[Peer(e)] = <<>>
    /\ pipe' = [pipe EXCEPT ![e].in_active = FALSE]
    /\ reader' = [reader EXCEPT ![e] = "asleep"]
    /\ UNCHANGED <<unflushed, flushed, commands, pc, deleted, ended>>

\* The delimiter, and process_delimiter().
ReadDelimiter(e) ==
    /\ Readable(e)
    /\ flushed[Peer(e)] # <<>> /\ Head(flushed[Peer(e)]) = delimiter
    /\ flushed' = [flushed EXCEPT ![Peer(e)] = Tail(@)]
    /\ IF pipe[e].state = "active"
       THEN /\ pipe' = [pipe EXCEPT ![e].state = "delimiter_received"]
            /\ commands' = commands
       ELSE /\ pipe' = [pipe EXCEPT ![e].state = "term_ack_sent", ![e].outpipe = FALSE]
            /\ Send(e, "pipe_term_ack")
    /\ UNCHANGED <<unflushed, reader, pc, deleted, ended>>
-----------------------------------------------------------------------------
(***************************************************************************)
(* Commands                                                                *)
(***************************************************************************)

\* process_command() of the oldest one; sent is what the handler sends.
Takes(e, name) == Idle(e) /\ commands[e] # <<>> /\ Head(commands[e]).name = name
Taken(e) == [commands EXCEPT ![e] = Tail(@)]
TakenAndSent(e, name) ==
    [commands EXCEPT ![e] = Tail(@), ![Peer(e)] = Append(@, Command(name, 0))]

process_activate_read(e) ==
    /\ Takes(e, "activate_read")
    /\ commands' = Taken(e)
    /\ IF ~pipe[e].in_active /\ pipe[e].state \in {"active", "waiting_for_delimiter"}
       THEN /\ pipe' = [pipe EXCEPT ![e].in_active = TRUE]
            /\ reader' = [reader EXCEPT ![e] = "active"]
       ELSE UNCHANGED <<pipe, reader>>
    /\ UNCHANGED <<unflushed, flushed, pc, deleted, ended>>

process_activate_write(e) ==
    /\ Takes(e, "activate_write")
    /\ commands' = Taken(e)
    /\ pipe' = [pipe EXCEPT ![e].peers_msgs_read = Head(commands[e]).msgs_read,
                            ![e].out_active = @ \/ pipe[e].state = "active"]
    /\ UNCHANGED <<flow, pc, deleted, ended>>

AcksAtOnce(e) == pipe[e].state \in {"active", "delimiter_received", "term_req_sent1"}
AcksOne(e) ==
    \/ pipe[e].state = "active" /\ ~pipe[e].delay
    \/ pipe[e].state = "delimiter_received"
AcksTerm(e) ==
    \/ pipe[e].state = "active" /\ ~pipe[e].delay
    \/ pipe[e].state \in {"delimiter_received", "term_req_sent1"}

process_pipe_term(e) ==
    /\ Takes(e, "pipe_term")
    /\ pipe[e].state \in {"active", "delimiter_received", "term_req_sent1"}
    /\ IF AcksTerm(e)
       THEN /\ pipe' = [pipe EXCEPT
                  ![e].state = IF @ = "term_req_sent1" THEN "term_req_sent2"
                                                       ELSE "term_ack_sent",
                  ![e].outpipe = FALSE]
            /\ commands' = TakenAndSent(e, "pipe_term_ack")
       ELSE /\ pipe' = [pipe EXCEPT ![e].state = "waiting_for_delimiter"]
            /\ commands' = Taken(e)
    /\ UNCHANGED <<flow, pc, deleted, ended>>

\* The inbound queue is emptied and freed, and the pipe_t with it.
process_pipe_term_ack(e) ==
    /\ Takes(e, "pipe_term_ack")
    /\ pipe[e].state \in {"term_req_sent1", "term_ack_sent", "term_req_sent2"}
    /\ IF pipe[e].state = "term_req_sent1"
       THEN /\ pipe' = [pipe EXCEPT ![e].outpipe = FALSE]
            /\ commands' = TakenAndSent(e, "pipe_term_ack")
       ELSE pipe' = pipe /\ commands' = Taken(e)
    /\ flushed' = [flushed EXCEPT ![Peer(e)] = <<>>]
    /\ deleted' = deleted \cup {e}
    /\ UNCHANGED <<unflushed, reader, pc, ended>>
-----------------------------------------------------------------------------
(***************************************************************************)
(* Termination                                                             *)
(***************************************************************************)

\* terminate() by the end's owner, at any time, up to the command it sends.
Terminate(e, delay) ==
    LET p == pipe[e]
        early == p.state \in {"term_req_sent1", "term_req_sent2", "term_ack_sent"}
        asks == p.state \in {"active", "delimiter_received"}
        acks == p.state = "waiting_for_delimiter" /\ ~delay
    IN  /\ Idle(e)
        /\ calls[e] < MaxTerminates[e]
        /\ calls' = [calls EXCEPT ![e] = @ + 1]
        /\ hasty' = IF delay THEN hasty ELSE hasty \cup {e}
        /\ pipe' = [pipe EXCEPT
              ![e].delay = delay,
              ![e].state = CASE asks -> "term_req_sent1" [] acks -> "term_ack_sent" [] OTHER -> @,
              ![e].outpipe = @ /\ ~acks,
              ![e].out_active = @ /\ early]
        /\ commands' = CASE asks -> Sent(e, Command("pipe_term", 0))
                         [] acks -> Sent(e, Command("pipe_term_ack", 0))
                         [] OTHER -> commands
        /\ pc' = [pc EXCEPT ![e] = IF early \/ acks THEN "idle" ELSE "delimit"]
        /\ UNCHANGED <<flow, deleted>>

\* The rest of terminate(): the delimiter is written and flushed.
Delimit(e) ==
    /\ pc[e] = "delimit"
    /\ FlushWith(e, <<delimiter>>)
    /\ UNCHANGED <<pipe, commands, deleted, ended>>

Over == deleted = Ends /\ UNCHANGED vars

\* Nothing is left to do, but nobody has called terminate().
Quiet ==
    /\ deleted = {}
    /\ \A e \in Ends : /\ pipe[e].state = "active" /\ commands[e] = <<>>
                       /\ pipe[e].msgs_written = MaxMessages[e]
    /\ UNCHANGED vars

Processes(e) ==
    \/ process_activate_read(e) \/ process_activate_write(e)
    \/ process_pipe_term(e) \/ process_pipe_term_ack(e)
Reads(e) == ReadMessage(e) \/ ReadNothing(e) \/ ReadDelimiter(e)
Next ==
    \/ \E e \in Ends :
        \/ Write(e) \/ Stop(e) \/ Flush(e)
        \/ Reads(e) \/ Processes(e)
        \/ ActivateRead(e) \/ Delimit(e)
        \/ \E delay \in Delays[e] : Terminate(e, delay)
    \/ Over \/ Quiet

\* Threads take their commands and end their calls; whoever wrote flushes, as
\* socket_base_t and stream_engine_t do before they wait; the owner goes on
\* reading.  Nothing says that it writes or terminates.
Fairness ==
    \A e \in Ends :
        /\ WF_vars(Processes(e)) /\ WF_vars(ActivateRead(e) \/ Delimit(e))
        /\ WF_vars(Flush(e)) /\ WF_vars(Reads(e))

Spec == Init /\ [][Next]_vars /\ Fairness
-----------------------------------------------------------------------------
(***************************************************************************)
(* Properties                                                              *)
(***************************************************************************)

(* The assertions on the state of an end in process_pipe_term and              *)
(* process_pipe_term_ack hold whenever their command can be taken, in whatever *)
(* order terminate() on both ends, delimiters in the queues and commands in    *)
(* the mailboxes meet (pipe.cpp:289-291,343); and no end reads from a queue    *)
(* that has told it to sleep, before it is called (pipe.cpp:130,156,245-246).  *)
AssertionsHold ==
    \A e \in Ends :
        /\ Takes(e, "pipe_term") =>
               pipe[e].state \in {"active", "delimiter_received", "term_req_sent1"}
        /\ Takes(e, "pipe_term_ack") =>
               pipe[e].state \in {"term_req_sent1", "term_ack_sent", "term_req_sent2"}
        /\ Readable(e) => reader[e] = "active"

(* No command is on its way to an end that is deallocated, and its peer is     *)
(* about to send none: the acknowledgement is the last one (pipe.cpp:233-241,  *)
(* 328-363).                                                                   *)
NoCommandToDeleted ==
    \A e \in deleted : commands[e] = <<>> /\ pc[Peer(e)] # "activate_read"

(* An end that still has its outbound queue has a peer that has not freed it   *)
(* (pipe.cpp:303,313,323,339,351-359,396-400).                                 *)
OutpipeIsThere ==
    \A e \in Ends \ deleted : pipe[e].outpipe => Peer(e) \notin deleted

(* The states, the queues and the mailboxes of the two ends fit together as    *)
(* the code takes for granted.                                                 *)
ProtocolKept == AssertionsHold /\ NoCommandToDeleted /\ OutpipeIsThere

(* The high watermark holds: == in check_write() is enough (pipe.cpp:196),     *)
(* because the count that comes back from the peer is never ahead of it.       *)
HwmKept ==
    \A e \in Ends :
        /\ pipe[e].peers_msgs_read <= pipe[Peer(e)].msgs_read
        /\ hwm[e] > 0 => pipe[e].msgs_written - pipe[Peer(e)].msgs_read <= hwm[e]

(* Who ends a pipe loses nothing that the other side waits for: an end that    *)
(* has acknowledged the termination and was never told not to wait has read    *)
(* all that its peer wrote (pipe.cpp:293-317,370-406,470-482,                  *)
(* pipe.hpp:207-210).                                                          *)
NothingLost ==
    \A e \in Ends \ hasty :
        pipe[e].state = "term_ack_sent" =>
            pipe[e].msgs_read = pipe[Peer(e)].msgs_written

(* A termination ends, whatever the other end does at the same time: both ends *)
(* are deallocated.                                                            *)
TerminationEnds == \A e \in Ends : pipe[e].state = "term_req_sent1" ~> deleted = Ends

(* A writer that was stopped at the high watermark gets going again, or the    *)
(* pipe is being terminated: the low watermark is never above the high one     *)
(* (pipe.cpp:185-186,196-201,251-260,442-468).                                 *)
WriterGoesOn ==
    \A e \in Ends : ~pipe[e].out_active ~> (pipe[e].out_active \/ pipe[e].state # "active")
=============================================================================
