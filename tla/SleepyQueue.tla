---------------------------- MODULE SleepyQueue -----------------------------
(***************************************************************************)
(* What ypipe_t promises to one writing and one reading thread: a FIFO     *)
(* whose writer publishes what it wrote with flush() and learns from it    *)
(* that the reader, which found nothing the last time it looked, has to be *)
(* woken.  The reader does not look again before that.                     *)
(***************************************************************************)
EXTENDS Integers, Sequences

VARIABLES
    partial,    \* the parts of a message that is not complete
    complete,   \* complete messages that are not flushed
    queue,      \* flushed and unread
    reader,     \* "active", "asleep", or "called": flush() told the writer to wake it
    last        \* what was read last, <<>> at first

qvars == <<partial, complete, queue, reader, last>>

QInit ==
    /\ partial = <<>>
    /\ complete = <<>>
    /\ queue = <<>>
    /\ reader = "active"
    /\ last = <<>>

QWrite(v, incomplete) ==
    /\ IF incomplete
       THEN partial' = Append(partial, v) /\ UNCHANGED complete
       ELSE complete' = Append(complete \o partial, v) /\ partial' = <<>>
    /\ UNCHANGED <<queue, reader, last>>

QUnwrite ==
    /\ partial # <<>>
    /\ partial' = SubSeq(partial, 1, Len(partial) - 1)
    /\ UNCHANGED <<complete, queue, reader, last>>

\* flush() returns FALSE if the reader is asleep.
QFlush ==
    /\ complete # <<>>
    /\ queue' = queue \o complete
    /\ complete' = <<>>
    /\ reader' = IF reader = "asleep" THEN "called" ELSE reader
    /\ UNCHANGED <<partial, last>>

QRead ==
    /\ reader = "active"
    /\ queue # <<>>
    /\ last' = <<Head(queue)>>
    /\ queue' = Tail(queue)
    /\ UNCHANGED <<partial, complete, reader>>

QSleep ==
    /\ reader = "active"
    /\ queue = <<>>
    /\ reader' = "asleep"
    /\ UNCHANGED <<partial, complete, queue, last>>

QWake ==
    /\ reader = "called"
    /\ reader' = "active"
    /\ UNCHANGED <<partial, complete, queue, last>>
=============================================================================
