------------------------------ MODULE TaskPool ------------------------------
(***************************************************************************)
(* What a thread pool promises those who schedule tasks: every task is     *)
(* taken once, in the order of scheduling, and is finished by the thread   *)
(* that took it.  WriteBuffer and SSDCache use their pools as this.        *)
(***************************************************************************)
EXTENDS Sequences

CONSTANT Tasks

VARIABLES
    queue,    \* tasks scheduled and not yet taken
    running,  \* tasks taken and not yet finished
    done      \* tasks finished

Init == queue = <<>> /\ running = {} /\ done = {}

Known == running \cup done \cup {queue[i] : i \in DOMAIN queue}

Schedule(t) ==
    /\ t \notin Known
    /\ queue' = Append(queue, t)
    /\ UNCHANGED <<running, done>>

Take ==
    /\ queue # <<>>
    /\ running' = running \cup {Head(queue)}
    /\ queue' = Tail(queue)
    /\ UNCHANGED done

Finish(t) ==
    /\ t \in running
    /\ running' = running \ {t}
    /\ done' = done \cup {t}
    /\ UNCHANGED queue

Next == Take \/ \E t \in Tasks : Schedule(t) \/ Finish(t)

Spec == Init /\ [][Next]_<<queue, running, done>>
=============================================================================
