------------------------------- MODULE YPipe --------------------------------
(***************************************************************************)
(* The lock-free queue under every mailbox and pipe of ZeroMQ              *)
(* (src/depend/zeromq-4.1.4/src/ypipe.hpp on yqueue.hpp): a linked list of *)
(* chunks of N elements, with addresses that malloc hands out again, one   *)
(* writing and one reading thread that share the pointer c and the spare   *)
(* chunk.  A step is what a thread does up to its next access to memory    *)
(* the other one uses.  The sleeping reader is woken by a signal of the    *)
(* writer, as mailbox_t and pipe_t do it.                                  *)
(***************************************************************************)
EXTENDS Integers, Sequences, FiniteSets

CONSTANTS
    Chunks,     \* addresses that malloc can return
    N,          \* granularity: elements of a chunk
    MaxWrites,  \* bound: elements written
    Null

ASSUME PipeAssumption ==
    /\ N \in Nat \ {0, 1}
    /\ MaxWrites \in Nat
    /\ Null \notin Chunks \cup (Chunks \X (0 .. N - 1))

VARIABLES
    heap,                      \* chunks that are allocated
    values, prev, next,        \* what is in them
    begin, back, end,          \* of yqueue_t: an element's address each
    spare_chunk,
    w, r, f, c,                \* of ypipe_t: addresses, or Null
    wpc, sc, incomplete,       \* the writer: where it is, the chunk in hand, the part's flag
    rpc, o,                    \* the reader: where it is, the chunk it has left
    list,                      \* history: the addresses from begin to end, as they were linked
    taken,                     \* history: the element read last, <<>> at first
    signal,                    \* the writer's signal is on its way
    writes                     \* elements written so far

yqueue == <<heap, values, prev, next, begin, back, end, spare_chunk>>
vars == <<yqueue, list, w, r, f, c, wpc, sc, incomplete, rpc, o, taken, signal, writes>>

Address == Chunks \X (0 .. N - 1)
Unset == 0  \* what is in an element before it is written

\* The constructors: one chunk, in it the terminator that all pointers point to.
Init ==
    \E first \in Chunks :
        /\ heap = {first}
        /\ values = [a \in Address |-> Unset]
        /\ prev = [k \in Chunks |-> Null]
        /\ next = [k \in Chunks |-> Null]
        /\ begin = <<first, 0>> /\ back = begin /\ end = <<first, 1>>
        /\ list = <<begin, end>>
        /\ spare_chunk = Null
        /\ w = back /\ r = back /\ f = back /\ c = back
        /\ wpc = "idle" /\ sc = Null /\ incomplete = FALSE
        /\ rpc = "awake" /\ o = Null
        /\ taken = <<>>
        /\ signal = FALSE
        /\ writes = 0
-----------------------------------------------------------------------------
(***************************************************************************)
(* The writer                                                              *)
(***************************************************************************)
rvars == <<begin, r, rpc, o, taken>>

FullChunk == end[2] + 1 = N

\* write(): the value goes to the back, and push() moves back to the end.
Write(more) ==
    /\ wpc = "idle"
    /\ writes < MaxWrites
    /\ writes' = writes + 1
    /\ values' = [values EXCEPT ![back] = writes + 1]
    /\ incomplete' = more
    /\ back' = end
    /\ IF FullChunk
       THEN wpc' = "xchg" /\ UNCHANGED <<end, list, f>>
       ELSE /\ wpc' = wpc
            /\ end' = <<end[1], end[2] + 1>>
            /\ list' = Append(list, end')
            /\ f' = IF more THEN f ELSE end
    /\ UNCHANGED <<heap, prev, next, spare_chunk, w, c, sc, rvars, signal>>

\* push() at the end of a chunk: the spare chunk, or one that malloc returns.
NextChunk ==
    /\ wpc = "xchg"
    /\ IF spare_chunk # Null
       THEN sc' = spare_chunk /\ heap' = heap
       ELSE \E k \in Chunks \ heap : sc' = k /\ heap' = heap \cup {k}
    /\ spare_chunk' = Null
    /\ wpc' = "link"
    /\ UNCHANGED <<values, prev, next, back, end, list, w, f, c, incomplete, rvars, signal, writes>>

Link ==
    /\ wpc = "link"
    /\ next' = [next EXCEPT ![end[1]] = sc]
    /\ prev' = [prev EXCEPT ![sc] = end[1]]
    /\ end' = <<sc, 0>>
    /\ list' = Append(list, end')
    /\ f' = IF incomplete THEN f ELSE back
    /\ sc' = Null
    /\ wpc' = "idle"
    /\ UNCHANGED <<heap, values, back, spare_chunk, w, c, incomplete, rvars, signal, writes>>

Before(a) == IF a[2] > 0 THEN <<a[1], a[2] - 1>> ELSE <<prev[a[1]], N - 1>>

\* unpush() moves back and end, and frees an emptied chunk.
Unpush ==
    /\ wpc = "idle"
    /\ back' = Before(back)
    /\ end' = Before(end)
    /\ list' = SubSeq(list, 1, Len(list) - 1)
    /\ IF end[2] > 0
       THEN UNCHANGED <<heap, next>>
       ELSE /\ heap' = heap \ {next[prev[end[1]]]}
            /\ next' = [next EXCEPT ![prev[end[1]]] = Null]
    /\ UNCHANGED <<values, prev, spare_chunk, w, f, c, wpc, sc, incomplete, rvars, signal, writes>>

\* unwrite() of an element whose message is not complete.
Unwrite == f # back /\ Unpush

\* flush() that does not compare.
FlushBlindly ==
    /\ wpc = "idle"
    /\ w # f
    /\ c' = f /\ w' = f
    /\ UNCHANGED <<yqueue, list, f, wpc, sc, incomplete, rvars, signal, writes>>

\* flush(): c.cas (w, f).  It fails if the reader has set c to NULL.
Flush ==
    /\ wpc = "idle"
    /\ w # f
    /\ IF c = w
       THEN c' = f /\ w' = f /\ wpc' = wpc
       ELSE wpc' = "set" /\ UNCHANGED <<c, w>>
    /\ UNCHANGED <<yqueue, list, f, sc, incomplete, rvars, signal, writes>>

\* flush() returns FALSE.
SetC ==
    /\ wpc = "set"
    /\ c' = f
    /\ w' = f
    /\ wpc' = "signal"
    /\ UNCHANGED <<yqueue, list, f, sc, incomplete, rvars, signal, writes>>

Signal ==
    /\ wpc = "signal"
    /\ signal' = TRUE
    /\ wpc' = "idle"
    /\ UNCHANGED <<yqueue, list, w, f, c, sc, incomplete, rvars, writes>>
-----------------------------------------------------------------------------
(***************************************************************************)
(* The reader                                                              *)
(***************************************************************************)
wvars == <<back, end, w, f, wpc, sc, incomplete, writes>>

\* check_read() without a prefetched value: r = c.cas (&front, NULL).
CheckRead ==
    /\ rpc = "awake"
    /\ begin = r \/ r = Null
    /\ r' = c
    /\ c' = IF c = begin THEN Null ELSE c
    /\ rpc' = IF c = begin \/ c = Null THEN "asleep" ELSE "awake"
    /\ UNCHANGED <<heap, values, prev, next, begin, list, spare_chunk, wvars, o, taken, signal>>

\* read() of a prefetched value, and pop().
Read ==
    /\ rpc = "awake"
    /\ begin # r /\ r # Null
    /\ taken' = <<values[begin]>>
    /\ list' = Tail(list)
    /\ IF begin[2] + 1 # N
       THEN begin' = <<begin[1], begin[2] + 1>> /\ UNCHANGED <<rpc, o, prev>>
       ELSE /\ begin' = <<next[begin[1]], 0>>
            /\ prev' = [prev EXCEPT ![next[begin[1]]] = Null]
            /\ o' = begin[1]
            /\ rpc' = "xchg"
    /\ UNCHANGED <<heap, values, next, spare_chunk, r, c, wvars, signal>>

\* pop() that forgets the spare chunk there was.
RecycleOnly ==
    /\ rpc = "xchg"
    /\ spare_chunk' = o
    /\ o' = Null
    /\ rpc' = "awake"
    /\ UNCHANGED <<heap, values, prev, next, begin, list, r, c, wvars, taken, signal>>

\* pop() at the end of a chunk: it becomes the spare one, the spare one is freed.
Recycle ==
    /\ rpc = "xchg"
    /\ spare_chunk' = o
    /\ heap' = heap \ {spare_chunk}
    /\ o' = Null
    /\ rpc' = "awake"
    /\ UNCHANGED <<values, prev, next, begin, list, r, c, wvars, taken, signal>>

Wake ==
    /\ rpc = "asleep"
    /\ signal
    /\ signal' = FALSE
    /\ rpc' = "awake"
    /\ UNCHANGED <<yqueue, list, r, c, wvars, o, taken>>

\* Everything that may be written was written and read, and the reader sleeps.
Over ==
    /\ writes = MaxWrites
    /\ rpc = "asleep" /\ wpc = "idle" /\ f = back /\ w = f /\ ~signal
    /\ UNCHANGED vars

Next ==
    \/ \E more \in BOOLEAN : Write(more)
    \/ NextChunk \/ Link \/ Unwrite \/ Flush \/ SetC \/ Signal
    \/ CheckRead \/ Read \/ Recycle \/ Wake
    \/ Over

Spec == Init /\ [][Next]_vars
-----------------------------------------------------------------------------
(***************************************************************************)
(* Properties                                                              *)
(***************************************************************************)

After(a) == IF a[2] + 1 < N THEN <<a[1], a[2] + 1>> ELSE <<next[a[1]], 0>>

(* The chunks are linked both ways from begin to end.  None is freed while  *)
(* either thread can still get to it, none is lost, and none is at once in  *)
(* the list, spare and in a thread's hand: xchg of spare_chunk in push()    *)
(* and pop() gives each chunk to one of them (yqueue.hpp:111,167), and      *)
(* unpush() frees only what push() added (yqueue.hpp:145-152).              *)
Linked ==
    /\ list[1] = begin /\ list[Len(list)] = end
    /\ \A i \in 1 .. Len(list) - 1 : list[i + 1] = After(list[i]) /\ list[i] = Before(list[i + 1])
Listed == {list[i][1] : i \in DOMAIN list}
Held == {spare_chunk, sc, o} \ {Null}
ChunksConserved ==
    /\ Linked
    /\ heap = Listed \cup Held /\ Listed \cap Held = {}
    /\ \A k \in Held : <<k, k>> \notin {<<spare_chunk, sc>>, <<spare_chunk, o>>, <<sc, o>>}

\* The elements from address a up to b.
At(a) == CHOOSE i \in DOMAIN list : list[i] = a
Between(a, b) == [i \in 1 .. At(b) - At(a) |-> values[list[At(a) + i - 1]]]

\* What is flushed and unread, what is complete, and what is neither.
Growing == wpc \in {"xchg", "link"} /\ ~incomplete
Flushed == Between(begin, w)
Complete == Between(w, IF Growing THEN back ELSE f)
Partial == IF Growing THEN <<>> ELSE Between(f, back)
Reader ==
    CASE rpc # "asleep" -> "active"
      [] rpc = "asleep" /\ (wpc = "signal" \/ signal) -> "called"
      [] OTHER -> "asleep"

(* The queue of addresses, where an address comes back as soon as its chunk  *)
(* is used again, is the FIFO that its users think it is: comparing front,   *)
(* r, w and c as pointers (ypipe.hpp:119,141,148) never takes one element    *)
(* for another, the reader never sees an element that is not flushed, says   *)
(* that there is none only if so, and flush() says that it sleeps only then. *)
Promise == INSTANCE SleepyQueue WITH
    partial <- Partial, complete <- Complete, queue <- Flushed, reader <- Reader, last <- taken
PromisedNext ==
    \/ \E v \in 1 .. MaxWrites, more \in BOOLEAN : Promise!QWrite(v, more)
    \/ Promise!QUnwrite \/ Promise!QFlush \/ Promise!QRead \/ Promise!QSleep \/ Promise!QWake
IsSleepyQueue == Promise!QInit /\ [][PromisedNext]_(Promise!qvars)
=============================================================================
