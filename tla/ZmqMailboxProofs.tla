-------------------------- MODULE ZmqMailboxProofs --------------------------
(***************************************************************************)
(* Proofs about ZmqMailbox, for any number of senders and of commands.     *)
(***************************************************************************)
EXTENDS ZmqMailbox, TLAPS

\* Who is inside the lock, and that only it has written and not flushed.
LockHeld ==
    \A s \in Senders : spc[s] \in {"write", "flush", "unlock"} <=> sync = s
Unflushed ==
    /\ \A s \in Senders : spc[s] = "flush" => complete = <<cmd[s]>>
    /\ (\A s \in Senders : spc[s] # "flush") => complete = <<>>

\* The reader is called if and only if one signal is on its way or owed, and is
\* asleep or called only with nothing or something to read.
Called ==
    /\ reader = "called" <=> (eventfd = 1 \/ \E s \in Senders : Owing(s))
    /\ reader = "asleep" => queue = <<>>
    /\ reader = "called" => queue # <<>>

\* What recv() believes is so.
Receiver ==
    /\ active <=> reader = "active"
    /\ rpc \in {"read", "first"} => active
    /\ rpc \in {"out", "wait", "signalled"} => ~active
    /\ rpc = "signalled" => eventfd = 1

\* A command is with one sender, or once in the queue, or received.
InHand(s) == spc[s] \in {"called", "write", "flush"}
QueuedOnce ==
    /\ \A i, j \in 1 .. Len(queue) : queue[i] = queue[j] => i = j
    /\ \A i \in 1 .. Len(queue) : queue[i] \in sent \ received
HeldOnce ==
    /\ \A s \in Senders : InHand(s) => cmd[s] \in sent \ received
    /\ \A s \in Senders : InHand(s) => \A i \in 1 .. Len(queue) : queue[i] # cmd[s]
    /\ \A s, t \in Senders : InHand(s) /\ InHand(t) /\ cmd[s] = cmd[t] => s = t
Gone == rpc = "destroyed" => received = Commands /\ \A s \in Senders : spc[s] = "out"

IInv ==
    /\ TypeOK /\ LockHeld /\ Unflushed /\ Called /\ OneSignal /\ Receiver
    /\ WokenFindsCommand /\ received \subseteq sent /\ QueuedOnce /\ HeldOnce /\ Gone

LEMMA InitInv == Init => IInv
<1> SUFFICES ASSUME Init PROVE IInv
  OBVIOUS
<1> USE DEF Init
<1>1. TypeOK
  <2>1. <<>> \in Seq(Commands)
    OBVIOUS
  <2>2. /\ spc \in [Senders -> Positions] /\ cmd \in [Senders -> Commands \cup {None}]
        /\ ok \in [Senders -> BOOLEAN]
    BY DEF Positions
  <2> QED
    BY <2>1, <2>2 DEF TypeOK, Stages
<1>2. \A s \in Senders : spc[s] = "out" /\ ~Owing(s) /\ ~InHand(s)
  BY DEF Owing, InHand
<1>3. LockHeld /\ Unflushed /\ Called /\ OneSignal /\ Receiver
  BY <1>2, MailboxAssumption DEF LockHeld, Unflushed, Called, OneSignal, Receiver
<1>4. WokenFindsCommand /\ received \subseteq sent /\ QueuedOnce /\ HeldOnce /\ Gone
  BY <1>2 DEF WokenFindsCommand, QueuedOnce, HeldOnce, Gone
<1> QED
  BY <1>1, <1>3, <1>4 DEF IInv
-----------------------------------------------------------------------------
\* A sender calls with a command nobody has sent.
LEMMA EnterInv ==
    ASSUME IInv, NEW s \in Senders, Enter(s)
    PROVE  IInv'
<1> USE DEF IInv, Enter, SenderMoves, qvars, rvars, Positions, Stages
<1>1. PICK m \in Commands \ sent : cmd' = [cmd EXCEPT ![s] = m] /\ sent' = sent \cup {m}
  OBVIOUS
<1>2. TypeOK'
  BY <1>1 DEF TypeOK
<1>3. LockHeld' /\ Unflushed' /\ Receiver' /\ WokenFindsCommand' /\ (received \subseteq sent)'
  BY <1>1 DEF TypeOK, LockHeld, Unflushed, Receiver, WokenFindsCommand
<1>4. \A t \in Senders : Owing(t)' <=> Owing(t)
  BY DEF TypeOK, Owing
<1>5. Called' /\ OneSignal'
  BY <1>4 DEF Called, OneSignal
<1>6. QueuedOnce' /\ HeldOnce'
  BY <1>1 DEF TypeOK, QueuedOnce, HeldOnce, InHand
<1>7. Gone'
  BY <1>1 DEF TypeOK, Gone
<1> QED
  BY <1>2, <1>3, <1>5, <1>6, <1>7

LEMMA LockInv ==
    ASSUME IInv, NEW s \in Senders, Lock(s)
    PROVE  IInv'
<1> USE MailboxAssumption DEF IInv, Lock, SenderMoves, qvars, rvars, Positions, Stages
<1>1. TypeOK' /\ LockHeld' /\ Unflushed' /\ Receiver' /\ WokenFindsCommand'
  BY DEF TypeOK, LockHeld, Unflushed, Receiver, WokenFindsCommand
<1>2. \A t \in Senders : (Owing(t)' <=> Owing(t)) /\ (InHand(t)' <=> InHand(t))
  BY DEF TypeOK, Owing, InHand
<1>3. Called' /\ OneSignal'
  BY <1>2 DEF Called, OneSignal
<1>4. QueuedOnce' /\ HeldOnce' /\ Gone'
  BY <1>2 DEF TypeOK, QueuedOnce, HeldOnce, Gone
<1> QED
  BY <1>1, <1>3, <1>4

LEMMA WriteInv ==
    ASSUME IInv, NEW s \in Senders, Write(s)
    PROVE  IInv'
<1> USE DEF IInv, Write, SenderMoves, QWrite, rvars, Positions, Stages
<1>1. complete = <<>>
  BY DEF TypeOK, LockHeld, Unflushed
<1>2. cmd[s] \in Commands
  BY DEF TypeOK, HeldOnce, InHand
<1>3. complete' = <<cmd[s]>> /\ partial' = <<>>
  BY <1>1, <1>2 DEF TypeOK
<1>4. TypeOK' /\ LockHeld' /\ Receiver' /\ WokenFindsCommand'
  BY <1>2, <1>3 DEF TypeOK, LockHeld, Receiver, WokenFindsCommand
<1>5. Unflushed'
  BY <1>3 DEF TypeOK, LockHeld, Unflushed
<1>6. \A t \in Senders : (Owing(t)' <=> Owing(t)) /\ (InHand(t)' <=> InHand(t))
  BY DEF TypeOK, Owing, InHand
<1>7. Called' /\ OneSignal'
  BY <1>6 DEF Called, OneSignal
<1>8. QueuedOnce' /\ HeldOnce' /\ Gone'
  BY <1>6 DEF TypeOK, QueuedOnce, HeldOnce, Gone
<1> QED
  BY <1>4, <1>5, <1>7, <1>8

\* flush() returns FALSE exactly to the sender that then owes the only signal.
LEMMA FlushInv ==
    ASSUME IInv, NEW s \in Senders, Flush(s)
    PROVE  IInv'
<1> USE DEF IInv, Flush, SenderMoves, QFlush, rvars, Positions, Stages
<1>1. cmd[s] \in Commands /\ complete = <<cmd[s]>>
  BY DEF TypeOK, Unflushed, HeldOnce, InHand
<1>2. /\ queue' \in Seq(Commands) /\ Len(queue') = Len(queue) + 1
      /\ \A i \in 1 .. Len(queue) : queue'[i] = queue[i]
      /\ queue'[Len(queue) + 1] = cmd[s]
  BY <1>1 DEF TypeOK
<1>3. queue' # <<>> /\ complete' = <<>>
  BY <1>2 DEF TypeOK
<1>4. TypeOK' /\ LockHeld'
  BY <1>2, <1>3 DEF TypeOK, LockHeld
<1>5. Unflushed'
  BY <1>3 DEF TypeOK, LockHeld, Unflushed
<1>6. \A t \in Senders : Owing(t)' <=> Owing(t) \/ (t = s /\ reader = "asleep")
  BY DEF TypeOK, Owing
<1>7. reader = "asleep" => eventfd = 0 /\ \A t \in Senders : ~Owing(t)
  BY DEF TypeOK, Called, OneSignal
<1>8. OneSignal'
  BY <1>6, <1>7 DEF OneSignal
<1>9. Called'
  BY <1>3, <1>6, <1>7 DEF Called, TypeOK
<1>10. Receiver' /\ WokenFindsCommand'
  BY <1>3 DEF TypeOK, Receiver, WokenFindsCommand
<1>11. InHand(s) /\ \A t \in Senders : InHand(t)' <=> InHand(t) /\ t # s
  BY DEF TypeOK, InHand
<1>12. cmd[s] \in sent \ received /\ \A i \in 1 .. Len(queue) : queue[i] # cmd[s]
  BY <1>11 DEF HeldOnce
<1>13. QueuedOnce'
  BY <1>2, <1>12 DEF TypeOK, QueuedOnce
<1>14. HeldOnce'
  <2>1. ASSUME NEW t \in Senders, InHand(t)'
        PROVE  \A i \in 1 .. Len(queue') : queue'[i] # cmd[t]
    <3>1. InHand(t) /\ cmd[t] # cmd[s] /\ \A i \in 1 .. Len(queue) : queue[i] # cmd[t]
      BY <1>11, <2>1 DEF HeldOnce
    <3> QED
      BY <1>2, <3>1 DEF TypeOK
  <2> QED
    BY <1>11, <2>1 DEF HeldOnce
<1>15. Gone'
  BY DEF TypeOK, Gone
<1> QED
  BY <1>4, <1>5, <1>8, <1>9, <1>10, <1>13, <1>14, <1>15

\* The debt goes from one step to the next, and then into the eventfd.
LEMMA UnlockSignalInv ==
    ASSUME IInv, NEW s \in Senders, Unlock(s) \/ Signal(s)
    PROVE  IInv'
<1> USE MailboxAssumption DEF IInv, SenderMoves, qvars, rvars, Positions, Stages
<1>1. TypeOK' /\ LockHeld' /\ Unflushed'
  BY DEF Unlock, Signal, TypeOK, LockHeld, Unflushed
<1>2. \A t \in Senders : InHand(t)' <=> InHand(t)
  BY DEF Unlock, Signal, TypeOK, InHand
<1>3. QueuedOnce' /\ HeldOnce' /\ Gone'
  BY <1>2 DEF Unlock, Signal, TypeOK, QueuedOnce, HeldOnce, Gone
<1>4. CASE Unlock(s)
  <2>1. \A t \in Senders : Owing(t)' <=> Owing(t)
    BY <1>4 DEF Unlock, TypeOK, Owing
  <2>2. UNCHANGED <<qvars, sent, eventfd, rvars>>
    BY <1>4 DEF Unlock
  <2>3. Called' /\ OneSignal'
    BY <2>1, <2>2 DEF Called, OneSignal
  <2>4. Receiver' /\ WokenFindsCommand' /\ (received \subseteq sent)'
    BY <2>2 DEF Receiver, WokenFindsCommand
  <2> QED
    BY <1>1, <1>3, <2>3, <2>4
<1>5. CASE Signal(s)
  <2>1. Owing(s) /\ \A t \in Senders : ~Owing(t)'
    BY <1>5 DEF Signal, TypeOK, Owing, OneSignal
  <2>2. eventfd = 0 /\ eventfd' = 1
    BY <1>5, <2>1 DEF Signal, TypeOK, OneSignal
  <2>3. Called' /\ OneSignal' /\ Receiver' /\ WokenFindsCommand'
    BY <1>5, <2>1, <2>2 DEF Signal, Called, OneSignal, Receiver, WokenFindsCommand
  <2> QED
    BY <1>1, <1>3, <1>5, <2>3 DEF Signal
<1> QED
  BY <1>4, <1>5
-----------------------------------------------------------------------------
\* A command leaves the queue for received.
LEMMA QReadOnce ==
    ASSUME IInv, QRead, Received, UNCHANGED svars
    PROVE  /\ queue' \in Seq(Commands) /\ received' \subseteq Commands
           /\ (received \subseteq sent)' /\ QueuedOnce' /\ HeldOnce'
<1> USE DEF IInv, QRead, Received, svars
<1>1. queue \in Seq(Commands) /\ queue # <<>>
  BY DEF TypeOK
<1>2. Len(queue) >= 1 /\ Head(queue) = queue[1] /\ queue[1] \in sent \ received
      /\ queue[1] \in Commands
  BY <1>1 DEF QueuedOnce
<1>3. /\ queue' \in Seq(Commands) /\ Len(queue') = Len(queue) - 1
      /\ \A i \in 1 .. Len(queue') : i + 1 \in 1 .. Len(queue) /\ queue'[i] = queue[i + 1]
  BY <1>1, <1>2
<1>4. \A i \in 1 .. Len(queue') : queue'[i] # queue[1]
  BY <1>1, <1>2, <1>3 DEF QueuedOnce
<1>5. QueuedOnce'
  <2>1. \A i, j \in 1 .. Len(queue') : queue'[i] = queue'[j] => i + 1 = j + 1
    BY <1>3 DEF QueuedOnce
  <2>2. \A i \in 1 .. Len(queue') : queue'[i] \in sent \ received
    BY <1>3 DEF QueuedOnce
  <2> QED
    BY <1>2, <1>3, <1>4, <2>1, <2>2 DEF QueuedOnce
<1>6. \A s \in Senders : InHand(s) => cmd[s] # queue[1]
  BY <1>2 DEF HeldOnce
<1>7. HeldOnce'
  BY <1>2, <1>3, <1>6 DEF HeldOnce, InHand
<1> QED
  BY <1>2, <1>3, <1>5, <1>7 DEF TypeOK

LEMMA ReadInv ==
    ASSUME IInv, Read \/ (ReadFirst /\ queue # <<>>)
    PROVE  IInv'
<1> USE DEF IInv, Moves
<1>1. /\ QRead /\ Received /\ UNCHANGED <<svars, eventfd, active, timeout>>
      /\ active /\ rpc' = "again"
  BY DEF Read, ReadFirst, Receiver
<1>2. QueuedOnce' /\ HeldOnce' /\ (received \subseteq sent)' /\ TypeOK'
  BY <1>1, QReadOnce DEF TypeOK, QRead, svars, Stages
<1>3. reader = "active" /\ UNCHANGED <<reader, complete>>
  BY <1>1 DEF QRead
<1>4. Called' /\ OneSignal'
  BY <1>1, <1>3 DEF Called, OneSignal, Owing, svars
<1>5. LockHeld' /\ Unflushed' /\ Receiver' /\ WokenFindsCommand' /\ Gone'
  BY <1>1, <1>3 DEF svars, LockHeld, Unflushed, Receiver, WokenFindsCommand, Gone
<1> QED
  BY <1>2, <1>4, <1>5

LEMMA EmptyInv ==
    ASSUME IInv, Empty
    PROVE  IInv'
<1> USE DEF IInv, Empty, Moves, QSleep, svars
<1>1. TypeOK' /\ LockHeld' /\ Unflushed'
  BY DEF TypeOK, LockHeld, Unflushed, Stages
<1>2. Called' /\ OneSignal' /\ Receiver' /\ WokenFindsCommand'
  BY DEF Called, OneSignal, Owing, Receiver, WokenFindsCommand
<1>3. QueuedOnce' /\ HeldOnce' /\ Gone'
  BY DEF QueuedOnce, HeldOnce, InHand, Gone
<1> QED
  BY <1>1, <1>2, <1>3

LEMMA TakeSignalInv ==
    ASSUME IInv, TakeSignal
    PROVE  IInv'
<1> USE DEF IInv, TakeSignal, Moves, svars
<1>1. eventfd = 1 /\ eventfd' = 0 /\ reader = "called"
  BY DEF Receiver, Called
<1>2. TypeOK' /\ LockHeld' /\ Unflushed'
  BY <1>1 DEF TypeOK, LockHeld, Unflushed, Stages
<1>3. \A s \in Senders : ~Owing(s) /\ ~Owing(s)'
  BY <1>1 DEF OneSignal, Owing
<1>4. Called' /\ OneSignal' /\ Receiver' /\ WokenFindsCommand'
  BY <1>1, <1>3 DEF Called, OneSignal, Receiver, WokenFindsCommand
<1>5. QueuedOnce' /\ HeldOnce' /\ Gone'
  BY DEF QueuedOnce, HeldOnce, InHand, Gone
<1> QED
  BY <1>2, <1>4, <1>5

\* Steps that change only where the receiver is.
LEMMA MovesInv ==
    ASSUME IInv,
           AnyCall \/ PolledCall \/ CallAgain \/ Signalled \/ TimesOut \/ Interrupted
    PROVE  IInv'
<1> USE DEF IInv, AnyCall, PolledCall, CallAgain, Signalled, TimesOut, Interrupted, Calls,
        Moves, qvars, svars
<1>1. UNCHANGED <<qvars, svars, eventfd, active, received>>
  OBVIOUS
<1>2. TypeOK'
  BY DEF TypeOK, Stages
<1>3. LockHeld' /\ Unflushed' /\ Called' /\ OneSignal' /\ QueuedOnce' /\ HeldOnce'
      /\ (received \subseteq sent)'
  BY <1>1 DEF LockHeld, Unflushed, Called, OneSignal, Owing, QueuedOnce, HeldOnce, InHand
<1>4. Receiver' /\ WokenFindsCommand' /\ Gone'
  BY DEF TypeOK, Receiver, OneSignal, WokenFindsCommand, Gone
<1> QED
  BY <1>2, <1>3, <1>4

\* With all commands received, nobody has one in hand, and nobody owes a signal,
\* as that one would be in the queue.
LEMMA DestroyInv ==
    ASSUME IInv, Destroy
    PROVE  IInv'
<1> USE DEF IInv, Destroy, qvars, svars
<1>1. \A s \in Senders : ~InHand(s)
  BY DEF HeldOnce, TypeOK
<1>2. queue = <<>>
  <2>1. Len(queue) = 0
    BY DEF TypeOK, QueuedOnce
  <2> QED
    BY <2>1 DEF TypeOK
<1>3. \A s \in Senders : ~Owing(s)
  BY <1>2 DEF Called
<1>4. \A s \in Senders : spc[s] # "unlock"
  BY MailboxAssumption DEF LockHeld
<1>5. \A s \in Senders : spc[s] = "out"
  BY <1>1, <1>3, <1>4 DEF InHand, Owing, TypeOK, Positions
<1>6. Gone' /\ Receiver' /\ WokenFindsCommand' /\ TypeOK'
  BY <1>5 DEF Gone, Receiver, WokenFindsCommand, TypeOK, Stages
<1> QED
  BY <1>6 DEF LockHeld, Unflushed, Called, OneSignal, Owing, QueuedOnce, HeldOnce, InHand

LEMMA StutterInv == IInv /\ UNCHANGED vars => IInv'
BY DEF vars, qvars, svars, rvars, IInv, TypeOK, LockHeld, Unflushed, Called, OneSignal, Owing,
    Receiver, WokenFindsCommand, QueuedOnce, HeldOnce, InHand, Gone

LEMMA NextInv == IInv /\ [Next]_vars => IInv'
<1> SUFFICES ASSUME IInv, [Next]_vars PROVE IInv'
  OBVIOUS
<1>1. CASE \E s \in Senders : Sends(s)
  BY <1>1, EnterInv, LockInv, WriteInv, FlushInv, UnlockSignalInv DEF Sends
<1>2. CASE ReadFirst
  <2>1. queue # <<>>
    BY <1>2 DEF IInv, WokenFindsCommand, ReadFirst
  <2> QED
    BY <1>2, <2>1, ReadInv
<1>3. CASE Receives
  BY <1>2, <1>3, ReadInv, EmptyInv, TakeSignalInv, MovesInv DEF Receives
<1>4. CASE AnyCall \/ Interrupted
  BY <1>4, MovesInv
<1>5. CASE Destroy
  BY <1>5, DestroyInv
<1>6. CASE Over \/ UNCHANGED vars
  BY <1>6, StutterInv DEF Over
<1> QED
  BY <1>1, <1>3, <1>4, <1>5, <1>6 DEF Next
-----------------------------------------------------------------------------
\* The inductive invariant of the mailbox.
THEOREM MailboxInvariance == Spec => []IInv
BY InitInv, NextInv, PTL DEF Spec

\* The type invariant.
THEOREM MailboxTypeCorrect == Spec => []TypeOK
<1>1. IInv => TypeOK
  BY DEF IInv
<1> QED
  BY <1>1, MailboxInvariance, PTL

\* One signal at most is in the eventfd or owed by a sender, which signaler_t::recv
\* asserts and mailbox_t::send must see to outside its lock.
THEOREM OneSignalAtATime == Spec => []OneSignal
<1>1. IInv => OneSignal
  BY DEF IInv
<1> QED
  BY <1>1, MailboxInvariance, PTL

\* The assertion at the end of mailbox_t::recv holds.
THEOREM WokenFinds == Spec => []WokenFindsCommand
<1>1. IInv => WokenFindsCommand
  BY DEF IInv
<1> QED
  BY <1>1, MailboxInvariance, PTL

\* Commands that wait for a receiver outside recv() show on the eventfd.
THEOREM CommandsShow == Spec => []CommandsShowOnFd
<1>1. IInv => CommandsShowOnFd
  BY DEF IInv, TypeOK, Called, Receiver, CommandsShowOnFd
<1> QED
  BY <1>1, MailboxInvariance, PTL

\* The destructor leaves no sender inside send().
THEOREM DestructionIsSafe == Spec => []DestroyedUnused
<1>1. IInv => DestroyedUnused
  BY DEF IInv, Gone, DestroyedUnused
<1> QED
  BY <1>1, MailboxInvariance, PTL
=============================================================================
