--------------------------- MODULE ZmqPipeProofs ----------------------------
(***************************************************************************)
(* Proofs about ZmqPipe, for any watermarks, numbers of messages and calls *)
(* of terminate().                                                         *)
(***************************************************************************)
EXTENDS ZmqPipe, SequenceTheorems, TLAPS

States == {"active", "delimiter_received", "waiting_for_delimiter", "term_ack_sent",
           "term_req_sent1", "term_req_sent2"}
Names == {"activate_read", "activate_write", "pipe_term", "pipe_term_ack"}
CommandT == [name : Names, msgs_read : Nat]
PipeT == [state : States, delay : BOOLEAN, in_active : BOOLEAN, out_active : BOOLEAN,
          outpipe : BOOLEAN, msgs_read : Nat, msgs_written : Nat, peers_msgs_read : Nat]

\* Types of the pipes, their queues and the mailboxes.
TypeOK ==
    /\ pipe \in [Ends -> PipeT]
    /\ unflushed \in [Ends -> Seq(Nat)] /\ flushed \in [Ends -> Seq(Nat)]
    /\ reader \in [Ends -> {"active", "asleep", "called"}]
    /\ commands \in [Ends -> Seq(CommandT)]
    /\ pc \in [Ends -> {"idle", "activate_read", "delimit"}]
    /\ deleted \in SUBSET Ends
    /\ calls \in [Ends -> Nat]
    /\ hasty \in SUBSET Ends

\* How far an end is: it has asked for the termination, it has been asked, it
\* has acknowledged.
Asked(e) == pipe[e].state \in {"term_req_sent1", "term_req_sent2"}
WasAsked(e) == pipe[e].state \in {"waiting_for_delimiter", "term_ack_sent", "term_req_sent2"}
Acked(e) == pipe[e].state \in {"term_ack_sent", "term_req_sent2"} \/ e \in deleted

\* What the members of an end say of each other and of its peer.
EndFits(e) ==
    /\ WasAsked(e) => Asked(Peer(e))
    /\ e \in deleted => Acked(Peer(e)) /\ pipe[e].state \in {"term_req_sent1", "term_req_sent2", "term_ack_sent"}
    /\ pipe[e].outpipe <=> ~Acked(e)
    /\ pipe[e].in_active <=> reader[e] = "active"
    /\ pipe[e].state = "active" => pipe[e].delay
    /\ pc[e] # "idle" => ~Acked(e)
    /\ pc[e] = "delimit" => pipe[e].state # "active"

\* Whether a mailbox C has a command of that name; that it has at most one
\* request, and nothing after an acknowledgement.
Has(C, name) == \E i \in DOMAIN C : C[i].name = name
Orderly(C) ==
    /\ \A i, j \in DOMAIN C : C[i].name = "pipe_term" /\ C[j].name = "pipe_term" => i = j
    /\ \A i \in DOMAIN C : C[i].name = "pipe_term_ack" => i = Len(C)

\* A request is on its way until it is taken, and so is an acknowledgement.
MailFits(e) ==
    /\ Has(commands[e], "pipe_term") <=> Asked(Peer(e)) /\ ~WasAsked(e)
    /\ Has(commands[e], "pipe_term_ack") <=> Acked(Peer(e)) /\ e \notin deleted
    /\ Orderly(commands[e])
    /\ e \in deleted => commands[e] = <<>>

\* The counts in C do not decrease, and are none below low or above high.
Rising(C, low, high) ==
    \A i \in DOMAIN C : C[i].name = "activate_write" =>
        /\ low <= C[i].msgs_read /\ C[i].msgs_read <= high
        /\ \A j \in DOMAIN C : i <= j /\ C[j].name = "activate_write" =>
               C[i].msgs_read <= C[j].msgs_read

\* The counts on their way back to a writer are in order, between the one it
\* has and what was read.
CountsFit(e) ==
    /\ pipe[e].peers_msgs_read <= pipe[Peer(e)].msgs_read
    /\ hwm[e] > 0 => pipe[e].msgs_written - pipe[e].peers_msgs_read <= hwm[e]
    /\ Rising(commands[e], pipe[e].peers_msgs_read, pipe[Peer(e)].msgs_read)

\* A mailbox C has the count c; c is a multiple of m.
HasCount(C, c) == \E i \in DOMAIN C : C[i].name = "activate_write" /\ C[i].msgs_read = c
Multiple(c, m) == \E q \in Nat : c = q * m

\* The last count sent to the writer e is c: it has it, or it is on its way,
\* and its peer has read less than a low watermark since.
Credit(e, c) ==
    /\ Multiple(c, lwm(Peer(e)))
    /\ c <= pipe[Peer(e)].msgs_read /\ pipe[Peer(e)].msgs_read < c + lwm(Peer(e))
    /\ Rising(commands[e], pipe[e].peers_msgs_read, c)
    /\ c = pipe[e].peers_msgs_read \/ HasCount(commands[e], c)

\* A writer that is stopped is at the high watermark, by the count it has.
CreditFits(e) ==
    /\ pipe[e].state = "active" /\ ~pipe[e].out_active =>
         hwm[e] > 0 /\ pipe[e].msgs_written - pipe[e].peers_msgs_read = hwm[e]
    /\ hwm[e] > 0 => \E c \in Nat : Credit(e, c)

\* Flushed F and unflushed U of a stream: k messages, then delimiters, and
\* those only when there is nothing left to flush.
Stream(F, U, k) ==
    /\ k \in 0 .. Len(F)
    /\ \A i \in DOMAIN F : F[i] = delimiter <=> i > k
    /\ \A i \in DOMAIN U : U[i] # delimiter
    /\ U # <<>> => k = Len(F)

\* Messages of e that are flushed and not read.
Ready(e) == pipe[e].msgs_written - pipe[Peer(e)].msgs_read - Len(unflushed[e])

\* Towards a peer that is there: the unread messages, then delimiters, which
\* only an end that writes no more sends.
StreamFits(e) ==
    Peer(e) \notin deleted =>
        /\ Stream(flushed[e], unflushed[e], Ready(e))
        /\ pipe[e].state = "active" => Ready(e) = Len(flushed[e])

\* Who has read the delimiter, or has acknowledged without haste, has read all
\* there will be.
AllRead(e) ==
    /\ pipe[e].state = "delimiter_received" => pipe[Peer(e)].state # "active"
    /\ pipe[e].state = "delimiter_received" \/ (pipe[e].state = "term_ack_sent" /\ e \notin hasty) =>
           pipe[e].msgs_read = pipe[Peer(e)].msgs_written

\* A sleeping reader has nothing to read; one that was called is being told.
Told(e) ==
    e \notin deleted =>
        /\ reader[e] = "asleep" => flushed[Peer(e)] = <<>>
        /\ reader[e] = "called" /\ pipe[e].state \in {"active", "waiting_for_delimiter"} =>
             \/ pc[Peer(e)] = "activate_read"
             \/ Has(commands[e], "activate_read")

EndsFit == \A e \in Ends : EndFits(e)
MailsFit == \A e \in Ends : MailFits(e)
AllCountsFit == \A e \in Ends : CountsFit(e)
CreditsFit == \A e \in Ends : CreditFits(e)
StreamsFit == \A e \in Ends : StreamFits(e)
AllReadFit == \A e \in Ends : AllRead(e)
WakeUpOnItsWay == \A e \in Ends : Told(e)

IInv == /\ TypeOK /\ EndsFit /\ MailsFit /\ AllCountsFit /\ CreditsFit /\ StreamsFit
        /\ AllReadFit /\ WakeUpOnItsWay
-----------------------------------------------------------------------------
\* There are two ends, each the other's peer.
LEMMA TwoEnds ==
    ASSUME NEW e \in Ends
    PROVE  /\ Peer(e) \in Ends /\ Peer(e) # e /\ Peer(Peer(e)) = e
           /\ \A x \in Ends : x = e \/ x = Peer(e)
<1>1. PICK a, b \in Ends : a # b /\ Ends = {a, b}
  BY PipesAssumption
<1>2. Peer(a) = b /\ Peer(b) = a
  BY <1>1 DEF Peer
<1> QED
  BY <1>1, <1>2

\* An end and its peer.
Pair(e, p) == p # e /\ Peer(e) = p /\ Peer(p) = e /\ \A x \in Ends : x = e \/ x = p

\* What a type-correct state says of one end.
LEMMA EndType ==
    ASSUME TypeOK, NEW e \in Ends
    PROVE  /\ pipe[e] \in PipeT
           /\ pipe[e].state \in States /\ pipe[e].delay \in BOOLEAN
           /\ pipe[e].in_active \in BOOLEAN /\ pipe[e].out_active \in BOOLEAN
           /\ pipe[e].outpipe \in BOOLEAN
           /\ pipe[e].msgs_read \in Nat /\ pipe[e].msgs_written \in Nat
           /\ pipe[e].peers_msgs_read \in Nat
           /\ unflushed[e] \in Seq(Nat) /\ flushed[e] \in Seq(Nat)
           /\ Len(unflushed[e]) \in Nat /\ Len(flushed[e]) \in Nat
           /\ commands[e] \in Seq(CommandT)
           /\ hwm[e] \in Nat
<1>1. pipe[e] \in PipeT /\ unflushed[e] \in Seq(Nat) /\ flushed[e] \in Seq(Nat)
  BY DEF TypeOK
<1>2. commands[e] \in Seq(CommandT) /\ hwm[e] \in Nat
  BY PipesAssumption DEF TypeOK
<1>3. Len(unflushed[e]) \in Nat /\ Len(flushed[e]) \in Nat
  BY <1>1
<1> QED
  BY <1>1, <1>2, <1>3 DEF PipeT


-----------------------------------------------------------------------------
\* Appending a command to a mailbox.
LEMMA MailAppend ==
    ASSUME NEW C \in Seq(CommandT), NEW c \in CommandT
    PROVE  /\ Append(C, c) \in Seq(CommandT)
           /\ \A name : Has(Append(C, c), name) <=> Has(C, name) \/ c.name = name
           /\ Orderly(C) /\ ~Has(C, "pipe_term_ack")
              /\ (c.name = "pipe_term" => ~Has(C, "pipe_term")) => Orderly(Append(C, c))
           /\ \A low, high \in Nat :
                Rising(C, low, high) /\ c.name # "activate_write" => Rising(Append(C, c), low, high)
           /\ \A low, high \in Nat :
                Rising(C, low, high) /\ low <= high /\ c.msgs_read = high + 1 =>
                    Rising(Append(C, c), low, high + 1)
<1> DEFINE D == Append(C, c)
<1>1. /\ D \in Seq(CommandT) /\ Len(D) = Len(C) + 1 /\ DOMAIN D = 1 .. Len(C) + 1
      /\ DOMAIN C = 1 .. Len(C) /\ Len(C) \in Nat
      /\ \A i \in DOMAIN C : D[i] = C[i]
      /\ D[Len(C) + 1] = c
  OBVIOUS
<1>d. \A i \in DOMAIN D : i \in DOMAIN C \/ i = Len(C) + 1
  BY <1>1
<1>i. DOMAIN C \subseteq DOMAIN D /\ Len(C) + 1 \in DOMAIN D
  BY <1>1
<1>m. \A i \in DOMAIN C : C[i].msgs_read \in Nat
  <2>1. \A i \in DOMAIN C : C[i] \in CommandT
    OBVIOUS
  <2> QED
    BY <2>1 DEF CommandT
<1> HIDE DEF D
<1>2. \A name : Has(D, name) <=> Has(C, name) \/ c.name = name
  BY <1>1, <1>d, <1>i DEF Has
<1>3. Orderly(C) /\ ~Has(C, "pipe_term_ack")
      /\ (c.name = "pipe_term" => ~Has(C, "pipe_term")) => Orderly(D)
  BY <1>1, <1>d DEF Has, Orderly
<1>4. ASSUME NEW low \in Nat, NEW high \in Nat, Rising(C, low, high), c.name # "activate_write"
      PROVE  Rising(D, low, high)
  BY <1>1, <1>d, <1>4 DEF Rising
<1>5. ASSUME NEW low \in Nat, NEW high \in Nat, Rising(C, low, high),
             low <= high, c.msgs_read = high + 1
      PROVE  Rising(D, low, high + 1)
  <2> SUFFICES ASSUME NEW i \in DOMAIN D, D[i].name = "activate_write"
               PROVE  /\ low <= D[i].msgs_read /\ D[i].msgs_read <= high + 1
                      /\ \A j \in DOMAIN D : i <= j /\ D[j].name = "activate_write" =>
                           D[i].msgs_read <= D[j].msgs_read
    BY DEF Rising
  <2>1. CASE i \in DOMAIN C
    <3>1. C[i].msgs_read \in Nat /\ low <= C[i].msgs_read /\ C[i].msgs_read <= high
      BY <2>1, <1>1, <1>m, <1>5 DEF Rising
    <3>2. \A j \in DOMAIN C : i <= j /\ C[j].name = "activate_write" =>
              C[i].msgs_read <= C[j].msgs_read
      BY <2>1, <1>1, <1>5 DEF Rising
    <3> QED
      BY <2>1, <3>1, <3>2, <1>1, <1>d, <1>5
  <2>2. CASE i = Len(C) + 1
    BY <2>2, <1>1, <1>d, <1>5
  <2> QED
    BY <2>1, <2>2, <1>d
<1> QED
  BY <1>1, <1>2, <1>3, <1>4, <1>5 DEF D

\* Counts in a mailbox to which a command is appended; a new count is the last
\* one if it is no less than the others.
LEMMA CountAppend ==
    ASSUME NEW C \in Seq(CommandT), NEW c \in CommandT
    PROVE  /\ \A n : HasCount(C, n) => HasCount(Append(C, c), n)
           /\ c.name = "activate_write" => HasCount(Append(C, c), c.msgs_read)
           /\ \A low, high \in Nat :
                Rising(C, low, high) /\ low <= high /\ high <= c.msgs_read =>
                    Rising(Append(C, c), low, c.msgs_read)
<1> DEFINE D == Append(C, c)
<1>1. /\ D \in Seq(CommandT) /\ Len(D) = Len(C) + 1 /\ DOMAIN D = 1 .. Len(C) + 1
      /\ DOMAIN C = 1 .. Len(C) /\ Len(C) \in Nat
      /\ \A i \in DOMAIN C : D[i] = C[i]
      /\ D[Len(C) + 1] = c
  OBVIOUS
<1>d. \A i \in DOMAIN D : i \in DOMAIN C \/ i = Len(C) + 1
  BY <1>1
<1>i. DOMAIN C \subseteq DOMAIN D /\ Len(C) + 1 \in DOMAIN D
  BY <1>1
<1>m. \A i \in DOMAIN C : C[i].msgs_read \in Nat
  <2>1. \A i \in DOMAIN C : C[i] \in CommandT
    OBVIOUS
  <2> QED
    BY <2>1 DEF CommandT
<1>n. c.msgs_read \in Nat
  BY DEF CommandT
<1> HIDE DEF D
<1>2. \A n : HasCount(C, n) => HasCount(D, n)
  BY <1>1, <1>i DEF HasCount
<1>3. c.name = "activate_write" => HasCount(D, c.msgs_read)
  BY <1>1, <1>i DEF HasCount
<1>4. ASSUME NEW low \in Nat, NEW high \in Nat, Rising(C, low, high), low <= high, high <= c.msgs_read
      PROVE  Rising(D, low, c.msgs_read)
  <2> SUFFICES ASSUME NEW i \in DOMAIN D, D[i].name = "activate_write"
               PROVE  /\ low <= D[i].msgs_read /\ D[i].msgs_read <= c.msgs_read
                      /\ \A j \in DOMAIN D : i <= j /\ D[j].name = "activate_write" =>
                           D[i].msgs_read <= D[j].msgs_read
    BY DEF Rising
  <2>1. CASE i \in DOMAIN C
    <3>1. C[i].msgs_read \in Nat /\ low <= C[i].msgs_read /\ C[i].msgs_read <= high
      BY <2>1, <1>1, <1>m, <1>4 DEF Rising
    <3>2. \A j \in DOMAIN C : i <= j /\ C[j].name = "activate_write" =>
              C[i].msgs_read <= C[j].msgs_read
      BY <2>1, <1>1, <1>4 DEF Rising
    <3>3. C[i].msgs_read <= c.msgs_read
      BY <3>1, <1>4, <1>n
    <3> QED
      BY <2>1, <3>1, <3>2, <3>3, <1>1, <1>d
  <2>2. CASE i = Len(C) + 1
    <3>1. low <= c.msgs_read
      BY <1>4, <1>n
    <3>2. \A j \in DOMAIN D : i <= j => j = i
      BY <2>2, <1>1
    <3> QED
      BY <2>2, <3>1, <3>2, <1>1, <1>n
  <2> QED
    BY <2>1, <2>2, <1>d
<1> QED
  BY <1>2, <1>3, <1>4 DEF D

\* Taking the oldest command from a mailbox.
LEMMA MailTail ==
    ASSUME NEW C \in Seq(CommandT), C # <<>>
    PROVE  /\ Head(C) \in CommandT /\ Tail(C) \in Seq(CommandT)
           /\ \A name : Has(C, name) <=> Has(Tail(C), name) \/ Head(C).name = name
           /\ Orderly(C) =>
                /\ Orderly(Tail(C))
                /\ Head(C).name = "pipe_term" => ~Has(Tail(C), "pipe_term")
                /\ Head(C).name = "pipe_term_ack" => Tail(C) = <<>>
           /\ \A low, high \in Nat : Rising(C, low, high) =>
                /\ Rising(Tail(C), low, high)
                /\ Head(C).name = "activate_write" =>
                     /\ low <= Head(C).msgs_read /\ Head(C).msgs_read <= high
                     /\ Rising(Tail(C), Head(C).msgs_read, high)
           /\ \A n : HasCount(C, n) =>
                \/ HasCount(Tail(C), n)
                \/ Head(C).name = "activate_write" /\ Head(C).msgs_read = n
<1> DEFINE D == Tail(C)
<1>0. /\ D \in Seq(CommandT) /\ Head(C) \in CommandT /\ Len(D) = Len(C) - 1
      /\ \A i \in 1 .. Len(D) : D[i] = C[i + 1]
  BY HeadTailProperties
<1>1. /\ D \in Seq(CommandT) /\ Head(C) \in CommandT /\ Len(D) = Len(C) - 1
      /\ Len(C) \in Nat \ {0}
      /\ DOMAIN D = 1 .. Len(C) - 1 /\ DOMAIN C = 1 .. Len(C)
      /\ \A i \in DOMAIN D : D[i] = C[i + 1]
      /\ Head(C) = C[1]
      /\ Len(C) = 1 => D = <<>>
  <2>1. Len(C) \in Nat \ {0} /\ DOMAIN C = 1 .. Len(C) /\ DOMAIN D = 1 .. Len(D)
    BY <1>0, EmptySeq, LenProperties
  <2>2. Len(C) = 1 => D = <<>>
    <3>1. D # <<>> => Len(D) \in Nat \ {0}
      BY <1>0, EmptySeq
    <3>2. Len(C) = 1 => Len(D) = 0
      BY <1>0, <2>1
    <3> QED
      BY <3>1, <3>2
  <2>3. Head(C) = C[1]
    BY <2>1
  <2> QED
    BY <1>0, <2>1, <2>2, <2>3
<1>d. /\ \A i \in DOMAIN D : i + 1 \in DOMAIN C /\ i + 1 # 1
      /\ \A i \in DOMAIN C : i = 1 \/ (i - 1 \in DOMAIN D /\ C[i] = D[i - 1])
      /\ 1 \in DOMAIN C
  BY <1>1
<1> HIDE DEF D
<1>2. \A name : Has(C, name) <=> Has(D, name) \/ Head(C).name = name
  BY <1>1, <1>d DEF Has
<1>3. ASSUME Orderly(C)
      PROVE  /\ Orderly(D)
             /\ Head(C).name = "pipe_term" => ~Has(D, "pipe_term")
             /\ Head(C).name = "pipe_term_ack" => D = <<>>
  <2>1. \A i, j \in DOMAIN D : D[i].name = "pipe_term" /\ D[j].name = "pipe_term" => i = j
    BY <1>1, <1>d, <1>3 DEF Orderly
  <2>2. \A i \in DOMAIN D : D[i].name = "pipe_term_ack" => i = Len(D)
    BY <1>1, <1>d, <1>3 DEF Orderly
  <2>3. Head(C).name = "pipe_term" => ~Has(D, "pipe_term")
    BY <1>1, <1>d, <1>3 DEF Orderly, Has
  <2>4. Head(C).name = "pipe_term_ack" => D = <<>>
    BY <1>1, <1>d, <1>3 DEF Orderly
  <2> QED
    BY <2>1, <2>2, <2>3, <2>4 DEF Orderly
<1>4. ASSUME NEW low \in Nat, NEW high \in Nat, Rising(C, low, high)
      PROVE  /\ Rising(D, low, high)
             /\ Head(C).name = "activate_write" =>
                  /\ low <= Head(C).msgs_read /\ Head(C).msgs_read <= high
                  /\ Rising(D, Head(C).msgs_read, high)
  <2>1. ASSUME NEW i \in DOMAIN D, D[i].name = "activate_write"
        PROVE  /\ low <= D[i].msgs_read /\ D[i].msgs_read <= high
               /\ \A j \in DOMAIN D : i <= j /\ D[j].name = "activate_write" =>
                    D[i].msgs_read <= D[j].msgs_read
    <3>1. i + 1 \in DOMAIN C /\ C[i + 1].name = "activate_write" /\ D[i] = C[i + 1]
      BY <2>1, <1>1, <1>d
    <3>2. ASSUME NEW j \in DOMAIN D, i <= j, D[j].name = "activate_write"
          PROVE  D[i].msgs_read <= D[j].msgs_read
      <4>1. j + 1 \in DOMAIN C /\ C[j + 1].name = "activate_write" /\ D[j] = C[j + 1] /\ i + 1 <= j + 1
        BY <3>2, <1>1, <1>d
      <4> QED
        BY <3>1, <4>1, <1>4 DEF Rising
    <3> QED
      BY <3>1, <3>2, <1>4 DEF Rising
  <2>2. Rising(D, low, high)
    BY <2>1 DEF Rising
  <2>3. ASSUME Head(C).name = "activate_write"
        PROVE  /\ low <= Head(C).msgs_read /\ Head(C).msgs_read <= high
               /\ Rising(D, Head(C).msgs_read, high)
    <3>1. low <= C[1].msgs_read /\ C[1].msgs_read <= high
      BY <2>3, <1>1, <1>d, <1>4 DEF Rising
    <3>2. ASSUME NEW i \in DOMAIN D, D[i].name = "activate_write"
          PROVE  C[1].msgs_read <= D[i].msgs_read
      <4>1. i + 1 \in DOMAIN C /\ C[i + 1].name = "activate_write" /\ D[i] = C[i + 1] /\ 1 <= i + 1
        BY <3>2, <1>1, <1>d
      <4> QED
        BY <4>1, <2>3, <1>1, <1>d, <1>4 DEF Rising
    <3> QED
      BY <3>1, <3>2, <2>1, <1>1 DEF Rising
  <2> QED
    BY <2>2, <2>3
<1>5. \A n : HasCount(C, n) =>
         \/ HasCount(D, n)
         \/ Head(C).name = "activate_write" /\ Head(C).msgs_read = n
  BY <1>1, <1>d DEF HasCount
<1> QED
  BY <1>1, <1>2, <1>3, <1>4, <1>5 DEF D

\* The low watermark is between 0 and the high one.
LEMMA LowWatermark ==
    ASSUME NEW e \in Ends, hwm[e] > 0
    PROVE  lwm(Peer(e)) \in Nat /\ lwm(Peer(e)) > 0 /\ lwm(Peer(e)) <= hwm[e]
<1> DEFINE h == hwm[e]
<1>1. h \in Nat /\ h > 0 /\ max_wm_delta \in Nat /\ max_wm_delta > 0
  BY PipesAssumption
<1>2. lwm(Peer(e)) = compute_lwm(h)
  BY TwoEnds DEF lwm
<1> HIDE DEF h
<1>3. compute_lwm(h) \in Nat /\ compute_lwm(h) > 0 /\ compute_lwm(h) <= h
  <2>1. CASE h > max_wm_delta * 2
    BY <1>1, <2>1 DEF compute_lwm
  <2>2. CASE ~(h > max_wm_delta * 2)
    <3>1. (h + 1) \div 2 \in Nat /\ (h + 1) \div 2 > 0 /\ (h + 1) \div 2 <= h
      BY <1>1
    <3> QED
      BY <2>2, <3>1 DEF compute_lwm
  <2> QED
    BY <2>1, <2>2
<1> QED
  BY <1>2, <1>3 DEF h

\* The first multiple after c, and when n is one.
LEMMA NextMultiple ==
    ASSUME NEW m \in Nat, m > 0, NEW c \in Nat, Multiple(c, m), NEW n \in Nat
    PROVE  /\ Multiple(c + m, m)
           /\ n % m = 0 => Multiple(n, m)
           /\ n = c + m => n % m = 0
<1>0. m \in Nat /\ m > 0
  OBVIOUS
<1>1. PICK q \in Nat : c = q * m
  BY DEF Multiple
<1>2. c + m = (q + 1) * m /\ q + 1 \in Nat
  BY <1>0, <1>1
<1>3. Multiple(c + m, m)
  BY <1>2 DEF Multiple
<1>4. ASSUME n % m = 0 PROVE Multiple(n, m)
  <2>1. n \div m \in Nat
    BY <1>0
  <2>2. n = m * (n \div m) + (n % m)
    BY <1>0
  <2>3. m * (n \div m) + 0 = (n \div m) * m
    BY <1>0, <2>1
  <2>4. n = (n \div m) * m
    BY <1>4, <2>2, <2>3
  <2> QED
    BY <2>1, <2>4 DEF Multiple
<1>5. n = c + m => n % m = 0
  <2>1. \A k \in Nat : (k * m) % m = 0
    BY <1>0
  <2> QED
    BY <1>2, <2>1
<1> QED
  BY <1>3, <1>4, <1>5

\* More was read than when the counts were sent.
LEMMA RisingWidens ==
    ASSUME NEW C \in Seq(CommandT), NEW low \in Nat, NEW high \in Nat, Rising(C, low, high)
    PROVE  Rising(C, low, high + 1)
<1>1. ASSUME NEW i \in DOMAIN C, C[i].name = "activate_write"
      PROVE  C[i].msgs_read <= high + 1
  <2>1. C[i] \in CommandT
    OBVIOUS
  <2>2. C[i].msgs_read \in Nat
    BY <2>1 DEF CommandT
  <2>3. C[i].msgs_read <= high
    BY <1>1 DEF Rising
  <2> QED
    BY <2>2, <2>3
<1> QED
  BY <1>1 DEF Rising

\* Writing a message that is not flushed yet.
LEMMA StreamWrite ==
    ASSUME NEW F \in Seq(Nat), NEW U \in Seq(Nat), Stream(F, U, Len(F)), NEW n \in Nat \ {0}
    PROVE  Stream(F, Append(U, n), Len(F))
<1> DEFINE V == Append(U, n)
<1>1. DOMAIN V = 1 .. Len(U) + 1 /\ V[Len(U) + 1] = n /\ \A i \in 1 .. Len(U) : V[i] = U[i]
  OBVIOUS
<1>2. Len(U) \in Nat /\ DOMAIN U = 1 .. Len(U)
  OBVIOUS
<1> HIDE DEF V
<1>3. \A i \in DOMAIN V : V[i] # delimiter
  BY <1>1, <1>2 DEF Stream, delimiter
<1> QED
  BY <1>3 DEF Stream, V

\* flush() of what was written.
LEMMA StreamFlush ==
    ASSUME NEW F \in Seq(Nat), NEW U \in Seq(Nat), NEW k \in Int, Stream(F, U, k)
    PROVE  /\ F \o U \in Seq(Nat) /\ Len(F \o U) = Len(F) + Len(U)
           /\ Stream(F \o U, <<>>, k + Len(U))
<1> DEFINE G == F \o U
           m == Len(F)
           n == Len(U)
<1>1. m \in Nat
  OBVIOUS
<1>2. n \in Nat
  OBVIOUS
<1>3. /\ G \in Seq(Nat) /\ Len(G) = m + n /\ DOMAIN G = 1 .. m + n
      /\ \A i \in 1 .. m + n : G[i] = IF i <= m THEN F[i] ELSE U[i - m]
  BY ConcatProperties, LenProperties
<1>4. DOMAIN F = 1 .. m /\ DOMAIN U = 1 .. n /\ (U = <<>> <=> n = 0)
  BY EmptySeq, LenProperties
<1>5. k >= 0 /\ k <= m /\ (n # 0 => k = m)
  <2>1. k >= 0 /\ k <= m
    BY <1>1 DEF Stream
  <2>2. U # <<>> => k = m
    BY DEF Stream
  <2> QED
    BY <2>1, <2>2, <1>4
<1>6. \A i \in 1 .. m : F[i] = delimiter <=> i > k
  BY <1>4 DEF Stream
<1>7. \A i \in 1 .. n : U[i] # delimiter
  BY <1>4 DEF Stream
<1> HIDE DEF G, m, n
<1>8. ASSUME NEW i \in 1 .. m + n PROVE G[i] = delimiter <=> i > k + n
  <2>1. CASE i <= m
    <3>1. i \in 1 .. m /\ i \in Int
      BY <2>1, <1>1, <1>2
    <3>2. G[i] = F[i]
      BY <2>1, <1>3
    <3>3. i > k <=> i > k + n
      BY <2>1, <3>1, <1>1, <1>2, <1>5
    <3> QED
      BY <3>1, <3>2, <3>3, <1>6
  <2>2. CASE ~(i <= m)
    <3>1. i - m \in 1 .. n /\ i \in Int
      BY <2>2, <1>1, <1>2
    <3>2. G[i] = U[i - m]
      BY <2>2, <1>3
    <3>3. n # 0
      BY <3>1, <1>2
    <3>4. k = m
      BY <3>3, <1>5
    <3>5. ~(i > k + n)
      BY <3>1, <3>4, <1>1, <1>2
    <3> QED
      BY <3>1, <3>2, <3>5, <1>7
  <2> QED
    BY <2>1, <2>2
<1>9. k + n \in 0 .. m + n
  BY <1>1, <1>2, <1>5
<1>10. Stream(G, <<>>, k + n)
  <2>1. k + n \in 0 .. Len(G) /\ \A i \in DOMAIN G : G[i] = delimiter <=> i > k + n
    BY <1>3, <1>8, <1>9
  <2> QED
    BY <2>1 DEF Stream
<1> QED
  BY <1>3, <1>10 DEF G, m, n

\* The delimiter after that.
LEMMA StreamDelimit ==
    ASSUME NEW F \in Seq(Nat), NEW k \in Int, Stream(F, <<>>, k)
    PROVE  /\ Append(F, delimiter) \in Seq(Nat)
           /\ Stream(Append(F, delimiter), <<>>, k)
<1> DEFINE G == Append(F, delimiter)
           m == Len(F)
<1>1. m \in Nat
  OBVIOUS
<1>2. /\ G \in Seq(Nat) /\ Len(G) = m + 1 /\ DOMAIN G = 1 .. m + 1
      /\ \A i \in 1 .. m : G[i] = F[i]
      /\ G[m + 1] = delimiter
  BY AppendProperties DEF delimiter
<1>3. DOMAIN F = 1 .. m
  BY LenProperties
<1>4. k >= 0 /\ k <= m
  BY <1>1 DEF Stream
<1>5. \A i \in 1 .. m : F[i] = delimiter <=> i > k
  BY <1>3 DEF Stream
<1> HIDE DEF G, m
<1>6. ASSUME NEW i \in 1 .. m + 1 PROVE G[i] = delimiter <=> i > k
  <2>1. CASE i \in 1 .. m
    BY <2>1, <1>2, <1>5
  <2>2. CASE i = m + 1
    <3>1. i > k
      BY <2>2, <1>1, <1>4
    <3> QED
      BY <2>2, <3>1, <1>2
  <2> QED
    BY <2>1, <2>2, <1>1
<1>7. k \in 0 .. Len(G)
  BY <1>1, <1>2, <1>4
<1>8. Stream(G, <<>>, k)
  BY <1>2, <1>6, <1>7 DEF Stream
<1> QED
  BY <1>2, <1>8 DEF G

\* Reading a message, or a delimiter: then nothing is left to read or to flush.
LEMMA StreamRead ==
    ASSUME NEW F \in Seq(Nat), NEW U \in Seq(Nat), NEW k \in Int, Stream(F, U, k), F # <<>>
    PROVE  /\ Tail(F) \in Seq(Nat) /\ Len(Tail(F)) = Len(F) - 1
           /\ Head(F) # delimiter => Stream(Tail(F), U, k - 1)
           /\ Head(F) = delimiter => k = 0 /\ U = <<>> /\ Stream(Tail(F), U, k)
<1> DEFINE G == Tail(F)
           m == Len(F)
<1>1. m \in Nat /\ m >= 1
  <2>1. m \in Nat /\ m # 0
    BY EmptySeq, LenProperties
  <2> QED
    BY <2>1
<1>2. G \in Seq(Nat) /\ Len(G) = m - 1 /\ \A i \in 1 .. Len(G) : G[i] = F[i + 1]
  BY HeadTailProperties
<1>3. DOMAIN G = 1 .. m - 1 /\ \A i \in 1 .. m - 1 : G[i] = F[i + 1]
  <2>1. DOMAIN G = 1 .. Len(G)
    BY <1>2, LenProperties
  <2> QED
    BY <2>1, <1>2
<1>4. Head(F) = F[1]
  OBVIOUS
<1>5. DOMAIN F = 1 .. m
  BY LenProperties
<1>6. k >= 0 /\ k <= m
  BY <1>1 DEF Stream
<1>7. U # <<>> => k = m
  BY DEF Stream
<1>8. \A i \in 1 .. m : F[i] = delimiter <=> i > k
  BY <1>5 DEF Stream
<1>9. \A i \in DOMAIN U : U[i] # delimiter
  BY DEF Stream
<1> HIDE DEF G, m
<1>10. Head(F) = delimiter <=> 1 > k
  <2>1. 1 \in 1 .. m
    BY <1>1
  <2> QED
    BY <2>1, <1>4, <1>8
<1>11. ASSUME NEW i \in 1 .. m - 1 PROVE G[i] = delimiter <=> i + 1 > k
  <2>1. i + 1 \in 1 .. m
    BY <1>1
  <2> QED
    BY <2>1, <1>3, <1>8
<1>12. ASSUME Head(F) # delimiter PROVE Stream(G, U, k - 1)
  <2>1. k - 1 >= 0 /\ k - 1 <= m - 1
    BY <1>1, <1>6, <1>10, <1>12
  <2>2. k - 1 \in 0 .. Len(G)
    BY <2>1, <1>1, <1>2
  <2>3. U # <<>> => k - 1 = Len(G)
    BY <1>7, <1>2
  <2>4. ASSUME NEW i \in DOMAIN G PROVE G[i] = delimiter <=> i > k - 1
    <3>1. i \in 1 .. m - 1 /\ i \in Int
      BY <1>3, <1>1
    <3>2. i + 1 > k <=> i > k - 1
      BY <3>1
    <3> QED
      BY <3>1, <3>2, <1>11
  <2> QED
    BY <2>2, <2>3, <2>4, <1>9 DEF Stream
<1>13. ASSUME Head(F) = delimiter PROVE k = 0 /\ U = <<>> /\ Stream(G, U, k)
  <2>1. k = 0
    BY <1>6, <1>10, <1>13
  <2>2. U = <<>>
    BY <2>1, <1>1, <1>7
  <2>3. k \in 0 .. Len(G)
    BY <2>1, <1>1, <1>2
  <2>4. ASSUME NEW i \in DOMAIN G PROVE G[i] = delimiter <=> i > k
    <3>1. i \in 1 .. m - 1 /\ i \in Int /\ i >= 1
      BY <1>3, <1>1
    <3>2. i + 1 > k /\ i > k
      BY <3>1, <2>1
    <3> QED
      BY <3>1, <3>2, <1>11
  <2> QED
    BY <2>1, <2>2, <2>3, <2>4, <1>9 DEF Stream
<1> QED
  BY <1>2, <1>12, <1>13 DEF G, m
-----------------------------------------------------------------------------
\* A message written.
LEMMA WriteInv ==
    ASSUME IInv, NEW e \in Ends, NEW p \in Ends, Pair(e, p),
           Write(e)
    PROVE  IInv'
<1>t. TypeOK /\ p # e /\ Peer(e) = p /\ Peer(p) = e
  BY DEF IInv, Pair
<1>i. /\ EndFits(e) /\ EndFits(p) /\ MailFits(e) /\ MailFits(p)
      /\ CountsFit(e) /\ CountsFit(p) /\ CreditFits(e) /\ CreditFits(p) /\ StreamFits(e) /\ StreamFits(p)
      /\ AllRead(e) /\ AllRead(p) /\ Told(e) /\ Told(p)
  BY DEF IInv, EndsFit, MailsFit, AllCountsFit, CreditsFit, StreamsFit, AllReadFit, WakeUpOnItsWay
<1>f. /\ pipe \in [Ends -> PipeT] /\ pipe[e] \in PipeT /\ pipe[p] \in PipeT
      /\ unflushed \in [Ends -> Seq(Nat)] /\ flushed \in [Ends -> Seq(Nat)]
      /\ reader \in [Ends -> {"active", "asleep", "called"}]
      /\ commands \in [Ends -> Seq(CommandT)]
      /\ pc \in [Ends -> {"idle", "activate_read", "delimit"}]
  BY <1>t, EndType DEF TypeOK
<1> DEFINE r == [pipe[e] EXCEPT !.msgs_written = pipe[e].msgs_written + 1]
<1>e. /\ pipe' = [pipe EXCEPT ![e] = r]
      /\ unflushed' = [unflushed EXCEPT ![e] = Append(@, pipe[e].msgs_written + 1)]
      /\ UNCHANGED <<flushed, reader, commands, pc, deleted, calls, hasty>>
      /\ pipe[e].state = "active" /\ pipe[e].out_active /\ e \notin deleted /\ ~Full(e)
  BY <1>t, <1>f DEF Write, Writable, Idle, ended
<1>n. (pipe[e].msgs_written + 1) \in Nat
  BY <1>f, <1>t DEF PipeT, States
<1>r. r \in PipeT
  BY <1>f, <1>n DEF PipeT
<1>g. /\ r.state = pipe[e].state
      /\ r.delay = pipe[e].delay
      /\ r.in_active = pipe[e].in_active
      /\ r.out_active = pipe[e].out_active
      /\ r.outpipe = pipe[e].outpipe
      /\ r.msgs_read = pipe[e].msgs_read
      /\ r.msgs_written = pipe[e].msgs_written + 1
      /\ r.peers_msgs_read = pipe[e].peers_msgs_read
  BY <1>f DEF PipeT
<1> HIDE DEF r
<1>h. pipe'[e] = r /\ pipe'[p] = pipe[p]
  BY <1>t, <1>f, <1>e
<1>u. /\ unflushed'[e] = Append(unflushed[e], pipe[e].msgs_written + 1) /\ unflushed'[p] = unflushed[p]
      /\ unflushed' \in [Ends -> Seq(Nat)]
  <2>1. pipe[e].msgs_written + 1 \in Nat
    BY <1>f DEF PipeT
  <2>2. Append(unflushed[e], pipe[e].msgs_written + 1) \in Seq(Nat)
    BY <2>1, <1>f
  <2> QED
    BY <2>2, <1>t, <1>f, <1>e
<1>T. TypeOK'
  BY <1>t, <1>f, <1>e, <1>r, <1>u DEF TypeOK
<1>E. EndFits(e)' /\ EndFits(p)'
  BY <1>t, <1>i, <1>e, <1>g, <1>h DEF EndFits, Asked, WasAsked, Acked
<1>M. MailFits(e)' /\ MailFits(p)'
  BY <1>t, <1>i, <1>e, <1>g, <1>h DEF MailFits, Asked, WasAsked, Acked
<1>C. CountsFit(e)' /\ CountsFit(p)'
  <2>1. hwm[e] \in Nat /\ pipe[e].msgs_written \in Nat /\ pipe[e].peers_msgs_read \in Nat
    BY <1>t, EndType
  <2>2. hwm[e] > 0 => pipe[e].msgs_written + 1 - pipe[e].peers_msgs_read <= hwm[e]
    BY <2>1, <1>i, <1>e DEF CountsFit, Full
  <2>3. CountsFit(e)'
    <3>1. /\ pipe'[e].msgs_written = pipe[e].msgs_written + 1
          /\ pipe'[e].peers_msgs_read = pipe[e].peers_msgs_read
          /\ pipe'[p] = pipe[p] /\ commands' = commands
      BY <1>e, <1>g, <1>h
    <3>2. /\ pipe[e].peers_msgs_read <= pipe[p].msgs_read
          /\ Rising(commands[e], pipe[e].peers_msgs_read, pipe[p].msgs_read)
      BY <1>t, <1>i DEF CountsFit
    <3>3. hwm[e] > 0 => pipe'[e].msgs_written - pipe'[e].peers_msgs_read <= hwm[e]
      BY <3>1, <2>1, <2>2
    <3> QED
      BY <3>1, <3>2, <3>3, <1>t DEF CountsFit
  <2>4. CountsFit(p)'
    BY <1>t, <1>i, <1>e, <1>g, <1>h DEF CountsFit
  <2> QED
    BY <2>3, <2>4
<1>K. CreditFits(e)' /\ CreditFits(p)'
  BY <1>t, <1>i, <1>e, <1>g, <1>h DEF CreditFits, Credit
<1>S. StreamFits(e)' /\ StreamFits(p)'
  <2>1. ASSUME p \notin deleted PROVE StreamFits(e)'
    <3>1. Ready(e) = Len(flushed[e]) /\ Stream(flushed[e], unflushed[e], Len(flushed[e]))
      BY <2>1, <1>t, <1>i, <1>e DEF StreamFits
    <3>2. Stream(flushed[e], unflushed'[e], Len(flushed[e]))
      <4>1. pipe[e].msgs_written + 1 \in Nat \ {0} /\ flushed[e] \in Seq(Nat) /\ unflushed[e] \in Seq(Nat)
        BY <1>f, <1>t, EndType
      <4> QED
        BY <3>1, <4>1, <1>u, StreamWrite
    <3>3. Ready(e)' = Ready(e)
      <4>1. Len(unflushed'[e]) = Len(unflushed[e]) + 1 /\ Len(unflushed[e]) \in Nat
        BY <1>u, <1>f
      <4>2. pipe[e].msgs_written \in Nat /\ pipe[p].msgs_read \in Nat
        BY <1>t, EndType
      <4>3. pipe'[e].msgs_written = pipe[e].msgs_written + 1 /\ pipe'[p] = pipe[p]
        BY <1>g, <1>h
      <4>4. Ready(e) = pipe[e].msgs_written - pipe[p].msgs_read - Len(unflushed[e])
        BY <1>t DEF Ready
      <4>5. Ready(e)' = pipe'[e].msgs_written - pipe'[p].msgs_read - Len(unflushed'[e])
        BY <1>t DEF Ready
      <4> QED
        <5>1. \A a, b, c \in Nat : (a + 1) - b - (c + 1) = a - b - c
          OBVIOUS
        <5>2. Ready(e)' = (pipe[e].msgs_written + 1) - pipe[p].msgs_read - (Len(unflushed[e]) + 1)
          BY <4>1, <4>3, <4>5
        <5> QED
          BY <5>1, <5>2, <4>1, <4>2, <4>4
    <3> QED
      BY <3>1, <3>2, <3>3, <1>t, <1>e DEF StreamFits
  <2>2. p \in deleted => StreamFits(e)'
    BY <1>t, <1>e DEF StreamFits
  <2>3. StreamFits(p)'
    BY <1>t, <1>i, <1>e, <1>g, <1>h, <1>u DEF StreamFits, Ready
  <2> QED
    BY <2>1, <2>2, <2>3
<1>R. AllRead(e)' /\ AllRead(p)'
  <2>1. pipe[p].state \notin {"delimiter_received", "term_ack_sent"}
    BY <1>t, <1>i, <1>e DEF AllRead, EndFits, Asked, WasAsked
  <2> QED
    BY <2>1, <1>t, <1>i, <1>e, <1>g, <1>h DEF AllRead
<1>W. Told(e)' /\ Told(p)'
  BY <1>t, <1>i, <1>e, <1>g, <1>h DEF Told
<1> QED
  BY <1>T, <1>E, <1>M, <1>C, <1>K, <1>S, <1>R, <1>W
  DEF Pair, IInv, EndsFit, MailsFit, AllCountsFit, CreditsFit, StreamsFit, AllReadFit, WakeUpOnItsWay

\* A writer stopped at the high watermark.
LEMMA StopInv ==
    ASSUME IInv, NEW e \in Ends, NEW p \in Ends, Pair(e, p),
           Stop(e)
    PROVE  IInv'
<1>t. TypeOK /\ p # e /\ Peer(e) = p /\ Peer(p) = e
  BY DEF IInv, Pair
<1>i. /\ EndFits(e) /\ EndFits(p) /\ MailFits(e) /\ MailFits(p)
      /\ CountsFit(e) /\ CountsFit(p) /\ CreditFits(e) /\ CreditFits(p) /\ StreamFits(e) /\ StreamFits(p)
      /\ AllRead(e) /\ AllRead(p) /\ Told(e) /\ Told(p)
  BY DEF IInv, EndsFit, MailsFit, AllCountsFit, CreditsFit, StreamsFit, AllReadFit, WakeUpOnItsWay
<1>f. /\ pipe \in [Ends -> PipeT] /\ pipe[e] \in PipeT /\ pipe[p] \in PipeT
      /\ unflushed \in [Ends -> Seq(Nat)] /\ flushed \in [Ends -> Seq(Nat)]
      /\ reader \in [Ends -> {"active", "asleep", "called"}]
      /\ commands \in [Ends -> Seq(CommandT)]
      /\ pc \in [Ends -> {"idle", "activate_read", "delimit"}]
  BY <1>t, EndType DEF TypeOK
<1> DEFINE r == [pipe[e] EXCEPT !.out_active = FALSE]
<1>e. /\ pipe' = [pipe EXCEPT ![e] = r]
      /\ UNCHANGED <<unflushed, flushed, reader, commands, pc, deleted, calls, hasty>>
      /\ Full(e)
  BY <1>t, <1>f DEF Stop, ended, flow
<1>n. (FALSE) \in BOOLEAN
  BY <1>f, <1>t DEF PipeT, States
<1>r. r \in PipeT
  BY <1>f, <1>n DEF PipeT
<1>g. /\ r.state = pipe[e].state
      /\ r.delay = pipe[e].delay
      /\ r.in_active = pipe[e].in_active
      /\ r.out_active = FALSE
      /\ r.outpipe = pipe[e].outpipe
      /\ r.msgs_read = pipe[e].msgs_read
      /\ r.msgs_written = pipe[e].msgs_written
      /\ r.peers_msgs_read = pipe[e].peers_msgs_read
  BY <1>f DEF PipeT
<1> HIDE DEF r
<1>h. pipe'[e] = r /\ pipe'[p] = pipe[p]
  BY <1>t, <1>f, <1>e
<1>T. TypeOK'
  BY <1>t, <1>f, <1>e, <1>r DEF TypeOK
<1>E. EndFits(e)' /\ EndFits(p)'
  BY <1>t, <1>i, <1>e, <1>g, <1>h DEF EndFits, Asked, WasAsked, Acked
<1>M. MailFits(e)' /\ MailFits(p)'
  BY <1>t, <1>i, <1>e, <1>g, <1>h DEF MailFits, Asked, WasAsked, Acked
<1>C. CountsFit(e)' /\ CountsFit(p)'
  BY <1>t, <1>i, <1>e, <1>g, <1>h DEF CountsFit
<1>K. CreditFits(e)' /\ CreditFits(p)'
  BY <1>t, <1>i, <1>e, <1>g, <1>h DEF CreditFits, Credit, Full
<1>S. StreamFits(e)' /\ StreamFits(p)'
  BY <1>t, <1>i, <1>e, <1>g, <1>h DEF StreamFits, Ready
<1>R. AllRead(e)' /\ AllRead(p)'
  BY <1>t, <1>i, <1>e, <1>g, <1>h DEF AllRead
<1>W. Told(e)' /\ Told(p)'
  BY <1>t, <1>i, <1>e, <1>g, <1>h DEF Told
<1> QED
  BY <1>T, <1>E, <1>M, <1>C, <1>K, <1>S, <1>R, <1>W
  DEF Pair, IInv, EndsFit, MailsFit, AllCountsFit, CreditsFit, StreamsFit, AllReadFit, WakeUpOnItsWay

\* A flush, by the writer or by terminate(), which adds the delimiter.
LEMMA FlushInv ==
    ASSUME IInv, NEW e \in Ends, NEW p \in Ends, Pair(e, p), NEW items \in {<<>>, <<delimiter>>},
           FlushWith(e, items), UNCHANGED <<pipe, commands, deleted, ended>>,
           pc[e] # "activate_read", ~Acked(e), items = <<delimiter>> => pipe[e].state # "active"
    PROVE  IInv'
<1>t. TypeOK /\ p # e /\ Peer(e) = p /\ Peer(p) = e
  BY DEF IInv, Pair
<1>i. /\ EndFits(e) /\ EndFits(p) /\ MailFits(e) /\ MailFits(p)
      /\ CountsFit(e) /\ CountsFit(p) /\ CreditFits(e) /\ CreditFits(p) /\ StreamFits(e) /\ StreamFits(p)
      /\ AllRead(e) /\ AllRead(p) /\ Told(e) /\ Told(p)
  BY DEF IInv, EndsFit, MailsFit, AllCountsFit, CreditsFit, StreamsFit, AllReadFit, WakeUpOnItsWay
<1>f. /\ pipe \in [Ends -> PipeT] /\ pipe[e] \in PipeT /\ pipe[p] \in PipeT
      /\ unflushed \in [Ends -> Seq(Nat)] /\ flushed \in [Ends -> Seq(Nat)]
      /\ reader \in [Ends -> {"active", "asleep", "called"}]
      /\ commands \in [Ends -> Seq(CommandT)]
      /\ pc \in [Ends -> {"idle", "activate_read", "delimit"}]
  BY <1>t, EndType DEF TypeOK
<1>e. /\ flushed' = [flushed EXCEPT ![e] = @ \o unflushed[e] \o items]
      /\ unflushed' = [unflushed EXCEPT ![e] = <<>>]
      /\ UNCHANGED <<pipe, commands, deleted, calls, hasty>>
      /\ \/ /\ reader[p] = "asleep" /\ reader'[p] = "called" /\ reader'[e] = reader[e]
            /\ pc'[e] = "activate_read" /\ pc'[p] = pc[p]
            /\ reader' \in [Ends -> {"active", "asleep", "called"}]
            /\ pc' \in [Ends -> {"idle", "activate_read", "delimit"}]
         \/ /\ reader[p] # "asleep" /\ reader' = reader
            /\ pc'[e] = "idle" /\ pc'[p] = pc[p]
            /\ pc' \in [Ends -> {"idle", "activate_read", "delimit"}]
  BY <1>t, <1>f DEF FlushWith, ended
<1>u. unflushed'[e] = <<>> /\ unflushed'[p] = unflushed[p] /\ unflushed' \in [Ends -> Seq(Nat)]
  <2>1. <<>> \in Seq(Nat)
    OBVIOUS
  <2> QED
    BY <2>1, <1>t, <1>f, <1>e
<1>v. /\ flushed[e] \in Seq(Nat) /\ unflushed[e] \in Seq(Nat)
      /\ flushed[e] \o unflushed[e] \in Seq(Nat)
  BY <1>f
<1>w. /\ flushed[e] \o unflushed[e] \o items \in Seq(Nat)
      /\ items = <<>> => flushed[e] \o unflushed[e] \o items = flushed[e] \o unflushed[e]
      /\ items = <<delimiter>> =>
           flushed[e] \o unflushed[e] \o items = Append(flushed[e] \o unflushed[e], delimiter)
  <2>1. CASE items = <<>>
    BY <2>1, <1>v, ConcatEmptySeq DEF delimiter
  <2>2. CASE items = <<delimiter>>
    <3>1. delimiter \in Nat
      BY DEF delimiter
    <3>2. Append(flushed[e] \o unflushed[e], delimiter) = flushed[e] \o unflushed[e] \o items
      BY <2>2, <3>1, <1>v, AppendIsConcat
    <3> QED
      BY <2>2, <3>1, <3>2, <1>v
  <2> QED
    BY <2>1, <2>2
<1>x. /\ flushed'[e] = flushed[e] \o unflushed[e] \o items /\ flushed'[p] = flushed[p]
      /\ flushed' \in [Ends -> Seq(Nat)]
  BY <1>t, <1>f, <1>e, <1>w
<1>T. TypeOK'
  BY <1>t, <1>f, <1>e, <1>u, <1>x DEF TypeOK
<1>E. EndFits(e)' /\ EndFits(p)'
  BY <1>t, <1>i, <1>e DEF EndFits, Asked, WasAsked, Acked
<1>M. MailFits(e)' /\ MailFits(p)'
  BY <1>t, <1>i, <1>e DEF MailFits, Asked, WasAsked, Acked
<1>C. CountsFit(e)' /\ CountsFit(p)'
  BY <1>t, <1>i, <1>e DEF CountsFit
<1>K. CreditFits(e)' /\ CreditFits(p)'
  BY <1>t, <1>i, <1>e DEF CreditFits, Credit
<1>S. StreamFits(e)' /\ StreamFits(p)'
  <2>1. ASSUME p \notin deleted PROVE StreamFits(e)'
    <3>1. Stream(flushed[e], unflushed[e], Ready(e)) /\ Ready(e) \in Int
      BY <2>1, <1>t, <1>i, EndType DEF StreamFits, Ready
    <3>2. /\ Stream(flushed[e] \o unflushed[e], <<>>, Ready(e) + Len(unflushed[e]))
          /\ Len(flushed[e] \o unflushed[e]) = Len(flushed[e]) + Len(unflushed[e])
      BY <3>1, <1>v, StreamFlush
    <3>3. Ready(e)' = Ready(e) + Len(unflushed[e])
      <4>1. pipe[e].msgs_written \in Nat /\ pipe[p].msgs_read \in Nat /\ Len(unflushed[e]) \in Nat
        BY <1>t, EndType
      <4>2. Len(unflushed'[e]) = 0
        BY <1>u
      <4> QED
        BY <4>1, <4>2, <1>t, <1>e DEF Ready
    <3>4. Stream(flushed'[e], <<>>, Ready(e)')
      <4>1. CASE items = <<>>
        BY <4>1, <3>2, <3>3, <1>w, <1>x
      <4>2. CASE items = <<delimiter>>
        <5>1. Ready(e) + Len(unflushed[e]) \in Int
          BY <3>1, <1>t, EndType
        <5> QED
          BY <4>2, <5>1, <3>2, <3>3, <1>v, <1>w, <1>x, StreamDelimit
      <4> QED
        BY <4>1, <4>2
    <3>5. pipe[e].state = "active" => Ready(e)' = Len(flushed'[e])
      <4>1. ASSUME pipe[e].state = "active" PROVE flushed'[e] = flushed[e] \o unflushed[e] /\ Ready(e) = Len(flushed[e])
        BY <4>1, <2>1, <1>t, <1>i, <1>w, <1>x DEF StreamFits
      <4> QED
        BY <4>1, <3>2, <3>3
    <3> QED
      BY <3>4, <3>5, <1>t, <1>e, <1>u DEF StreamFits
  <2>2. p \in deleted => StreamFits(e)'
    BY <1>t, <1>e DEF StreamFits
  <2>3. StreamFits(p)'
    BY <1>t, <1>i, <1>e, <1>u, <1>x DEF StreamFits, Ready
  <2> QED
    BY <2>1, <2>2, <2>3
<1>R. AllRead(e)' /\ AllRead(p)'
  BY <1>t, <1>i, <1>e DEF AllRead
<1>W. Told(e)' /\ Told(p)'
  <2>1. Told(e)'
    BY <1>t, <1>i, <1>e, <1>x DEF Told
  <2>2. Told(p)'
    BY <1>t, <1>i, <1>e, <1>x DEF Told
  <2> QED
    BY <2>1, <2>2
<1> QED
  BY <1>T, <1>E, <1>M, <1>C, <1>K, <1>S, <1>R, <1>W
  DEF Pair, IInv, EndsFit, MailsFit, AllCountsFit, CreditsFit, StreamsFit, AllReadFit, WakeUpOnItsWay

\* The command that wakes the reader.
LEMMA ActivateReadInv ==
    ASSUME IInv, NEW e \in Ends, NEW p \in Ends, Pair(e, p),
           ActivateRead(e)
    PROVE  IInv'
<1>t. TypeOK /\ p # e /\ Peer(e) = p /\ Peer(p) = e
  BY DEF IInv, Pair
<1>i. /\ EndFits(e) /\ EndFits(p) /\ MailFits(e) /\ MailFits(p)
      /\ CountsFit(e) /\ CountsFit(p) /\ CreditFits(e) /\ CreditFits(p) /\ StreamFits(e) /\ StreamFits(p)
      /\ AllRead(e) /\ AllRead(p) /\ Told(e) /\ Told(p)
  BY DEF IInv, EndsFit, MailsFit, AllCountsFit, CreditsFit, StreamsFit, AllReadFit, WakeUpOnItsWay
<1>f. /\ pipe \in [Ends -> PipeT] /\ pipe[e] \in PipeT /\ pipe[p] \in PipeT
      /\ unflushed \in [Ends -> Seq(Nat)] /\ flushed \in [Ends -> Seq(Nat)]
      /\ reader \in [Ends -> {"active", "asleep", "called"}]
      /\ commands \in [Ends -> Seq(CommandT)]
      /\ pc \in [Ends -> {"idle", "activate_read", "delimit"}]
  BY <1>t, EndType DEF TypeOK
<1>e. /\ commands' = Sent(e, Command("activate_read", 0))
      /\ pc' = [pc EXCEPT ![e] = "idle"] /\ pc[e] = "activate_read"
      /\ UNCHANGED <<pipe, unflushed, flushed, reader, deleted, calls, hasty>>
  BY <1>t, <1>f DEF ActivateRead, Send, ended, flow
<1>c. /\ commands'[p] = Append(commands[p], Command("activate_read", 0)) /\ commands'[e] = commands[e]
      /\ commands' \in [Ends -> Seq(CommandT)] /\ Command("activate_read", 0) \in CommandT /\ commands[p] \in Seq(CommandT)
  <2>1. Command("activate_read", 0) \in CommandT /\ commands[p] \in Seq(CommandT)
    BY <1>f DEF CommandT, Command, Names
  <2>2. Append(commands[p], Command("activate_read", 0)) \in Seq(CommandT)
    BY <2>1
  <2> QED
    BY <2>1, <2>2, <1>t, <1>f, <1>e DEF Sent
<1>q. p \notin deleted /\ ~Acked(e) /\ ~Has(commands[p], "pipe_term_ack") /\ Orderly(commands[p])
  BY <1>t, <1>i, <1>e DEF EndFits, MailFits
<1>d. /\ \A n : Has(commands'[p], n) <=> Has(commands[p], n) \/ n = "activate_read"
      /\ Orderly(commands'[p])
      /\ \A low, high \in Nat : Rising(commands[p], low, high) => Rising(commands'[p], low, high)
      /\ \A n : HasCount(commands[p], n) => HasCount(commands'[p], n)
  BY <1>c, <1>q, MailAppend, CountAppend DEF Command
<1>T. TypeOK'
  BY <1>t, <1>f, <1>e, <1>c DEF TypeOK
<1>E. EndFits(e)' /\ EndFits(p)'
  BY <1>t, <1>i, <1>e DEF EndFits, Asked, WasAsked, Acked
<1>M. MailFits(e)' /\ MailFits(p)'
  BY <1>t, <1>i, <1>e, <1>c, <1>d, <1>q DEF MailFits, Asked, WasAsked, Acked
<1>C. CountsFit(e)' /\ CountsFit(p)'
  <2>1. pipe[p].peers_msgs_read \in Nat /\ pipe[e].msgs_read \in Nat
    BY <1>t, EndType
  <2> QED
    BY <2>1, <1>t, <1>i, <1>e, <1>c, <1>d DEF CountsFit
<1>K. CreditFits(e)' /\ CreditFits(p)'
  <2>1. pipe[p].peers_msgs_read \in Nat
    BY <1>t, EndType
  <2>2. CreditFits(e)'
    BY <1>t, <1>i, <1>e, <1>c DEF CreditFits, Credit
  <2>3. CreditFits(p)'
    BY <2>1, <1>t, <1>i, <1>e, <1>c, <1>d DEF CreditFits, Credit
  <2> QED
    BY <2>2, <2>3
<1>S. StreamFits(e)' /\ StreamFits(p)'
  BY <1>t, <1>i, <1>e DEF StreamFits, Ready
<1>R. AllRead(e)' /\ AllRead(p)'
  BY <1>t, <1>i, <1>e DEF AllRead
<1>W. Told(e)' /\ Told(p)'
  BY <1>t, <1>i, <1>e, <1>c, <1>d DEF Told
<1> QED
  BY <1>T, <1>E, <1>M, <1>C, <1>K, <1>S, <1>R, <1>W
  DEF Pair, IInv, EndsFit, MailsFit, AllCountsFit, CreditsFit, StreamsFit, AllReadFit, WakeUpOnItsWay

\* A read that finds nothing.
LEMMA ReadNothingInv ==
    ASSUME IInv, NEW e \in Ends, NEW p \in Ends, Pair(e, p),
           ReadNothing(e)
    PROVE  IInv'
<1>t. TypeOK /\ p # e /\ Peer(e) = p /\ Peer(p) = e
  BY DEF IInv, Pair
<1>i. /\ EndFits(e) /\ EndFits(p) /\ MailFits(e) /\ MailFits(p)
      /\ CountsFit(e) /\ CountsFit(p) /\ CreditFits(e) /\ CreditFits(p) /\ StreamFits(e) /\ StreamFits(p)
      /\ AllRead(e) /\ AllRead(p) /\ Told(e) /\ Told(p)
  BY DEF IInv, EndsFit, MailsFit, AllCountsFit, CreditsFit, StreamsFit, AllReadFit, WakeUpOnItsWay
<1>f. /\ pipe \in [Ends -> PipeT] /\ pipe[e] \in PipeT /\ pipe[p] \in PipeT
      /\ unflushed \in [Ends -> Seq(Nat)] /\ flushed \in [Ends -> Seq(Nat)]
      /\ reader \in [Ends -> {"active", "asleep", "called"}]
      /\ commands \in [Ends -> Seq(CommandT)]
      /\ pc \in [Ends -> {"idle", "activate_read", "delimit"}]
  BY <1>t, EndType DEF TypeOK
<1> DEFINE r == [pipe[e] EXCEPT !.in_active = FALSE]
<1>e. /\ pipe' = [pipe EXCEPT ![e] = r]
      /\ reader' = [reader EXCEPT ![e] = "asleep"]
      /\ flushed[p] = <<>>
      /\ UNCHANGED <<unflushed, flushed, commands, pc, deleted, calls, hasty>>
  BY <1>t, <1>f DEF ReadNothing, ended
<1>n. (FALSE) \in BOOLEAN
  BY <1>f, <1>t DEF PipeT, States
<1>r. r \in PipeT
  BY <1>f, <1>n DEF PipeT
<1>g. /\ r.state = pipe[e].state
      /\ r.delay = pipe[e].delay
      /\ r.in_active = FALSE
      /\ r.out_active = pipe[e].out_active
      /\ r.outpipe = pipe[e].outpipe
      /\ r.msgs_read = pipe[e].msgs_read
      /\ r.msgs_written = pipe[e].msgs_written
      /\ r.peers_msgs_read = pipe[e].peers_msgs_read
  BY <1>f DEF PipeT
<1> HIDE DEF r
<1>h. pipe'[e] = r /\ pipe'[p] = pipe[p]
  BY <1>t, <1>f, <1>e
<1>T. TypeOK'
  BY <1>t, <1>f, <1>e, <1>r DEF TypeOK
<1>E. EndFits(e)' /\ EndFits(p)'
  BY <1>t, <1>i, <1>e, <1>g, <1>h, <1>f DEF EndFits, Asked, WasAsked, Acked
<1>M. MailFits(e)' /\ MailFits(p)'
  BY <1>t, <1>i, <1>e, <1>g, <1>h DEF MailFits, Asked, WasAsked, Acked
<1>C. CountsFit(e)' /\ CountsFit(p)'
  BY <1>t, <1>i, <1>e, <1>g, <1>h DEF CountsFit
<1>K. CreditFits(e)' /\ CreditFits(p)'
  BY <1>t, <1>i, <1>e, <1>g, <1>h DEF CreditFits, Credit
<1>S. StreamFits(e)' /\ StreamFits(p)'
  BY <1>t, <1>i, <1>e, <1>g, <1>h DEF StreamFits, Ready
<1>R. AllRead(e)' /\ AllRead(p)'
  BY <1>t, <1>i, <1>e, <1>g, <1>h DEF AllRead
<1>W. Told(e)' /\ Told(p)'
  BY <1>t, <1>i, <1>e, <1>g, <1>h, <1>f DEF Told
<1> QED
  BY <1>T, <1>E, <1>M, <1>C, <1>K, <1>S, <1>R, <1>W
  DEF Pair, IInv, EndsFit, MailsFit, AllCountsFit, CreditsFit, StreamsFit, AllReadFit, WakeUpOnItsWay

\* A message read, and the count sent back at the low watermark.
LEMMA ReadMessageInv ==
    ASSUME IInv, NEW e \in Ends, NEW p \in Ends, Pair(e, p),
           ReadMessage(e)
    PROVE  IInv'
<1>t. TypeOK /\ p # e /\ Peer(e) = p /\ Peer(p) = e
  BY DEF IInv, Pair
<1>i. /\ EndFits(e) /\ EndFits(p) /\ MailFits(e) /\ MailFits(p)
      /\ CountsFit(e) /\ CountsFit(p) /\ CreditFits(e) /\ CreditFits(p) /\ StreamFits(e) /\ StreamFits(p)
      /\ AllRead(e) /\ AllRead(p) /\ Told(e) /\ Told(p)
  BY DEF IInv, EndsFit, MailsFit, AllCountsFit, CreditsFit, StreamsFit, AllReadFit, WakeUpOnItsWay
<1>f. /\ pipe \in [Ends -> PipeT] /\ pipe[e] \in PipeT /\ pipe[p] \in PipeT
      /\ unflushed \in [Ends -> Seq(Nat)] /\ flushed \in [Ends -> Seq(Nat)]
      /\ reader \in [Ends -> {"active", "asleep", "called"}]
      /\ commands \in [Ends -> Seq(CommandT)]
      /\ pc \in [Ends -> {"idle", "activate_read", "delimit"}]
  BY <1>t, EndType DEF TypeOK
<1> DEFINE r == [pipe[e] EXCEPT !.msgs_read = pipe[e].msgs_read + 1]
<1>e. /\ pipe' = [pipe EXCEPT ![e] = r]
      /\ flushed' = [flushed EXCEPT ![p] = Tail(@)] /\ flushed[p] # <<>> /\ Head(flushed[p]) # delimiter
      /\ commands' = IF lwm(e) > 0 /\ (pipe[e].msgs_read + 1) % lwm(e) = 0
                     THEN Sent(e, Command("activate_write", pipe[e].msgs_read + 1)) ELSE commands
      /\ UNCHANGED <<unflushed, reader, pc, deleted, calls, hasty>>
      /\ e \notin deleted /\ pipe[e].state \in {"active", "waiting_for_delimiter"} /\ pipe[e].in_active
  BY <1>t, <1>f DEF ReadMessage, Readable, Idle, ended
<1>n. (pipe[e].msgs_read + 1) \in Nat
  BY <1>f, <1>t DEF PipeT, States
<1>r. r \in PipeT
  BY <1>f, <1>n DEF PipeT
<1>g. /\ r.state = pipe[e].state
      /\ r.delay = pipe[e].delay
      /\ r.in_active = pipe[e].in_active
      /\ r.out_active = pipe[e].out_active
      /\ r.outpipe = pipe[e].outpipe
      /\ r.msgs_read = pipe[e].msgs_read + 1
      /\ r.msgs_written = pipe[e].msgs_written
      /\ r.peers_msgs_read = pipe[e].peers_msgs_read
  BY <1>f DEF PipeT
<1> HIDE DEF r
<1>h. pipe'[e] = r /\ pipe'[p] = pipe[p]
  BY <1>t, <1>f, <1>e
<1>q. p \notin deleted /\ ~Acked(e) /\ ~Has(commands[p], "pipe_term_ack") /\ Orderly(commands[p])
  BY <1>t, <1>i, <1>e DEF EndFits, MailFits, Acked
<1>k. /\ pipe[p].peers_msgs_read \in Nat /\ pipe[e].msgs_read \in Nat
      /\ pipe[p].peers_msgs_read <= pipe[e].msgs_read
      /\ Rising(commands[p], pipe[p].peers_msgs_read, pipe[e].msgs_read)
  BY <1>t, <1>i, EndType DEF CountsFit
<1>c. /\ commands'[e] = commands[e] /\ commands' \in [Ends -> Seq(CommandT)]
      /\ \A n : n # "activate_write" => (Has(commands'[p], n) <=> Has(commands[p], n))
      /\ Orderly(commands'[p])
      /\ Rising(commands'[p], pipe[p].peers_msgs_read, pipe[e].msgs_read + 1)
  <2>0. commands[p] \in Seq(CommandT)
    BY <1>f
  <2>1. CASE commands' = commands
    <3>1. Rising(commands[p], pipe[p].peers_msgs_read, pipe[e].msgs_read + 1)
      BY <2>0, <1>k, RisingWidens
    <3> QED
      BY <2>1, <3>1, <1>f, <1>q
  <2>2. CASE commands' = Sent(e, Command("activate_write", pipe[e].msgs_read + 1))
    <3>1. Command("activate_write", pipe[e].msgs_read + 1) \in CommandT
      BY <1>k DEF CommandT, Command, Names
    <3>2. Append(commands[p], Command("activate_write", pipe[e].msgs_read + 1)) \in Seq(CommandT)
      BY <2>0, <3>1
    <3>3. /\ commands'[p] = Append(commands[p], Command("activate_write", pipe[e].msgs_read + 1)) /\ commands'[e] = commands[e]
          /\ commands' \in [Ends -> Seq(CommandT)]
      BY <2>2, <3>2, <1>t, <1>f DEF Sent
    <3>4. Command("activate_write", pipe[e].msgs_read + 1).name = "activate_write" /\ Command("activate_write", pipe[e].msgs_read + 1).msgs_read = pipe[e].msgs_read + 1
      BY DEF Command
    <3>5. /\ \A n : Has(commands'[p], n) <=> Has(commands[p], n) \/ "activate_write" = n
          /\ Orderly(commands'[p])
      BY <2>0, <3>1, <3>3, <3>4, <1>q, MailAppend
    <3>6. Rising(commands'[p], pipe[p].peers_msgs_read, pipe[e].msgs_read + 1)
      BY <2>0, <3>1, <3>3, <3>4, <1>k, MailAppend
    <3> QED
      BY <3>3, <3>5, <3>6
  <2> QED
    BY <2>1, <2>2, <1>e
<1>x. /\ flushed'[p] = Tail(flushed[p]) /\ flushed'[e] = flushed[e] /\ flushed' \in [Ends -> Seq(Nat)]
  <2>1. Tail(flushed[p]) \in Seq(Nat)
    BY <1>f, <1>e
  <2> QED
    BY <2>1, <1>t, <1>f, <1>e
<1>T. TypeOK'
  BY <1>t, <1>f, <1>e, <1>r, <1>c, <1>x DEF TypeOK
<1>E. EndFits(e)' /\ EndFits(p)'
  BY <1>t, <1>i, <1>e, <1>g, <1>h DEF EndFits, Asked, WasAsked, Acked
<1>M. MailFits(e)' /\ MailFits(p)'
  <2>1. MailFits(e)'
    BY <1>t, <1>i, <1>e, <1>g, <1>h, <1>c DEF MailFits, Asked, WasAsked, Acked
  <2>2. /\ Has(commands'[p], "pipe_term") <=> Has(commands[p], "pipe_term")
        /\ Has(commands'[p], "pipe_term_ack") <=> Has(commands[p], "pipe_term_ack")
        /\ Orderly(commands'[p])
    BY <1>c
  <2>3. /\ pipe'[e].state = pipe[e].state /\ pipe'[p] = pipe[p] /\ deleted' = deleted
    BY <1>e, <1>g, <1>h
  <2>4. /\ Has(commands[p], "pipe_term") <=> Asked(e) /\ ~WasAsked(p)
        /\ Has(commands[p], "pipe_term_ack") <=> Acked(e) /\ p \notin deleted
    BY <1>t, <1>i DEF MailFits
  <2>5. MailFits(p)'
    BY <2>2, <2>3, <2>4, <1>t, <1>q DEF MailFits, Asked, WasAsked, Acked
  <2> QED
    BY <2>1, <2>5
<1>C. CountsFit(e)' /\ CountsFit(p)'
  <2>1. CountsFit(e)'
    BY <1>t, <1>i, <1>g, <1>h, <1>c DEF CountsFit
  <2>2. /\ pipe'[p] = pipe[p] /\ pipe'[e].msgs_read = pipe[e].msgs_read + 1
    BY <1>g, <1>h
  <2>3. pipe[p].peers_msgs_read <= pipe[e].msgs_read + 1
    BY <1>k
  <2>4. CountsFit(p)'
    BY <2>2, <2>3, <1>t, <1>i, <1>c DEF CountsFit
  <2> QED
    BY <2>1, <2>4
<1>K. CreditFits(e)' /\ CreditFits(p)'
  <2>1. CreditFits(e)'
    BY <1>t, <1>i, <1>g, <1>h, <1>c DEF CreditFits, Credit
  <2> DEFINE n == pipe[e].msgs_read + 1
             low == pipe[p].peers_msgs_read
             m == lwm(e)
  <2>2. ASSUME hwm[p] > 0 PROVE \E d \in Nat : Credit(p, d)'
    <3>1. PICK d \in Nat : Credit(p, d)
      BY <2>2, <1>i DEF CreditFits
    <3>2. /\ Multiple(d, m) /\ d <= pipe[e].msgs_read /\ pipe[e].msgs_read < d + m
          /\ Rising(commands[p], low, d) /\ (d = low \/ HasCount(commands[p], d))
      BY <3>1, <1>t DEF Credit
    <3>3. m \in Nat /\ m > 0
      BY <2>2, <1>t, LowWatermark
    <3>4. low \in Nat /\ pipe[e].msgs_read \in Nat /\ n \in Nat /\ commands[p] \in Seq(CommandT)
      BY <1>k, <1>f
    <3>5. pipe'[e].msgs_read = n /\ pipe'[p].peers_msgs_read = low
      BY <1>g, <1>h
    <3>6. CASE n % m = 0
      <4>1. commands'[p] = Append(commands[p], Command("activate_write", pipe[e].msgs_read + 1))
        <5>1. commands' = Sent(e, Command("activate_write", pipe[e].msgs_read + 1))
          BY <3>3, <3>6, <1>e
        <5> QED
          BY <5>1, <1>t, <1>f DEF Sent
      <4>2. Command("activate_write", pipe[e].msgs_read + 1) \in CommandT /\ Command("activate_write", pipe[e].msgs_read + 1).name = "activate_write" /\ Command("activate_write", pipe[e].msgs_read + 1).msgs_read = n
        BY <3>4 DEF CommandT, Command, Names
      <4>3. low <= d
        BY <3>2, <3>4 DEF HasCount, Rising
      <4>4. d <= n
        BY <3>2, <3>4
      <4>5. Rising(commands'[p], low, n) /\ HasCount(commands'[p], n)
        BY <3>2, <3>4, <4>1, <4>2, <4>3, <4>4, CountAppend
      <4>6. Multiple(n, m)
        BY <3>2, <3>3, <3>4, <3>6, NextMultiple
      <4>7. n <= n /\ n < n + m
        BY <3>3, <3>4
      <4>8. PICK c \in Nat : c = n
        BY <3>4
      <4>9. Credit(p, c)'
        <5>1. /\ Multiple(c, m) /\ c <= n /\ n < c + m
              /\ Rising(commands'[p], low, c) /\ HasCount(commands'[p], c)
          BY <4>5, <4>6, <4>7, <4>8
        <5> QED
          BY <3>5, <5>1, <1>t DEF Credit
      <4> QED
        BY <4>9
    <3>7. CASE n % m # 0
      <4>1. commands' = commands
        BY <3>7, <1>e
      <4>2. n # d + m
        BY <3>2, <3>3, <3>4, <3>7, NextMultiple
      <4>3. d <= n /\ n < d + m
        <5>1. d <= pipe[e].msgs_read /\ pipe[e].msgs_read < d + m
          BY <3>2
        <5> QED
          BY <5>1, <4>2, <3>3, <3>4
      <4>4. Credit(p, d)'
        BY <3>2, <3>5, <4>1, <4>3, <1>t DEF Credit
      <4> QED
        BY <4>4
    <3> QED
      BY <3>6, <3>7
  <2>3. CreditFits(p)'
    BY <2>2, <1>t, <1>i, <1>h DEF CreditFits
  <2> QED
    BY <2>1, <2>3
<1>S. StreamFits(e)' /\ StreamFits(p)'
  <2>1. StreamFits(e)'
    BY <1>t, <1>i, <1>e, <1>g, <1>h, <1>x DEF StreamFits, Ready
  <2>2. Stream(flushed[p], unflushed[p], Ready(p)) /\ (pipe[p].state = "active" => Ready(p) = Len(flushed[p]))
    BY <1>t, <1>i, <1>e DEF StreamFits
  <2>3. flushed[p] \in Seq(Nat) /\ unflushed[p] \in Seq(Nat) /\ Len(flushed[p]) \in Nat /\ Ready(p) \in Int
    BY <1>t, EndType DEF Ready
  <2>4. Stream(Tail(flushed[p]), unflushed[p], Ready(p) - 1) /\ Len(Tail(flushed[p])) = Len(flushed[p]) - 1
    BY <2>2, <2>3, <1>e, StreamRead
  <2>5. Ready(p)' = Ready(p) - 1
    <3>1. pipe[p].msgs_written \in Nat /\ pipe[e].msgs_read \in Nat /\ Len(unflushed[p]) \in Nat
      BY <1>t, EndType
    <3>2. pipe'[p] = pipe[p] /\ pipe'[e].msgs_read = pipe[e].msgs_read + 1 /\ unflushed' = unflushed
      BY <1>e, <1>g, <1>h
    <3>3. Ready(p) = pipe[p].msgs_written - pipe[e].msgs_read - Len(unflushed[p])
      BY <1>t DEF Ready
    <3>4. Ready(p)' = pipe'[p].msgs_written - pipe'[e].msgs_read - Len(unflushed'[p])
      BY <1>t DEF Ready
    <3> QED
      BY <3>1, <3>2, <3>3, <3>4
  <2>6. pipe[p].state = "active" => Ready(p)' = Len(Tail(flushed[p]))
    BY <2>2, <2>4, <2>5
  <2>7. StreamFits(p)'
    BY <2>4, <2>5, <2>6, <1>t, <1>e, <1>h, <1>x DEF StreamFits
  <2> QED
    BY <2>1, <2>7
<1>R. AllRead(e)' /\ AllRead(p)'
  BY <1>t, <1>i, <1>e, <1>g, <1>h DEF AllRead
<1>W. Told(e)' /\ Told(p)'
  BY <1>t, <1>i, <1>e, <1>g, <1>h, <1>c, <1>x DEF Told, EndFits
<1> QED
  BY <1>T, <1>E, <1>M, <1>C, <1>K, <1>S, <1>R, <1>W
  DEF Pair, IInv, EndsFit, MailsFit, AllCountsFit, CreditsFit, StreamsFit, AllReadFit, WakeUpOnItsWay

\* The delimiter read before a request has come.
LEMMA DelimiterFirstInv ==
    ASSUME IInv, NEW e \in Ends, NEW p \in Ends, Pair(e, p),
           ReadDelimiter(e), pipe[e].state = "active"
    PROVE  IInv'
<1>t. TypeOK /\ p # e /\ Peer(e) = p /\ Peer(p) = e
  BY DEF IInv, Pair
<1>i. /\ EndFits(e) /\ EndFits(p) /\ MailFits(e) /\ MailFits(p)
      /\ CountsFit(e) /\ CountsFit(p) /\ CreditFits(e) /\ CreditFits(p) /\ StreamFits(e) /\ StreamFits(p)
      /\ AllRead(e) /\ AllRead(p) /\ Told(e) /\ Told(p)
  BY DEF IInv, EndsFit, MailsFit, AllCountsFit, CreditsFit, StreamsFit, AllReadFit, WakeUpOnItsWay
<1>f. /\ pipe \in [Ends -> PipeT] /\ pipe[e] \in PipeT /\ pipe[p] \in PipeT
      /\ unflushed \in [Ends -> Seq(Nat)] /\ flushed \in [Ends -> Seq(Nat)]
      /\ reader \in [Ends -> {"active", "asleep", "called"}]
      /\ commands \in [Ends -> Seq(CommandT)]
      /\ pc \in [Ends -> {"idle", "activate_read", "delimit"}]
  BY <1>t, EndType DEF TypeOK
<1> DEFINE r == [pipe[e] EXCEPT !.state = "delimiter_received"]
<1>e. /\ pipe' = [pipe EXCEPT ![e] = r]
      /\ flushed' = [flushed EXCEPT ![p] = Tail(@)] /\ flushed[p] # <<>> /\ Head(flushed[p]) = delimiter
      /\ UNCHANGED <<unflushed, reader, commands, pc, deleted, calls, hasty>>
      /\ e \notin deleted /\ pc[e] = "idle" /\ pipe[e].state = "active" /\ pipe[e].in_active
  BY <1>t, <1>f DEF ReadDelimiter, Readable, Idle, ended
<1>n. ("delimiter_received") \in States
  BY <1>f, <1>t DEF PipeT, States
<1>r. r \in PipeT
  BY <1>f, <1>n DEF PipeT
<1>g. /\ r.state = "delimiter_received"
      /\ r.delay = pipe[e].delay
      /\ r.in_active = pipe[e].in_active
      /\ r.out_active = pipe[e].out_active
      /\ r.outpipe = pipe[e].outpipe
      /\ r.msgs_read = pipe[e].msgs_read
      /\ r.msgs_written = pipe[e].msgs_written
      /\ r.peers_msgs_read = pipe[e].peers_msgs_read
  BY <1>f DEF PipeT
<1> HIDE DEF r
<1>h. pipe'[e] = r /\ pipe'[p] = pipe[p]
  BY <1>t, <1>f, <1>e
<1>x. /\ flushed'[p] = Tail(flushed[p]) /\ flushed'[e] = flushed[e] /\ flushed' \in [Ends -> Seq(Nat)]
  <2>1. Tail(flushed[p]) \in Seq(Nat)
    BY <1>f, <1>e
  <2> QED
    BY <2>1, <1>t, <1>f, <1>e
<1>z. /\ Ready(p) = 0 /\ pipe[e].msgs_read = pipe[p].msgs_written /\ pipe[p].state # "active"
      /\ Stream(Tail(flushed[p]), unflushed[p], 0)
  <2>1. Stream(flushed[p], unflushed[p], Ready(p)) /\ (pipe[p].state = "active" => Ready(p) = Len(flushed[p]))
    BY <1>t, <1>i, <1>e DEF StreamFits
  <2>2. flushed[p] \in Seq(Nat) /\ unflushed[p] \in Seq(Nat) /\ Ready(p) \in Int
    BY <1>t, EndType DEF Ready
  <2>3. Ready(p) = 0 /\ unflushed[p] = <<>> /\ Stream(Tail(flushed[p]), unflushed[p], Ready(p))
    BY <2>1, <2>2, <1>e, StreamRead
  <2>4. pipe[p].state # "active"
    BY <2>1, <2>2, <2>3, <1>e, EmptySeq
  <2>5. pipe[e].msgs_read = pipe[p].msgs_written
    <3>1. pipe[p].msgs_written \in Nat /\ pipe[e].msgs_read \in Nat
      BY <1>t, EndType
    <3>2. Len(unflushed[p]) = 0
      BY <2>3
    <3>3. pipe[p].msgs_written - pipe[e].msgs_read - 0 = 0
      BY <2>3, <3>2, <1>t DEF Ready
    <3> QED
      BY <3>1, <3>3
  <2> QED
    BY <2>3, <2>4, <2>5
<1>T. TypeOK'
  BY <1>t, <1>f, <1>e, <1>r, <1>x DEF TypeOK
<1>E. EndFits(e)' /\ EndFits(p)'
  BY <1>t, <1>i, <1>e, <1>g, <1>h DEF EndFits, Asked, WasAsked, Acked
<1>M. MailFits(e)' /\ MailFits(p)'
  BY <1>t, <1>i, <1>e, <1>g, <1>h DEF MailFits, Asked, WasAsked, Acked
<1>C. CountsFit(e)' /\ CountsFit(p)'
  BY <1>t, <1>i, <1>e, <1>g, <1>h DEF CountsFit
<1>K. CreditFits(e)' /\ CreditFits(p)'
  BY <1>t, <1>i, <1>e, <1>g, <1>h DEF CreditFits, Credit
<1>S. StreamFits(e)' /\ StreamFits(p)'
  <2>1. StreamFits(e)'
    BY <1>t, <1>i, <1>e, <1>g, <1>h, <1>x DEF StreamFits, Ready
  <2>2. Ready(p)' = Ready(p)
    BY <1>t, <1>e, <1>g, <1>h DEF Ready
  <2>3. StreamFits(p)'
    BY <2>2, <1>t, <1>e, <1>h, <1>x, <1>z DEF StreamFits
  <2> QED
    BY <2>1, <2>3
<1>R. AllRead(e)' /\ AllRead(p)'
  BY <1>t, <1>i, <1>e, <1>g, <1>h, <1>z DEF AllRead
<1>W. Told(e)' /\ Told(p)'
  <2>1. Told(e)'
    BY <1>t, <1>i, <1>e, <1>g, <1>h, <1>x DEF Told, EndFits
  <2>2. Told(p)'
    BY <1>t, <1>i, <1>e, <1>g, <1>h, <1>x DEF Told
  <2> QED
    BY <2>1, <2>2
<1> QED
  BY <1>T, <1>E, <1>M, <1>C, <1>K, <1>S, <1>R, <1>W
  DEF Pair, IInv, EndsFit, MailsFit, AllCountsFit, CreditsFit, StreamsFit, AllReadFit, WakeUpOnItsWay

\* The delimiter read by an end that was asked to terminate.
LEMMA DelimiterLastInv ==
    ASSUME IInv, NEW e \in Ends, NEW p \in Ends, Pair(e, p),
           ReadDelimiter(e), pipe[e].state = "waiting_for_delimiter"
    PROVE  IInv'
<1>t. TypeOK /\ p # e /\ Peer(e) = p /\ Peer(p) = e
  BY DEF IInv, Pair
<1>i. /\ EndFits(e) /\ EndFits(p) /\ MailFits(e) /\ MailFits(p)
      /\ CountsFit(e) /\ CountsFit(p) /\ CreditFits(e) /\ CreditFits(p) /\ StreamFits(e) /\ StreamFits(p)
      /\ AllRead(e) /\ AllRead(p) /\ Told(e) /\ Told(p)
  BY DEF IInv, EndsFit, MailsFit, AllCountsFit, CreditsFit, StreamsFit, AllReadFit, WakeUpOnItsWay
<1>f. /\ pipe \in [Ends -> PipeT] /\ pipe[e] \in PipeT /\ pipe[p] \in PipeT
      /\ unflushed \in [Ends -> Seq(Nat)] /\ flushed \in [Ends -> Seq(Nat)]
      /\ reader \in [Ends -> {"active", "asleep", "called"}]
      /\ commands \in [Ends -> Seq(CommandT)]
      /\ pc \in [Ends -> {"idle", "activate_read", "delimit"}]
  BY <1>t, EndType DEF TypeOK
<1> DEFINE r == [pipe[e] EXCEPT !.state = "term_ack_sent", !.outpipe = FALSE]
<1>e. /\ pipe' = [pipe EXCEPT ![e] = r]
      /\ flushed' = [flushed EXCEPT ![p] = Tail(@)] /\ flushed[p] # <<>> /\ Head(flushed[p]) = delimiter
      /\ commands' = Sent(e, Command("pipe_term_ack", 0))
      /\ UNCHANGED <<unflushed, reader, pc, deleted, calls, hasty>>
      /\ e \notin deleted /\ pc[e] = "idle" /\ pipe[e].state = "waiting_for_delimiter" /\ pipe[e].in_active
  BY <1>t, <1>f DEF ReadDelimiter, Readable, Idle, Send, ended
<1>n. ("term_ack_sent") \in States /\ (FALSE) \in BOOLEAN
  BY <1>f, <1>t DEF PipeT, States
<1>r. r \in PipeT
  BY <1>f, <1>n DEF PipeT
<1>g. /\ r.state = "term_ack_sent"
      /\ r.delay = pipe[e].delay
      /\ r.in_active = pipe[e].in_active
      /\ r.out_active = pipe[e].out_active
      /\ r.outpipe = FALSE
      /\ r.msgs_read = pipe[e].msgs_read
      /\ r.msgs_written = pipe[e].msgs_written
      /\ r.peers_msgs_read = pipe[e].peers_msgs_read
  BY <1>f DEF PipeT
<1> HIDE DEF r
<1>h. pipe'[e] = r /\ pipe'[p] = pipe[p]
  BY <1>t, <1>f, <1>e
<1>x. /\ flushed'[p] = Tail(flushed[p]) /\ flushed'[e] = flushed[e] /\ flushed' \in [Ends -> Seq(Nat)]
  <2>1. Tail(flushed[p]) \in Seq(Nat)
    BY <1>f, <1>e
  <2> QED
    BY <2>1, <1>t, <1>f, <1>e
<1>z. /\ Ready(p) = 0 /\ pipe[e].msgs_read = pipe[p].msgs_written /\ pipe[p].state # "active"
      /\ Stream(Tail(flushed[p]), unflushed[p], 0)
  <2>1. Stream(flushed[p], unflushed[p], Ready(p)) /\ (pipe[p].state = "active" => Ready(p) = Len(flushed[p]))
    BY <1>t, <1>i, <1>e DEF StreamFits
  <2>2. flushed[p] \in Seq(Nat) /\ unflushed[p] \in Seq(Nat) /\ Ready(p) \in Int
    BY <1>t, EndType DEF Ready
  <2>3. Ready(p) = 0 /\ unflushed[p] = <<>> /\ Stream(Tail(flushed[p]), unflushed[p], Ready(p))
    BY <2>1, <2>2, <1>e, StreamRead
  <2>4. pipe[p].state # "active"
    BY <2>1, <2>2, <2>3, <1>e, EmptySeq
  <2>5. pipe[e].msgs_read = pipe[p].msgs_written
    <3>1. pipe[p].msgs_written \in Nat /\ pipe[e].msgs_read \in Nat
      BY <1>t, EndType
    <3>2. Len(unflushed[p]) = 0
      BY <2>3
    <3>3. pipe[p].msgs_written - pipe[e].msgs_read - 0 = 0
      BY <2>3, <3>2, <1>t DEF Ready
    <3> QED
      BY <3>1, <3>3
  <2> QED
    BY <2>3, <2>4, <2>5
<1>c. /\ commands'[p] = Append(commands[p], Command("pipe_term_ack", 0)) /\ commands'[e] = commands[e]
      /\ commands' \in [Ends -> Seq(CommandT)] /\ Command("pipe_term_ack", 0) \in CommandT /\ commands[p] \in Seq(CommandT)
  <2>1. Command("pipe_term_ack", 0) \in CommandT /\ commands[p] \in Seq(CommandT)
    BY <1>f DEF CommandT, Command, Names
  <2>2. Append(commands[p], Command("pipe_term_ack", 0)) \in Seq(CommandT)
    BY <2>1
  <2> QED
    BY <2>1, <2>2, <1>t, <1>f, <1>e DEF Sent
<1>q. p \notin deleted /\ ~Acked(e) /\ ~Has(commands[p], "pipe_term_ack") /\ Orderly(commands[p])
  BY <1>t, <1>i, <1>e DEF EndFits, MailFits, Acked
<1>d. /\ \A n : Has(commands'[p], n) <=> Has(commands[p], n) \/ n = "pipe_term_ack"
      /\ Orderly(commands'[p])
      /\ \A low, high \in Nat : Rising(commands[p], low, high) => Rising(commands'[p], low, high)
      /\ \A n : HasCount(commands[p], n) => HasCount(commands'[p], n)
  BY <1>c, <1>q, MailAppend, CountAppend DEF Command
<1>T. TypeOK'
  BY <1>t, <1>f, <1>e, <1>r, <1>c, <1>x DEF TypeOK
<1>E. EndFits(e)' /\ EndFits(p)'
  BY <1>t, <1>i, <1>e, <1>g, <1>h, <1>q DEF EndFits, Asked, WasAsked, Acked
<1>M. MailFits(e)' /\ MailFits(p)'
  <2>1. MailFits(e)'
    BY <1>t, <1>i, <1>e, <1>g, <1>h, <1>c, <1>q DEF MailFits, Asked, WasAsked, Acked
  <2>2. MailFits(p)'
    BY <1>t, <1>i, <1>e, <1>g, <1>h, <1>c, <1>d, <1>q DEF MailFits, Asked, WasAsked, Acked
  <2> QED
    BY <2>1, <2>2
<1>C. CountsFit(e)' /\ CountsFit(p)'
  <2>1. pipe[p].peers_msgs_read \in Nat /\ pipe[e].msgs_read \in Nat
    BY <1>t, EndType
  <2>2. CountsFit(e)'
    BY <1>t, <1>i, <1>e, <1>g, <1>h, <1>c DEF CountsFit
  <2>3. CountsFit(p)'
    BY <2>1, <1>t, <1>i, <1>e, <1>g, <1>h, <1>c, <1>d DEF CountsFit
  <2> QED
    BY <2>2, <2>3
<1>K. CreditFits(e)' /\ CreditFits(p)'
  <2>1. pipe[p].peers_msgs_read \in Nat
    BY <1>t, EndType
  <2>2. CreditFits(e)'
    BY <1>t, <1>i, <1>e, <1>g, <1>h, <1>c DEF CreditFits, Credit
  <2>3. CreditFits(p)'
    BY <2>1, <1>t, <1>i, <1>e, <1>g, <1>h, <1>c, <1>d DEF CreditFits, Credit
  <2> QED
    BY <2>2, <2>3
<1>S. StreamFits(e)' /\ StreamFits(p)'
  <2>1. StreamFits(e)'
    BY <1>t, <1>i, <1>e, <1>g, <1>h, <1>x DEF StreamFits, Ready
  <2>2. Ready(p)' = Ready(p)
    BY <1>t, <1>e, <1>g, <1>h DEF Ready
  <2>3. StreamFits(p)'
    BY <2>2, <1>t, <1>e, <1>h, <1>x, <1>z DEF StreamFits
  <2> QED
    BY <2>1, <2>3
<1>R. AllRead(e)' /\ AllRead(p)'
  BY <1>t, <1>i, <1>e, <1>g, <1>h, <1>z DEF AllRead
<1>W. Told(e)' /\ Told(p)'
  <2>1. Told(e)'
    BY <1>t, <1>i, <1>e, <1>g, <1>h, <1>x, <1>c DEF Told, EndFits
  <2>2. Told(p)'
    BY <1>t, <1>i, <1>e, <1>g, <1>h, <1>x, <1>c, <1>d DEF Told
  <2> QED
    BY <2>1, <2>2
<1> QED
  BY <1>T, <1>E, <1>M, <1>C, <1>K, <1>S, <1>R, <1>W
  DEF Pair, IInv, EndsFit, MailsFit, AllCountsFit, CreditsFit, StreamsFit, AllReadFit, WakeUpOnItsWay

\* A wake-up taken by a reader that sleeps.
LEMMA WokenInv ==
    ASSUME IInv, NEW e \in Ends, NEW p \in Ends, Pair(e, p),
           process_activate_read(e), ~pipe[e].in_active,
           pipe[e].state \in {"active", "waiting_for_delimiter"}
    PROVE  IInv'
<1>t. TypeOK /\ p # e /\ Peer(e) = p /\ Peer(p) = e
  BY DEF IInv, Pair
<1>i. /\ EndFits(e) /\ EndFits(p) /\ MailFits(e) /\ MailFits(p)
      /\ CountsFit(e) /\ CountsFit(p) /\ CreditFits(e) /\ CreditFits(p) /\ StreamFits(e) /\ StreamFits(p)
      /\ AllRead(e) /\ AllRead(p) /\ Told(e) /\ Told(p)
  BY DEF IInv, EndsFit, MailsFit, AllCountsFit, CreditsFit, StreamsFit, AllReadFit, WakeUpOnItsWay
<1>f. /\ pipe \in [Ends -> PipeT] /\ pipe[e] \in PipeT /\ pipe[p] \in PipeT
      /\ unflushed \in [Ends -> Seq(Nat)] /\ flushed \in [Ends -> Seq(Nat)]
      /\ reader \in [Ends -> {"active", "asleep", "called"}]
      /\ commands \in [Ends -> Seq(CommandT)]
      /\ pc \in [Ends -> {"idle", "activate_read", "delimit"}]
  BY <1>t, EndType DEF TypeOK
<1> DEFINE r == [pipe[e] EXCEPT !.in_active = TRUE]
<1>e. /\ pipe' = [pipe EXCEPT ![e] = r]
      /\ reader' = [reader EXCEPT ![e] = "active"]
      /\ commands' = Taken(e) /\ commands[e] # <<>> /\ Head(commands[e]).name = "activate_read"
      /\ e \notin deleted /\ pc[e] = "idle"
      /\ UNCHANGED <<unflushed, flushed, pc, deleted, calls, hasty>>
  BY <1>t, <1>f DEF process_activate_read, Takes, Idle, ended
<1>n. (TRUE) \in BOOLEAN
  BY <1>f, <1>t DEF PipeT, States
<1>r. r \in PipeT
  BY <1>f, <1>n DEF PipeT
<1>g. /\ r.state = pipe[e].state
      /\ r.delay = pipe[e].delay
      /\ r.in_active = TRUE
      /\ r.out_active = pipe[e].out_active
      /\ r.outpipe = pipe[e].outpipe
      /\ r.msgs_read = pipe[e].msgs_read
      /\ r.msgs_written = pipe[e].msgs_written
      /\ r.peers_msgs_read = pipe[e].peers_msgs_read
  BY <1>f DEF PipeT
<1> HIDE DEF r
<1>h. pipe'[e] = r /\ pipe'[p] = pipe[p]
  BY <1>t, <1>f, <1>e
<1>c. /\ commands'[e] = Tail(commands[e]) /\ commands'[p] = commands[p]
      /\ commands' \in [Ends -> Seq(CommandT)]
      /\ commands[e] \in Seq(CommandT) /\ commands[e] # <<>> /\ Head(commands[e]).name = "activate_read"
  <2>1. Tail(commands[e]) \in Seq(CommandT)
    BY <1>f, <1>e
  <2> QED
    BY <2>1, <1>t, <1>f, <1>e DEF Taken
<1>d. /\ \A n : Has(commands[e], n) <=> Has(commands'[e], n) \/ n = "activate_read"
      /\ Orderly(commands'[e])
  BY <1>c, <1>i, MailTail DEF MailFits
<1>T. TypeOK'
  BY <1>t, <1>f, <1>e, <1>r, <1>c DEF TypeOK
<1>E. EndFits(e)' /\ EndFits(p)'
  BY <1>t, <1>i, <1>e, <1>g, <1>h, <1>f DEF EndFits, Asked, WasAsked, Acked
<1>M. MailFits(e)' /\ MailFits(p)'
  <2>1. MailFits(e)'
    BY <1>t, <1>i, <1>e, <1>g, <1>h, <1>c, <1>d DEF MailFits, Asked, WasAsked, Acked
  <2>2. MailFits(p)'
    BY <1>t, <1>i, <1>e, <1>g, <1>h, <1>c, <1>d DEF MailFits, Asked, WasAsked, Acked
  <2> QED
    BY <2>1, <2>2
<1>C. CountsFit(e)' /\ CountsFit(p)'
  <2>1. pipe[e].peers_msgs_read \in Nat /\ pipe[p].msgs_read \in Nat
    BY <1>t, EndType
  <2>2. Rising(commands[e], pipe[e].peers_msgs_read, pipe[p].msgs_read)
    BY <1>t, <1>i DEF CountsFit
  <2>3. Rising(commands'[e], pipe[e].peers_msgs_read, pipe[p].msgs_read)
    BY <2>1, <2>2, <1>c, MailTail
  <2>4. CountsFit(e)'
    BY <2>3, <1>t, <1>i, <1>e, <1>g, <1>h DEF CountsFit
  <2>5. CountsFit(p)'
    BY <1>t, <1>i, <1>e, <1>g, <1>h, <1>c DEF CountsFit
  <2> QED
    BY <2>4, <2>5
<1>K. CreditFits(e)' /\ CreditFits(p)'
  <2>1. pipe[e].peers_msgs_read \in Nat /\ pipe[p].peers_msgs_read \in Nat
    BY <1>t, EndType
  <2>2. commands'[e] = Tail(commands[e]) /\ commands[e] \in Seq(CommandT) /\ commands[e] # <<>>
        /\ Head(commands[e]).name # "activate_write"
    BY <1>c, <1>e
  <2>3. /\ \A n \in Nat : Rising(commands[e], pipe[e].peers_msgs_read, n) =>
                            Rising(commands'[e], pipe[e].peers_msgs_read, n)
        /\ \A n : HasCount(commands[e], n) => HasCount(commands'[e], n)
    BY <2>1, <2>2, MailTail
  <2>4. CreditFits(e)'
    BY <2>3, <1>t, <1>i, <1>e, <1>g, <1>h DEF CreditFits, Credit
  <2>5. CreditFits(p)'
    BY <2>1, <1>t, <1>i, <1>e, <1>g, <1>h, <1>c DEF CreditFits, Credit
  <2> QED
    BY <2>4, <2>5
<1>S. StreamFits(e)' /\ StreamFits(p)'
  BY <1>t, <1>i, <1>e, <1>g, <1>h DEF StreamFits, Ready
<1>R. AllRead(e)' /\ AllRead(p)'
  BY <1>t, <1>i, <1>e, <1>g, <1>h DEF AllRead
<1>W. Told(e)' /\ Told(p)'
  BY <1>t, <1>i, <1>e, <1>g, <1>h, <1>f, <1>c DEF Told
<1> QED
  BY <1>T, <1>E, <1>M, <1>C, <1>K, <1>S, <1>R, <1>W
  DEF Pair, IInv, EndsFit, MailsFit, AllCountsFit, CreditsFit, StreamsFit, AllReadFit, WakeUpOnItsWay

\* A wake-up that comes too late, or to an end that reads anyway.
LEMMA NotWokenInv ==
    ASSUME IInv, NEW e \in Ends, NEW p \in Ends, Pair(e, p),
           process_activate_read(e),
           ~(~pipe[e].in_active /\ pipe[e].state \in {"active", "waiting_for_delimiter"})
    PROVE  IInv'
<1>t. TypeOK /\ p # e /\ Peer(e) = p /\ Peer(p) = e
  BY DEF IInv, Pair
<1>i. /\ EndFits(e) /\ EndFits(p) /\ MailFits(e) /\ MailFits(p)
      /\ CountsFit(e) /\ CountsFit(p) /\ CreditFits(e) /\ CreditFits(p) /\ StreamFits(e) /\ StreamFits(p)
      /\ AllRead(e) /\ AllRead(p) /\ Told(e) /\ Told(p)
  BY DEF IInv, EndsFit, MailsFit, AllCountsFit, CreditsFit, StreamsFit, AllReadFit, WakeUpOnItsWay
<1>f. /\ pipe \in [Ends -> PipeT] /\ pipe[e] \in PipeT /\ pipe[p] \in PipeT
      /\ unflushed \in [Ends -> Seq(Nat)] /\ flushed \in [Ends -> Seq(Nat)]
      /\ reader \in [Ends -> {"active", "asleep", "called"}]
      /\ commands \in [Ends -> Seq(CommandT)]
      /\ pc \in [Ends -> {"idle", "activate_read", "delimit"}]
  BY <1>t, EndType DEF TypeOK
<1>e. /\ commands' = Taken(e) /\ commands[e] # <<>> /\ Head(commands[e]).name = "activate_read"
      /\ e \notin deleted /\ pc[e] = "idle"
      /\ UNCHANGED <<pipe, unflushed, flushed, reader, pc, deleted, calls, hasty>>
  BY <1>t, <1>f DEF process_activate_read, Takes, Idle, ended
<1>c. /\ commands'[e] = Tail(commands[e]) /\ commands'[p] = commands[p]
      /\ commands' \in [Ends -> Seq(CommandT)]
      /\ commands[e] \in Seq(CommandT) /\ commands[e] # <<>> /\ Head(commands[e]).name = "activate_read"
  <2>1. Tail(commands[e]) \in Seq(CommandT)
    BY <1>f, <1>e
  <2> QED
    BY <2>1, <1>t, <1>f, <1>e DEF Taken
<1>d. /\ \A n : Has(commands[e], n) <=> Has(commands'[e], n) \/ n = "activate_read"
      /\ Orderly(commands'[e])
  BY <1>c, <1>i, MailTail DEF MailFits
<1>T. TypeOK'
  BY <1>t, <1>f, <1>e, <1>c DEF TypeOK
<1>E. EndFits(e)' /\ EndFits(p)'
  BY <1>t, <1>i, <1>e DEF EndFits, Asked, WasAsked, Acked
<1>M. MailFits(e)' /\ MailFits(p)'
  <2>1. MailFits(e)'
    BY <1>t, <1>i, <1>e, <1>c, <1>d DEF MailFits, Asked, WasAsked, Acked
  <2>2. MailFits(p)'
    BY <1>t, <1>i, <1>e, <1>c, <1>d DEF MailFits, Asked, WasAsked, Acked
  <2> QED
    BY <2>1, <2>2
<1>C. CountsFit(e)' /\ CountsFit(p)'
  <2>1. pipe[e].peers_msgs_read \in Nat /\ pipe[p].msgs_read \in Nat
    BY <1>t, EndType
  <2>2. Rising(commands[e], pipe[e].peers_msgs_read, pipe[p].msgs_read)
    BY <1>t, <1>i DEF CountsFit
  <2>3. Rising(commands'[e], pipe[e].peers_msgs_read, pipe[p].msgs_read)
    BY <2>1, <2>2, <1>c, MailTail
  <2>4. CountsFit(e)'
    BY <2>3, <1>t, <1>i, <1>e DEF CountsFit
  <2>5. CountsFit(p)'
    BY <1>t, <1>i, <1>e, <1>c DEF CountsFit
  <2> QED
    BY <2>4, <2>5
<1>K. CreditFits(e)' /\ CreditFits(p)'
  <2>1. pipe[e].peers_msgs_read \in Nat /\ pipe[p].peers_msgs_read \in Nat
    BY <1>t, EndType
  <2>2. commands'[e] = Tail(commands[e]) /\ commands[e] \in Seq(CommandT) /\ commands[e] # <<>>
        /\ Head(commands[e]).name # "activate_write"
    BY <1>c, <1>e
  <2>3. /\ \A n \in Nat : Rising(commands[e], pipe[e].peers_msgs_read, n) =>
                            Rising(commands'[e], pipe[e].peers_msgs_read, n)
        /\ \A n : HasCount(commands[e], n) => HasCount(commands'[e], n)
    BY <2>1, <2>2, MailTail
  <2>4. CreditFits(e)'
    BY <2>3, <1>t, <1>i, <1>e DEF CreditFits, Credit
  <2>5. CreditFits(p)'
    BY <2>1, <1>t, <1>i, <1>e, <1>c DEF CreditFits, Credit
  <2> QED
    BY <2>4, <2>5
<1>S. StreamFits(e)' /\ StreamFits(p)'
  BY <1>t, <1>i, <1>e DEF StreamFits, Ready
<1>R. AllRead(e)' /\ AllRead(p)'
  BY <1>t, <1>i, <1>e DEF AllRead
<1>W. Told(e)' /\ Told(p)'
  <2>1. Told(e)'
    BY <1>t, <1>i, <1>e, <1>f, <1>c DEF Told, EndFits
  <2>2. Told(p)'
    BY <1>t, <1>i, <1>e, <1>f, <1>c DEF Told
  <2> QED
    BY <2>1, <2>2
<1> QED
  BY <1>T, <1>E, <1>M, <1>C, <1>K, <1>S, <1>R, <1>W
  DEF Pair, IInv, EndsFit, MailsFit, AllCountsFit, CreditsFit, StreamsFit, AllReadFit, WakeUpOnItsWay

\* A count of read messages taken by the writer.
LEMMA ActivateWriteInv ==
    ASSUME IInv, NEW e \in Ends, NEW p \in Ends, Pair(e, p),
           process_activate_write(e)
    PROVE  IInv'
<1>t. TypeOK /\ p # e /\ Peer(e) = p /\ Peer(p) = e
  BY DEF IInv, Pair
<1>i. /\ EndFits(e) /\ EndFits(p) /\ MailFits(e) /\ MailFits(p)
      /\ CountsFit(e) /\ CountsFit(p) /\ CreditFits(e) /\ CreditFits(p) /\ StreamFits(e) /\ StreamFits(p)
      /\ AllRead(e) /\ AllRead(p) /\ Told(e) /\ Told(p)
  BY DEF IInv, EndsFit, MailsFit, AllCountsFit, CreditsFit, StreamsFit, AllReadFit, WakeUpOnItsWay
<1>f. /\ pipe \in [Ends -> PipeT] /\ pipe[e] \in PipeT /\ pipe[p] \in PipeT
      /\ unflushed \in [Ends -> Seq(Nat)] /\ flushed \in [Ends -> Seq(Nat)]
      /\ reader \in [Ends -> {"active", "asleep", "called"}]
      /\ commands \in [Ends -> Seq(CommandT)]
      /\ pc \in [Ends -> {"idle", "activate_read", "delimit"}]
  BY <1>t, EndType DEF TypeOK
<1> DEFINE r == [pipe[e] EXCEPT !.peers_msgs_read = Head(commands[e]).msgs_read, !.out_active = pipe[e].out_active \/ pipe[e].state = "active"]
<1>e. /\ pipe' = [pipe EXCEPT ![e] = r]
      /\ commands' = Taken(e) /\ commands[e] # <<>> /\ Head(commands[e]).name = "activate_write"
      /\ e \notin deleted /\ pc[e] = "idle"
      /\ UNCHANGED <<unflushed, flushed, reader, pc, deleted, calls, hasty>>
  BY <1>t, <1>f DEF process_activate_write, Takes, Idle, ended, flow
<1>o. Head(commands[e]) \in CommandT
  BY <1>f, <1>e
<1>n. (Head(commands[e]).msgs_read) \in Nat /\ (pipe[e].out_active \/ pipe[e].state = "active") \in BOOLEAN
  BY <1>f, <1>o DEF PipeT, CommandT
<1>r. r \in PipeT
  BY <1>f, <1>n DEF PipeT
<1>g. /\ r.state = pipe[e].state
      /\ r.delay = pipe[e].delay
      /\ r.in_active = pipe[e].in_active
      /\ r.out_active = pipe[e].out_active \/ pipe[e].state = "active"
      /\ r.outpipe = pipe[e].outpipe
      /\ r.msgs_read = pipe[e].msgs_read
      /\ r.msgs_written = pipe[e].msgs_written
      /\ r.peers_msgs_read = Head(commands[e]).msgs_read
  BY <1>f DEF PipeT
<1> HIDE DEF r
<1>h. pipe'[e] = r /\ pipe'[p] = pipe[p]
  BY <1>t, <1>f, <1>e
<1>c. /\ commands'[e] = Tail(commands[e]) /\ commands'[p] = commands[p]
      /\ commands' \in [Ends -> Seq(CommandT)]
      /\ commands[e] \in Seq(CommandT) /\ commands[e] # <<>> /\ Head(commands[e]).name = "activate_write"
  <2>1. Tail(commands[e]) \in Seq(CommandT)
    BY <1>f, <1>e
  <2> QED
    BY <2>1, <1>t, <1>f, <1>e DEF Taken
<1>d. /\ \A n : Has(commands[e], n) <=> Has(commands'[e], n) \/ n = "activate_write"
      /\ Orderly(commands'[e])
  BY <1>c, <1>i, MailTail DEF MailFits
<1>T. TypeOK'
  BY <1>t, <1>f, <1>e, <1>r, <1>c DEF TypeOK
<1>E. EndFits(e)' /\ EndFits(p)'
  BY <1>t, <1>i, <1>e, <1>g, <1>h DEF EndFits, Asked, WasAsked, Acked
<1>M. MailFits(e)' /\ MailFits(p)'
  <2>1. MailFits(e)'
    BY <1>t, <1>i, <1>e, <1>g, <1>h, <1>c, <1>d DEF MailFits, Asked, WasAsked, Acked
  <2>2. MailFits(p)'
    BY <1>t, <1>i, <1>e, <1>g, <1>h, <1>c, <1>d DEF MailFits, Asked, WasAsked, Acked
  <2> QED
    BY <2>1, <2>2
<1>C. CountsFit(e)' /\ CountsFit(p)'
  <2>1. pipe[e].peers_msgs_read \in Nat /\ pipe[p].msgs_read \in Nat /\ pipe[e].msgs_written \in Nat /\ hwm[e] \in Nat
    BY <1>t, EndType
  <2>2. Rising(commands[e], pipe[e].peers_msgs_read, pipe[p].msgs_read)
    BY <1>t, <1>i DEF CountsFit
  <2>3. /\ pipe[e].peers_msgs_read <= Head(commands[e]).msgs_read /\ Head(commands[e]).msgs_read <= pipe[p].msgs_read
        /\ Rising(commands'[e], Head(commands[e]).msgs_read, pipe[p].msgs_read)
    BY <2>1, <2>2, <1>c, MailTail
  <2>4. hwm[e] > 0 => pipe[e].msgs_written - Head(commands[e]).msgs_read <= hwm[e]
    <3>1. Head(commands[e]).msgs_read \in Nat
      BY <1>n
    <3>2. hwm[e] > 0 => pipe[e].msgs_written - pipe[e].peers_msgs_read <= hwm[e]
      BY <1>t, <1>i DEF CountsFit
    <3> QED
      BY <2>1, <2>3, <3>1, <3>2
  <2>5. /\ pipe'[e].peers_msgs_read = Head(commands[e]).msgs_read /\ pipe'[e].msgs_written = pipe[e].msgs_written
        /\ pipe'[p] = pipe[p]
    BY <1>g, <1>h
  <2>6. CountsFit(e)'
    BY <2>3, <2>4, <2>5, <1>t DEF CountsFit
  <2>7. CountsFit(p)'
    BY <1>t, <1>i, <1>g, <1>h, <1>c DEF CountsFit
  <2> QED
    BY <2>6, <2>7
<1>K. CreditFits(e)' /\ CreditFits(p)'
  <2>1. CreditFits(p)'
    BY <1>t, <1>i, <1>e, <1>g, <1>h, <1>c DEF CreditFits, Credit
  <2> DEFINE low == pipe[e].peers_msgs_read
             n == Head(commands[e]).msgs_read
  <2>2. ASSUME hwm[e] > 0 PROVE \E d \in Nat : Credit(e, d)'
    <3>1. PICK d \in Nat : Credit(e, d)
      BY <2>2, <1>i DEF CreditFits
    <3>2. /\ Rising(commands[e], low, d) /\ (d = low \/ HasCount(commands[e], d))
          /\ Multiple(d, lwm(p)) /\ d <= pipe[p].msgs_read /\ pipe[p].msgs_read < d + lwm(p)
      BY <3>1, <1>t DEF Credit
    <3>3. low \in Nat /\ n \in Nat
      BY <1>t, <1>n, EndType
    <3>4. low <= n /\ n <= d /\ Rising(commands'[e], n, d)
      <4>1. /\ commands[e] \in Seq(CommandT) /\ commands[e] # <<>>
            /\ Head(commands[e]).name = "activate_write" /\ commands'[e] = Tail(commands[e])
        BY <1>c
      <4>2. /\ low <= Head(commands[e]).msgs_read /\ Head(commands[e]).msgs_read <= d
            /\ Rising(Tail(commands[e]), Head(commands[e]).msgs_read, d)
        BY <3>2, <3>3, <4>1, MailTail
      <4> QED
        BY <4>1, <4>2
    <3>5. d = n \/ HasCount(commands'[e], d)
      <4>1. CASE d = low
        BY <4>1, <3>3, <3>4
      <4>2. CASE HasCount(commands[e], d)
        BY <4>2, <1>c, MailTail
      <4> QED
        BY <4>1, <4>2, <3>2
    <3>6. pipe'[e].peers_msgs_read = n /\ pipe'[p] = pipe[p]
      BY <1>g, <1>h
    <3>7. Credit(e, d)'
      BY <3>2, <3>4, <3>5, <3>6, <1>t DEF Credit
    <3> QED
      BY <3>7
  <2>3. pipe'[e].state = "active" => pipe'[e].out_active
    <3>1. ASSUME r.state = "active" PROVE r.out_active
      <4>1. (pipe[e].out_active \/ pipe[e].state = "active") = TRUE
        <5>1. pipe[e].state = "active"
          BY <3>1, <1>g
        <5> QED
          BY <5>1
      <4>2. r.out_active = (pipe[e].out_active \/ pipe[e].state = "active")
        BY <1>f, <1>n DEF PipeT, r
      <4>3. r.out_active = TRUE
        BY <4>1, <4>2
      <4> QED
        BY <4>3
    <3> QED
      BY <3>1, <1>h, Zenon
  <2>4. CreditFits(e)'
    BY <2>2, <2>3 DEF CreditFits
  <2> QED
    BY <2>1, <2>4
<1>S. StreamFits(e)' /\ StreamFits(p)'
  BY <1>t, <1>i, <1>e, <1>g, <1>h DEF StreamFits, Ready
<1>R. AllRead(e)' /\ AllRead(p)'
  BY <1>t, <1>i, <1>e, <1>g, <1>h DEF AllRead
<1>W. Told(e)' /\ Told(p)'
  <2>1. Told(e)'
    BY <1>t, <1>i, <1>e, <1>g, <1>h, <1>c, <1>d DEF Told
  <2>2. Told(p)'
    BY <1>t, <1>i, <1>e, <1>g, <1>h, <1>c, <1>d DEF Told
  <2> QED
    BY <2>1, <2>2
<1> QED
  BY <1>T, <1>E, <1>M, <1>C, <1>K, <1>S, <1>R, <1>W
  DEF Pair, IInv, EndsFit, MailsFit, AllCountsFit, CreditsFit, StreamsFit, AllReadFit, WakeUpOnItsWay

\* A request taken by an end that has messages to read.
LEMMA AskedInv ==
    ASSUME IInv, NEW e \in Ends, NEW p \in Ends, Pair(e, p),
           process_pipe_term(e), ~AcksTerm(e)
    PROVE  IInv'
<1>t. TypeOK /\ p # e /\ Peer(e) = p /\ Peer(p) = e
  BY DEF IInv, Pair
<1>i. /\ EndFits(e) /\ EndFits(p) /\ MailFits(e) /\ MailFits(p)
      /\ CountsFit(e) /\ CountsFit(p) /\ CreditFits(e) /\ CreditFits(p) /\ StreamFits(e) /\ StreamFits(p)
      /\ AllRead(e) /\ AllRead(p) /\ Told(e) /\ Told(p)
  BY DEF IInv, EndsFit, MailsFit, AllCountsFit, CreditsFit, StreamsFit, AllReadFit, WakeUpOnItsWay
<1>f. /\ pipe \in [Ends -> PipeT] /\ pipe[e] \in PipeT /\ pipe[p] \in PipeT
      /\ unflushed \in [Ends -> Seq(Nat)] /\ flushed \in [Ends -> Seq(Nat)]
      /\ reader \in [Ends -> {"active", "asleep", "called"}]
      /\ commands \in [Ends -> Seq(CommandT)]
      /\ pc \in [Ends -> {"idle", "activate_read", "delimit"}]
  BY <1>t, EndType DEF TypeOK
<1> DEFINE r == [pipe[e] EXCEPT !.state = "waiting_for_delimiter"]
<1>e. /\ pipe' = [pipe EXCEPT ![e] = r] /\ pipe[e].state = "active"
      /\ commands' = Taken(e) /\ commands[e] # <<>> /\ Head(commands[e]).name = "pipe_term"
      /\ e \notin deleted /\ pc[e] = "idle"
      /\ UNCHANGED <<unflushed, flushed, reader, pc, deleted, calls, hasty>>
  BY <1>t, <1>f DEF process_pipe_term, AcksTerm, Takes, Idle, ended, flow
<1>n. ("waiting_for_delimiter") \in States
  BY <1>f, <1>t DEF PipeT, States
<1>r. r \in PipeT
  BY <1>f, <1>n DEF PipeT
<1>g. /\ r.state = "waiting_for_delimiter"
      /\ r.delay = pipe[e].delay
      /\ r.in_active = pipe[e].in_active
      /\ r.out_active = pipe[e].out_active
      /\ r.outpipe = pipe[e].outpipe
      /\ r.msgs_read = pipe[e].msgs_read
      /\ r.msgs_written = pipe[e].msgs_written
      /\ r.peers_msgs_read = pipe[e].peers_msgs_read
  BY <1>f DEF PipeT
<1> HIDE DEF r
<1>h. pipe'[e] = r /\ pipe'[p] = pipe[p]
  BY <1>t, <1>f, <1>e
<1>c. /\ commands'[e] = Tail(commands[e]) /\ commands'[p] = commands[p]
      /\ commands' \in [Ends -> Seq(CommandT)]
      /\ commands[e] \in Seq(CommandT) /\ commands[e] # <<>> /\ Head(commands[e]).name = "pipe_term"
  <2>1. Tail(commands[e]) \in Seq(CommandT)
    BY <1>f, <1>e
  <2> QED
    BY <2>1, <1>t, <1>f, <1>e DEF Taken
<1>d. /\ \A n : Has(commands[e], n) <=> Has(commands'[e], n) \/ n = "pipe_term"
      /\ Orderly(commands'[e])
      /\ ~Has(commands'[e], "pipe_term")
  BY <1>c, <1>i, MailTail DEF MailFits
<1>q. Asked(p)
  BY <1>t, <1>i, <1>d DEF MailFits
<1>T. TypeOK'
  BY <1>t, <1>f, <1>e, <1>r, <1>c DEF TypeOK
<1>E. EndFits(e)' /\ EndFits(p)'
  BY <1>t, <1>i, <1>e, <1>g, <1>h, <1>q DEF EndFits, Asked, WasAsked, Acked
<1>M. MailFits(e)' /\ MailFits(p)'
  <2>1. MailFits(e)'
    BY <1>t, <1>i, <1>e, <1>g, <1>h, <1>c, <1>d, <1>q DEF MailFits, Asked, WasAsked, Acked
  <2>2. MailFits(p)'
    BY <1>t, <1>i, <1>e, <1>g, <1>h, <1>c, <1>d, <1>q DEF MailFits, Asked, WasAsked, Acked
  <2> QED
    BY <2>1, <2>2
<1>C. CountsFit(e)' /\ CountsFit(p)'
  <2>1. pipe[e].peers_msgs_read \in Nat /\ pipe[p].msgs_read \in Nat
    BY <1>t, EndType
  <2>2. Rising(commands[e], pipe[e].peers_msgs_read, pipe[p].msgs_read)
    BY <1>t, <1>i DEF CountsFit
  <2>3. Rising(commands'[e], pipe[e].peers_msgs_read, pipe[p].msgs_read)
    BY <2>1, <2>2, <1>c, MailTail
  <2>4. CountsFit(e)'
    BY <2>3, <1>t, <1>i, <1>e, <1>g, <1>h DEF CountsFit
  <2>5. CountsFit(p)'
    BY <1>t, <1>i, <1>e, <1>g, <1>h, <1>c DEF CountsFit
  <2> QED
    BY <2>4, <2>5
<1>K. CreditFits(e)' /\ CreditFits(p)'
  <2>1. pipe[e].peers_msgs_read \in Nat /\ pipe[p].peers_msgs_read \in Nat
    BY <1>t, EndType
  <2>2. commands'[e] = Tail(commands[e]) /\ commands[e] \in Seq(CommandT) /\ commands[e] # <<>>
        /\ Head(commands[e]).name # "activate_write"
    BY <1>c, <1>e
  <2>3. /\ \A n \in Nat : Rising(commands[e], pipe[e].peers_msgs_read, n) =>
                            Rising(commands'[e], pipe[e].peers_msgs_read, n)
        /\ \A n : HasCount(commands[e], n) => HasCount(commands'[e], n)
    BY <2>1, <2>2, MailTail
  <2>4. CreditFits(e)'
    BY <2>3, <1>t, <1>i, <1>e, <1>g, <1>h DEF CreditFits, Credit
  <2>5. CreditFits(p)'
    BY <2>1, <1>t, <1>i, <1>e, <1>g, <1>h, <1>c DEF CreditFits, Credit
  <2> QED
    BY <2>4, <2>5
<1>S. StreamFits(e)' /\ StreamFits(p)'
  BY <1>t, <1>i, <1>e, <1>g, <1>h DEF StreamFits, Ready
<1>R. AllRead(e)' /\ AllRead(p)'
  <2>1. AllRead(e)'
    BY <1>t, <1>i, <1>e, <1>g, <1>h, <1>q DEF AllRead, Asked
  <2>2. AllRead(p)'
    BY <1>t, <1>i, <1>e, <1>g, <1>h, <1>q DEF AllRead, Asked
  <2> QED
    BY <2>1, <2>2
<1>W. Told(e)' /\ Told(p)'
  <2>1. Told(e)'
    BY <1>t, <1>i, <1>e, <1>g, <1>h, <1>c, <1>d DEF Told
  <2>2. Told(p)'
    BY <1>t, <1>i, <1>e, <1>g, <1>h, <1>c, <1>d DEF Told
  <2> QED
    BY <2>1, <2>2
<1> QED
  BY <1>T, <1>E, <1>M, <1>C, <1>K, <1>S, <1>R, <1>W
  DEF Pair, IInv, EndsFit, MailsFit, AllCountsFit, CreditsFit, StreamsFit, AllReadFit, WakeUpOnItsWay

\* A request acknowledged.
LEMMA AckInv ==
    ASSUME IInv, NEW e \in Ends, NEW p \in Ends, Pair(e, p),
           process_pipe_term(e), AcksTerm(e)
    PROVE  IInv'
<1>t. TypeOK /\ p # e /\ Peer(e) = p /\ Peer(p) = e
  BY DEF IInv, Pair
<1>i. /\ EndFits(e) /\ EndFits(p) /\ MailFits(e) /\ MailFits(p)
      /\ CountsFit(e) /\ CountsFit(p) /\ CreditFits(e) /\ CreditFits(p) /\ StreamFits(e) /\ StreamFits(p)
      /\ AllRead(e) /\ AllRead(p) /\ Told(e) /\ Told(p)
  BY DEF IInv, EndsFit, MailsFit, AllCountsFit, CreditsFit, StreamsFit, AllReadFit, WakeUpOnItsWay
<1>f. /\ pipe \in [Ends -> PipeT] /\ pipe[e] \in PipeT /\ pipe[p] \in PipeT
      /\ unflushed \in [Ends -> Seq(Nat)] /\ flushed \in [Ends -> Seq(Nat)]
      /\ reader \in [Ends -> {"active", "asleep", "called"}]
      /\ commands \in [Ends -> Seq(CommandT)]
      /\ pc \in [Ends -> {"idle", "activate_read", "delimit"}]
  BY <1>t, EndType DEF TypeOK
<1> DEFINE r == [pipe[e] EXCEPT !.state = IF pipe[e].state = "term_req_sent1" THEN "term_req_sent2" ELSE "term_ack_sent", !.outpipe = FALSE]
<1>e. /\ pipe' = [pipe EXCEPT ![e] = r] /\ pipe[e].state \in {"active", "delimiter_received", "term_req_sent1"}
      /\ (pipe[e].state = "active" => ~pipe[e].delay)
      /\ commands' = TakenAndSent(e, "pipe_term_ack") /\ commands[e] # <<>> /\ Head(commands[e]).name = "pipe_term"
      /\ e \notin deleted /\ pc[e] = "idle"
      /\ UNCHANGED <<unflushed, flushed, reader, pc, deleted, calls, hasty>>
  BY <1>t, <1>f DEF process_pipe_term, AcksTerm, Takes, Idle, ended, flow
<1>n. (IF pipe[e].state = "term_req_sent1" THEN "term_req_sent2" ELSE "term_ack_sent") \in States /\ (FALSE) \in BOOLEAN
  BY <1>f, <1>t DEF PipeT, States
<1>r. r \in PipeT
  BY <1>f, <1>n DEF PipeT
<1>g. /\ r.state = IF pipe[e].state = "term_req_sent1" THEN "term_req_sent2" ELSE "term_ack_sent"
      /\ r.delay = pipe[e].delay
      /\ r.in_active = pipe[e].in_active
      /\ r.out_active = pipe[e].out_active
      /\ r.outpipe = FALSE
      /\ r.msgs_read = pipe[e].msgs_read
      /\ r.msgs_written = pipe[e].msgs_written
      /\ r.peers_msgs_read = pipe[e].peers_msgs_read
  BY <1>f DEF PipeT
<1> HIDE DEF r
<1>h. pipe'[e] = r /\ pipe'[p] = pipe[p]
  BY <1>t, <1>f, <1>e
<1>c. /\ commands'[e] = Tail(commands[e]) /\ commands'[p] = Append(commands[p], Command("pipe_term_ack", 0))
      /\ commands' \in [Ends -> Seq(CommandT)] /\ Command("pipe_term_ack", 0) \in CommandT /\ commands[p] \in Seq(CommandT)
      /\ commands[e] \in Seq(CommandT) /\ commands[e] # <<>>
  <2>1. Command("pipe_term_ack", 0) \in CommandT /\ commands[p] \in Seq(CommandT) /\ commands[e] \in Seq(CommandT)
    BY <1>f DEF CommandT, Command, Names
  <2>2. Append(commands[p], Command("pipe_term_ack", 0)) \in Seq(CommandT)
    BY <2>1
  <2>3. Tail(commands[e]) \in Seq(CommandT)
    BY <2>1, <1>e
  <2> QED
    BY <2>1, <2>2, <2>3, <1>t, <1>f, <1>e DEF TakenAndSent
<1>d. /\ \A n : Has(commands[e], n) <=> Has(commands'[e], n) \/ n = "pipe_term"
      /\ Orderly(commands'[e]) /\ ~Has(commands'[e], "pipe_term")
      /\ \A n : Has(commands'[p], n) <=> Has(commands[p], n) \/ n = "pipe_term_ack"
      /\ Orderly(commands'[p])
      /\ \A low, high \in Nat : Rising(commands[p], low, high) => Rising(commands'[p], low, high)
      /\ \A n : HasCount(commands[p], n) => HasCount(commands'[p], n)
  <2>1. /\ \A n : Has(commands[e], n) <=> Has(commands'[e], n) \/ n = "pipe_term"
        /\ Orderly(commands'[e]) /\ ~Has(commands'[e], "pipe_term")
    BY <1>c, <1>e, <1>i, MailTail DEF MailFits
  <2>2. p \notin deleted /\ ~Acked(e) /\ ~Has(commands[p], "pipe_term_ack") /\ Orderly(commands[p])
    BY <1>t, <1>i, <1>e DEF EndFits, MailFits, Acked
  <2> QED
    BY <2>1, <2>2, <1>c, MailAppend, CountAppend DEF Command
<1>q. p \notin deleted /\ ~Acked(e) /\ Asked(p) /\ pipe[e].state # "active"
  BY <1>t, <1>i, <1>d, <1>e DEF MailFits, EndFits, Acked
<1>T. TypeOK'
  BY <1>t, <1>f, <1>e, <1>r, <1>c DEF TypeOK
<1>E. EndFits(e)' /\ EndFits(p)'
  <2>1. EndFits(e)'
    BY <1>t, <1>i, <1>e, <1>g, <1>h, <1>q DEF EndFits, Asked, WasAsked, Acked
  <2>2. EndFits(p)'
    BY <1>t, <1>i, <1>e, <1>g, <1>h, <1>q DEF EndFits, Asked, WasAsked, Acked
  <2> QED
    BY <2>1, <2>2
<1>M. MailFits(e)' /\ MailFits(p)'
  <2>1. MailFits(e)'
    BY <1>t, <1>i, <1>e, <1>g, <1>h, <1>d, <1>q DEF MailFits, Asked, WasAsked, Acked
  <2>2. MailFits(p)'
    BY <1>t, <1>i, <1>e, <1>g, <1>h, <1>d, <1>q DEF MailFits, Asked, WasAsked, Acked
  <2> QED
    BY <2>1, <2>2
<1>C. CountsFit(e)' /\ CountsFit(p)'
  <2>1. /\ pipe[e].peers_msgs_read \in Nat /\ pipe[p].msgs_read \in Nat
        /\ pipe[p].peers_msgs_read \in Nat /\ pipe[e].msgs_read \in Nat
    BY <1>t, EndType
  <2>2. Rising(commands[e], pipe[e].peers_msgs_read, pipe[p].msgs_read)
    BY <1>t, <1>i DEF CountsFit
  <2>3. Rising(commands'[e], pipe[e].peers_msgs_read, pipe[p].msgs_read)
    BY <2>1, <2>2, <1>c, MailTail
  <2>4. CountsFit(e)'
    BY <2>3, <1>t, <1>i, <1>e, <1>g, <1>h DEF CountsFit
  <2>5. CountsFit(p)'
    BY <2>1, <1>t, <1>i, <1>e, <1>g, <1>h, <1>d DEF CountsFit
  <2> QED
    BY <2>4, <2>5
<1>K. CreditFits(e)' /\ CreditFits(p)'
  <2>1. pipe[e].peers_msgs_read \in Nat /\ pipe[p].peers_msgs_read \in Nat
    BY <1>t, EndType
  <2>2. commands'[e] = Tail(commands[e]) /\ commands[e] \in Seq(CommandT) /\ commands[e] # <<>>
        /\ Head(commands[e]).name # "activate_write"
    BY <1>c, <1>e
  <2>3. /\ \A n \in Nat : Rising(commands[e], pipe[e].peers_msgs_read, n) =>
                            Rising(commands'[e], pipe[e].peers_msgs_read, n)
        /\ \A n : HasCount(commands[e], n) => HasCount(commands'[e], n)
    BY <2>1, <2>2, MailTail
  <2>4. CreditFits(e)'
    BY <2>3, <1>t, <1>i, <1>e, <1>g, <1>h DEF CreditFits, Credit
  <2>5. CreditFits(p)'
    BY <2>1, <1>t, <1>i, <1>e, <1>g, <1>h, <1>c, <1>d DEF CreditFits, Credit
  <2> QED
    BY <2>4, <2>5
<1>S. StreamFits(e)' /\ StreamFits(p)'
  BY <1>t, <1>i, <1>e, <1>g, <1>h, <1>q DEF StreamFits, Ready
<1>R. AllRead(e)' /\ AllRead(p)'
  <2>1. AllRead(e)'
    BY <1>t, <1>i, <1>e, <1>g, <1>h, <1>q DEF AllRead, Asked
  <2>2. AllRead(p)'
    BY <1>t, <1>i, <1>e, <1>g, <1>h, <1>q DEF AllRead, Asked
  <2> QED
    BY <2>1, <2>2
<1>W. Told(e)' /\ Told(p)'
  <2>1. Told(e)'
    BY <1>t, <1>i, <1>e, <1>g, <1>h, <1>c, <1>d, <1>q DEF Told
  <2>2. Told(p)'
    BY <1>t, <1>i, <1>e, <1>g, <1>h, <1>d, <1>q DEF Told
  <2> QED
    BY <2>1, <2>2
<1> QED
  BY <1>T, <1>E, <1>M, <1>C, <1>K, <1>S, <1>R, <1>W
  DEF Pair, IInv, EndsFit, MailsFit, AllCountsFit, CreditsFit, StreamsFit, AllReadFit, WakeUpOnItsWay

\* The acknowledgement of a request that has crossed none: it is acknowledged.
LEMMA AckedFirstInv ==
    ASSUME IInv, NEW e \in Ends, NEW p \in Ends, Pair(e, p),
           process_pipe_term_ack(e), pipe[e].state = "term_req_sent1"
    PROVE  IInv'
<1>t. TypeOK /\ p # e /\ Peer(e) = p /\ Peer(p) = e
  BY DEF IInv, Pair
<1>i. /\ EndFits(e) /\ EndFits(p) /\ MailFits(e) /\ MailFits(p)
      /\ CountsFit(e) /\ CountsFit(p) /\ CreditFits(e) /\ CreditFits(p) /\ StreamFits(e) /\ StreamFits(p)
      /\ AllRead(e) /\ AllRead(p) /\ Told(e) /\ Told(p)
  BY DEF IInv, EndsFit, MailsFit, AllCountsFit, CreditsFit, StreamsFit, AllReadFit, WakeUpOnItsWay
<1>f. /\ pipe \in [Ends -> PipeT] /\ pipe[e] \in PipeT /\ pipe[p] \in PipeT
      /\ unflushed \in [Ends -> Seq(Nat)] /\ flushed \in [Ends -> Seq(Nat)]
      /\ reader \in [Ends -> {"active", "asleep", "called"}]
      /\ commands \in [Ends -> Seq(CommandT)]
      /\ pc \in [Ends -> {"idle", "activate_read", "delimit"}]
  BY <1>t, EndType DEF TypeOK
<1> DEFINE r == [pipe[e] EXCEPT !.outpipe = FALSE]
<1>e. /\ pipe' = [pipe EXCEPT ![e] = r] /\ pipe[e].state = "term_req_sent1"
      /\ commands' = TakenAndSent(e, "pipe_term_ack") /\ commands[e] # <<>> /\ Head(commands[e]).name = "pipe_term_ack"
      /\ e \notin deleted /\ pc[e] = "idle"
      /\ flushed' = [flushed EXCEPT ![p] = <<>>] /\ deleted' = deleted \cup {e}
      /\ UNCHANGED <<unflushed, reader, pc, calls, hasty>>
  BY <1>t, <1>f DEF process_pipe_term_ack, Takes, Idle, ended
<1>n. (FALSE) \in BOOLEAN
  BY <1>f, <1>t DEF PipeT, States
<1>r. r \in PipeT
  BY <1>f, <1>n DEF PipeT
<1>g. /\ r.state = pipe[e].state
      /\ r.delay = pipe[e].delay
      /\ r.in_active = pipe[e].in_active
      /\ r.out_active = pipe[e].out_active
      /\ r.outpipe = FALSE
      /\ r.msgs_read = pipe[e].msgs_read
      /\ r.msgs_written = pipe[e].msgs_written
      /\ r.peers_msgs_read = pipe[e].peers_msgs_read
  BY <1>f DEF PipeT
<1> HIDE DEF r
<1>h. pipe'[e] = r /\ pipe'[p] = pipe[p]
  BY <1>t, <1>f, <1>e
<1>c. /\ commands'[e] = Tail(commands[e]) /\ commands'[p] = Append(commands[p], Command("pipe_term_ack", 0))
      /\ commands' \in [Ends -> Seq(CommandT)] /\ Command("pipe_term_ack", 0) \in CommandT /\ commands[p] \in Seq(CommandT)
      /\ commands[e] \in Seq(CommandT) /\ commands[e] # <<>>
  <2>1. Command("pipe_term_ack", 0) \in CommandT /\ commands[p] \in Seq(CommandT) /\ commands[e] \in Seq(CommandT)
    BY <1>f DEF CommandT, Command, Names
  <2>2. Append(commands[p], Command("pipe_term_ack", 0)) \in Seq(CommandT)
    BY <2>1
  <2>3. Tail(commands[e]) \in Seq(CommandT)
    BY <2>1, <1>e
  <2> QED
    BY <2>1, <2>2, <2>3, <1>t, <1>f, <1>e DEF TakenAndSent
<1>q. /\ p \notin deleted /\ ~Acked(e) /\ ~Has(commands[p], "pipe_term_ack") /\ Orderly(commands[p])
      /\ Tail(commands[e]) = <<>> /\ Acked(p) /\ ~Has(commands[e], "pipe_term")
  <2>1. /\ Tail(commands[e]) = <<>>
        /\ \A n : Has(commands[e], n) <=> Has(<<>>, n) \/ n = "pipe_term_ack"
    <3>1. Orderly(commands[e])
      BY <1>i DEF MailFits
    <3>2. commands[e] \in Seq(CommandT) /\ commands[e] # <<>> /\ Head(commands[e]).name = "pipe_term_ack"
      BY <1>c, <1>e
    <3>3. Tail(commands[e]) = <<>>
      BY <3>1, <3>2, MailTail
    <3>4. \A n : Has(commands[e], n) <=> Has(Tail(commands[e]), n) \/ Head(commands[e]).name = n
      BY <3>2, MailTail
    <3> QED
      BY <3>2, <3>3, <3>4
  <2>2. \A n : ~Has(<<>>, n)
    BY DEF Has
  <2>3. Acked(p) /\ ~Has(commands[e], "pipe_term")
    BY <2>1, <2>2, <1>t, <1>i DEF MailFits
  <2> QED
    BY <2>1, <2>3, <1>t, <1>i, <1>e DEF EndFits, MailFits, Acked
<1>d. /\ \A n : Has(commands'[p], n) <=> Has(commands[p], n) \/ n = "pipe_term_ack"
      /\ Orderly(commands'[p])
      /\ \A low, high \in Nat : Rising(commands[p], low, high) => Rising(commands'[p], low, high)
      /\ \A n : HasCount(commands[p], n) => HasCount(commands'[p], n)
      /\ commands'[e] = <<>> /\ (\A n : ~Has(commands'[e], n)) /\ Orderly(commands'[e])
  <2>1. commands'[e] = <<>>
    BY <1>c, <1>q
  <2>2. (\A n : ~Has(<<>>, n)) /\ Orderly(<<>>)
    BY DEF Has, Orderly
  <2> QED
    BY <2>1, <2>2, <1>c, <1>q, MailAppend, CountAppend DEF Command
<1>x. flushed'[e] = flushed[e] /\ flushed' \in [Ends -> Seq(Nat)]
  <2>1. <<>> \in Seq(Nat)
    OBVIOUS
  <2> QED
    BY <2>1, <1>t, <1>f, <1>e
<1>T. TypeOK'
  BY <1>t, <1>f, <1>e, <1>r, <1>c, <1>x DEF TypeOK
<1>E. EndFits(e)' /\ EndFits(p)'
  <2>1. EndFits(e)'
    BY <1>t, <1>i, <1>e, <1>g, <1>h, <1>q DEF EndFits, Asked, WasAsked, Acked
  <2>2. EndFits(p)'
    BY <1>t, <1>i, <1>e, <1>g, <1>h, <1>q DEF EndFits, Asked, WasAsked, Acked
  <2> QED
    BY <2>1, <2>2
<1>M. MailFits(e)' /\ MailFits(p)'
  <2>1. MailFits(e)'
    BY <1>t, <1>i, <1>e, <1>g, <1>h, <1>d, <1>q DEF MailFits, Asked, WasAsked, Acked
  <2>2. MailFits(p)'
    BY <1>t, <1>i, <1>e, <1>g, <1>h, <1>d, <1>q DEF MailFits, Asked, WasAsked, Acked
  <2> QED
    BY <2>1, <2>2
<1>C. CountsFit(e)' /\ CountsFit(p)'
  <2>1. /\ pipe[e].peers_msgs_read \in Nat /\ pipe[p].msgs_read \in Nat
        /\ pipe[p].peers_msgs_read \in Nat /\ pipe[e].msgs_read \in Nat
    BY <1>t, EndType
  <2>2. Rising(commands[e], pipe[e].peers_msgs_read, pipe[p].msgs_read)
    BY <1>t, <1>i DEF CountsFit
  <2>3. Rising(commands'[e], pipe[e].peers_msgs_read, pipe[p].msgs_read)
    BY <2>1, <2>2, <1>c, MailTail
  <2>4. CountsFit(e)'
    BY <2>3, <1>t, <1>i, <1>e, <1>g, <1>h DEF CountsFit
  <2>5. CountsFit(p)'
    BY <2>1, <1>t, <1>i, <1>e, <1>g, <1>h, <1>d DEF CountsFit
  <2> QED
    BY <2>4, <2>5
<1>K. CreditFits(e)' /\ CreditFits(p)'
  <2>1. pipe[e].peers_msgs_read \in Nat /\ pipe[p].peers_msgs_read \in Nat
    BY <1>t, EndType
  <2>2. commands'[e] = Tail(commands[e]) /\ commands[e] \in Seq(CommandT) /\ commands[e] # <<>>
        /\ Head(commands[e]).name # "activate_write"
    BY <1>c, <1>e
  <2>3. /\ \A n \in Nat : Rising(commands[e], pipe[e].peers_msgs_read, n) =>
                            Rising(commands'[e], pipe[e].peers_msgs_read, n)
        /\ \A n : HasCount(commands[e], n) => HasCount(commands'[e], n)
    BY <2>1, <2>2, MailTail
  <2>4. CreditFits(e)'
    BY <2>3, <1>t, <1>i, <1>e, <1>g, <1>h DEF CreditFits, Credit
  <2>5. CreditFits(p)'
    BY <2>1, <1>t, <1>i, <1>e, <1>g, <1>h, <1>c, <1>d DEF CreditFits, Credit
  <2> QED
    BY <2>4, <2>5
<1>S. StreamFits(e)' /\ StreamFits(p)'
  <2>1. StreamFits(e)'
    BY <1>t, <1>i, <1>e, <1>g, <1>h, <1>x DEF StreamFits, Ready
  <2>2. StreamFits(p)'
    BY <1>t, <1>i, <1>e, <1>g, <1>h, <1>x DEF StreamFits, Ready
  <2> QED
    BY <2>1, <2>2
<1>R. AllRead(e)' /\ AllRead(p)'
  BY <1>t, <1>i, <1>e, <1>g, <1>h DEF AllRead
<1>W. Told(e)' /\ Told(p)'
  <2>1. Told(e)'
    BY <1>t, <1>i, <1>e, <1>g, <1>h, <1>x DEF Told
  <2>2. Told(p)'
    BY <1>t, <1>i, <1>e, <1>g, <1>h, <1>x, <1>d DEF Told
  <2> QED
    BY <2>1, <2>2
<1> QED
  BY <1>T, <1>E, <1>M, <1>C, <1>K, <1>S, <1>R, <1>W
  DEF Pair, IInv, EndsFit, MailsFit, AllCountsFit, CreditsFit, StreamsFit, AllReadFit, WakeUpOnItsWay

\* The last acknowledgement.
LEMMA AckedLastInv ==
    ASSUME IInv, NEW e \in Ends, NEW p \in Ends, Pair(e, p),
           process_pipe_term_ack(e), pipe[e].state # "term_req_sent1"
    PROVE  IInv'
<1>t. TypeOK /\ p # e /\ Peer(e) = p /\ Peer(p) = e
  BY DEF IInv, Pair
<1>i. /\ EndFits(e) /\ EndFits(p) /\ MailFits(e) /\ MailFits(p)
      /\ CountsFit(e) /\ CountsFit(p) /\ CreditFits(e) /\ CreditFits(p) /\ StreamFits(e) /\ StreamFits(p)
      /\ AllRead(e) /\ AllRead(p) /\ Told(e) /\ Told(p)
  BY DEF IInv, EndsFit, MailsFit, AllCountsFit, CreditsFit, StreamsFit, AllReadFit, WakeUpOnItsWay
<1>f. /\ pipe \in [Ends -> PipeT] /\ pipe[e] \in PipeT /\ pipe[p] \in PipeT
      /\ unflushed \in [Ends -> Seq(Nat)] /\ flushed \in [Ends -> Seq(Nat)]
      /\ reader \in [Ends -> {"active", "asleep", "called"}]
      /\ commands \in [Ends -> Seq(CommandT)]
      /\ pc \in [Ends -> {"idle", "activate_read", "delimit"}]
  BY <1>t, EndType DEF TypeOK
<1>e. /\ pipe' = pipe /\ pipe[e].state \in {"term_ack_sent", "term_req_sent2"}
      /\ commands' = Taken(e) /\ commands[e] # <<>> /\ Head(commands[e]).name = "pipe_term_ack"
      /\ e \notin deleted /\ pc[e] = "idle"
      /\ flushed' = [flushed EXCEPT ![p] = <<>>] /\ deleted' = deleted \cup {e}
      /\ UNCHANGED <<unflushed, reader, pc, calls, hasty>>
  BY <1>t, <1>f DEF process_pipe_term_ack, Takes, Idle, ended
<1>c. /\ commands'[e] = Tail(commands[e]) /\ commands'[p] = commands[p]
      /\ commands' \in [Ends -> Seq(CommandT)]
      /\ commands[e] \in Seq(CommandT) /\ commands[e] # <<>> /\ Head(commands[e]).name = "pipe_term_ack"
  <2>1. Tail(commands[e]) \in Seq(CommandT)
    BY <1>f, <1>e
  <2> QED
    BY <2>1, <1>t, <1>f, <1>e DEF Taken
<1>q. /\ Tail(commands[e]) = <<>> /\ Acked(p) /\ ~Has(commands[e], "pipe_term")
  <2>1. /\ Tail(commands[e]) = <<>>
        /\ \A n : Has(commands[e], n) <=> Has(<<>>, n) \/ n = "pipe_term_ack"
    <3>1. Orderly(commands[e])
      BY <1>i DEF MailFits
    <3>2. commands[e] \in Seq(CommandT) /\ commands[e] # <<>> /\ Head(commands[e]).name = "pipe_term_ack"
      BY <1>c
    <3>3. Tail(commands[e]) = <<>>
      BY <3>1, <3>2, MailTail
    <3>4. \A n : Has(commands[e], n) <=> Has(Tail(commands[e]), n) \/ Head(commands[e]).name = n
      BY <3>2, MailTail
    <3> QED
      BY <3>2, <3>3, <3>4
  <2>2. \A n : ~Has(<<>>, n)
    BY DEF Has
  <2> QED
    BY <2>1, <2>2, <1>t, <1>i DEF MailFits
<1>d. /\ commands'[e] = <<>> /\ (\A n : ~Has(commands'[e], n)) /\ Orderly(commands'[e])
  <2>1. (\A n : ~Has(<<>>, n)) /\ Orderly(<<>>)
    BY DEF Has, Orderly
  <2> QED
    BY <2>1, <1>c, <1>q
<1>x. flushed'[e] = flushed[e] /\ flushed' \in [Ends -> Seq(Nat)]
  <2>1. <<>> \in Seq(Nat)
    OBVIOUS
  <2> QED
    BY <2>1, <1>t, <1>f, <1>e
<1>T. TypeOK'
  BY <1>t, <1>f, <1>e, <1>c, <1>x DEF TypeOK
<1>E. EndFits(e)' /\ EndFits(p)'
  <2>1. EndFits(e)'
    BY <1>t, <1>i, <1>e, <1>q DEF EndFits, Asked, WasAsked, Acked
  <2>2. EndFits(p)'
    BY <1>t, <1>i, <1>e, <1>q DEF EndFits, Asked, WasAsked, Acked
  <2> QED
    BY <2>1, <2>2
<1>M. MailFits(e)' /\ MailFits(p)'
  <2>1. MailFits(e)'
    BY <1>t, <1>i, <1>e, <1>d, <1>q DEF MailFits, Asked, WasAsked, Acked
  <2>2. MailFits(p)'
    BY <1>t, <1>i, <1>e, <1>c, <1>q DEF MailFits, Asked, WasAsked, Acked
  <2> QED
    BY <2>1, <2>2
<1>C. CountsFit(e)' /\ CountsFit(p)'
  <2>1. pipe[e].peers_msgs_read \in Nat /\ pipe[p].msgs_read \in Nat
    BY <1>t, EndType
  <2>2. Rising(commands[e], pipe[e].peers_msgs_read, pipe[p].msgs_read)
    BY <1>t, <1>i DEF CountsFit
  <2>3. Rising(commands'[e], pipe[e].peers_msgs_read, pipe[p].msgs_read)
    BY <2>1, <2>2, <1>c, MailTail
  <2>4. CountsFit(e)'
    BY <2>3, <1>t, <1>i, <1>e DEF CountsFit
  <2>5. CountsFit(p)'
    BY <1>t, <1>i, <1>e, <1>c DEF CountsFit
  <2> QED
    BY <2>4, <2>5
<1>K. CreditFits(e)' /\ CreditFits(p)'
  <2>1. pipe[e].peers_msgs_read \in Nat /\ pipe[p].peers_msgs_read \in Nat
    BY <1>t, EndType
  <2>2. commands'[e] = Tail(commands[e]) /\ commands[e] \in Seq(CommandT) /\ commands[e] # <<>>
        /\ Head(commands[e]).name # "activate_write"
    BY <1>c, <1>e
  <2>3. /\ \A n \in Nat : Rising(commands[e], pipe[e].peers_msgs_read, n) =>
                            Rising(commands'[e], pipe[e].peers_msgs_read, n)
        /\ \A n : HasCount(commands[e], n) => HasCount(commands'[e], n)
    BY <2>1, <2>2, MailTail
  <2>4. CreditFits(e)'
    BY <2>3, <1>t, <1>i, <1>e DEF CreditFits, Credit
  <2>5. CreditFits(p)'
    BY <2>1, <1>t, <1>i, <1>e, <1>c DEF CreditFits, Credit
  <2> QED
    BY <2>4, <2>5
<1>S. StreamFits(e)' /\ StreamFits(p)'
  <2>1. StreamFits(e)'
    BY <1>t, <1>i, <1>e, <1>x DEF StreamFits, Ready
  <2>2. StreamFits(p)'
    BY <1>t, <1>i, <1>e, <1>x DEF StreamFits, Ready
  <2> QED
    BY <2>1, <2>2
<1>R. AllRead(e)' /\ AllRead(p)'
  BY <1>t, <1>i, <1>e DEF AllRead
<1>W. Told(e)' /\ Told(p)'
  <2>1. Told(e)'
    BY <1>t, <1>i, <1>e, <1>x DEF Told
  <2>2. Told(p)'
    BY <1>t, <1>i, <1>e, <1>x, <1>c DEF Told
  <2> QED
    BY <2>1, <2>2
<1> QED
  BY <1>T, <1>E, <1>M, <1>C, <1>K, <1>S, <1>R, <1>W
  DEF Pair, IInv, EndsFit, MailsFit, AllCountsFit, CreditsFit, StreamsFit, AllReadFit, WakeUpOnItsWay

\* terminate() of an end that nobody has asked.
LEMMA AskInv ==
    ASSUME IInv, NEW e \in Ends, NEW p \in Ends, Pair(e, p), NEW delay \in BOOLEAN,
           Terminate(e, delay), pipe[e].state \in {"active", "delimiter_received"}
    PROVE  IInv'
<1>t. TypeOK /\ p # e /\ Peer(e) = p /\ Peer(p) = e
  BY DEF IInv, Pair
<1>i. /\ EndFits(e) /\ EndFits(p) /\ MailFits(e) /\ MailFits(p)
      /\ CountsFit(e) /\ CountsFit(p) /\ CreditFits(e) /\ CreditFits(p) /\ StreamFits(e) /\ StreamFits(p)
      /\ AllRead(e) /\ AllRead(p) /\ Told(e) /\ Told(p)
  BY DEF IInv, EndsFit, MailsFit, AllCountsFit, CreditsFit, StreamsFit, AllReadFit, WakeUpOnItsWay
<1>f. /\ pipe \in [Ends -> PipeT] /\ pipe[e] \in PipeT /\ pipe[p] \in PipeT
      /\ unflushed \in [Ends -> Seq(Nat)] /\ flushed \in [Ends -> Seq(Nat)]
      /\ reader \in [Ends -> {"active", "asleep", "called"}]
      /\ commands \in [Ends -> Seq(CommandT)]
      /\ pc \in [Ends -> {"idle", "activate_read", "delimit"}]
  BY <1>t, EndType DEF TypeOK
<1> DEFINE r == [pipe[e] EXCEPT !.delay = delay, !.state = "term_req_sent1", !.outpipe = pipe[e].outpipe, !.out_active = FALSE]
<1>e. /\ pipe' = [pipe EXCEPT ![e] = r] /\ pipe[e].state \in {"active", "delimiter_received"}
      /\ commands' = Sent(e, Command("pipe_term", 0)) /\ pc' = [pc EXCEPT ![e] = "delimit"]
      /\ calls' = [calls EXCEPT ![e] = @ + 1] /\ hasty' = (IF delay THEN hasty ELSE hasty \cup {e})
      /\ UNCHANGED <<unflushed, flushed, reader, deleted>> /\ e \notin deleted /\ pc[e] = "idle"
  <2>1. pipe' = [pipe EXCEPT ![e] = r]
    <3>1. pipe[e].outpipe \in BOOLEAN /\ pipe[e].out_active \in BOOLEAN
      BY <1>f DEF PipeT
    <3> QED
      BY <3>1, <1>t, <1>f DEF Terminate
  <2>2. commands' = Sent(e, Command("pipe_term", 0)) /\ pc' = [pc EXCEPT ![e] = "delimit"]
    BY <1>t DEF Terminate
  <2>3. /\ calls' = [calls EXCEPT ![e] = @ + 1] /\ hasty' = (IF delay THEN hasty ELSE hasty \cup {e})
        /\ UNCHANGED <<unflushed, flushed, reader, deleted>> /\ e \notin deleted /\ pc[e] = "idle"
    BY DEF Terminate, Idle, flow
  <2> QED
    BY <2>1, <2>2, <2>3
<1>n. (delay) \in BOOLEAN /\ ("term_req_sent1") \in States /\ (pipe[e].outpipe) \in BOOLEAN /\ (FALSE) \in BOOLEAN
  BY <1>f, <1>t DEF PipeT, States
<1>r. r \in PipeT
  BY <1>f, <1>n DEF PipeT
<1>g. /\ r.state = "term_req_sent1"
      /\ r.delay = delay
      /\ r.in_active = pipe[e].in_active
      /\ r.out_active = FALSE
      /\ r.outpipe = pipe[e].outpipe
      /\ r.msgs_read = pipe[e].msgs_read
      /\ r.msgs_written = pipe[e].msgs_written
      /\ r.peers_msgs_read = pipe[e].peers_msgs_read
  BY <1>f DEF PipeT
<1> HIDE DEF r
<1>h. pipe'[e] = r /\ pipe'[p] = pipe[p]
  BY <1>t, <1>f, <1>e
<1>c. /\ commands'[p] = Append(commands[p], Command("pipe_term", 0)) /\ commands'[e] = commands[e]
      /\ commands' \in [Ends -> Seq(CommandT)] /\ Command("pipe_term", 0) \in CommandT /\ commands[p] \in Seq(CommandT)
  <2>1. Command("pipe_term", 0) \in CommandT /\ commands[p] \in Seq(CommandT)
    BY <1>f DEF CommandT, Command, Names
  <2>2. Append(commands[p], Command("pipe_term", 0)) \in Seq(CommandT)
    BY <2>1
  <2> QED
    BY <2>1, <2>2, <1>t, <1>f, <1>e DEF Sent
<1>q. /\ p \notin deleted /\ ~Acked(e) /\ ~Has(commands[p], "pipe_term_ack") /\ Orderly(commands[p])
      /\ ~WasAsked(p) /\ ~WasAsked(e) /\ ~Has(commands[p], "pipe_term")
  BY <1>t, <1>i, <1>e DEF EndFits, MailFits, Acked, Asked, WasAsked
<1>d. /\ \A n : Has(commands'[p], n) <=> Has(commands[p], n) \/ n = "pipe_term"
      /\ Orderly(commands'[p])
      /\ \A low, high \in Nat : Rising(commands[p], low, high) => Rising(commands'[p], low, high)
      /\ \A n : HasCount(commands[p], n) => HasCount(commands'[p], n)
  BY <1>c, <1>q, MailAppend, CountAppend DEF Command
<1>T. TypeOK'
  <2>1. calls' \in [Ends -> Nat] /\ hasty' \in SUBSET Ends
    BY <1>t, <1>e DEF TypeOK
  <2> QED
    BY <2>1, <1>t, <1>f, <1>e, <1>r, <1>c DEF TypeOK
<1>E. EndFits(e)' /\ EndFits(p)'
  <2>1. EndFits(e)'
    BY <1>t, <1>i, <1>e, <1>g, <1>h, <1>f, <1>q DEF EndFits, Asked, WasAsked, Acked
  <2>2. EndFits(p)'
    BY <1>t, <1>i, <1>e, <1>g, <1>h, <1>f, <1>q DEF EndFits, Asked, WasAsked, Acked
  <2> QED
    BY <2>1, <2>2
<1>M. MailFits(e)' /\ MailFits(p)'
  <2>1. MailFits(e)'
    BY <1>t, <1>i, <1>e, <1>g, <1>h, <1>c, <1>q DEF MailFits, Asked, WasAsked, Acked
  <2>2. MailFits(p)'
    BY <1>t, <1>i, <1>e, <1>g, <1>h, <1>d, <1>q DEF MailFits, Asked, WasAsked, Acked
  <2> QED
    BY <2>1, <2>2
<1>C. CountsFit(e)' /\ CountsFit(p)'
  <2>1. pipe[p].peers_msgs_read \in Nat /\ pipe[e].msgs_read \in Nat
    BY <1>t, EndType
  <2>2. CountsFit(e)'
    BY <1>t, <1>i, <1>e, <1>g, <1>h, <1>c DEF CountsFit
  <2>3. CountsFit(p)'
    BY <2>1, <1>t, <1>i, <1>e, <1>g, <1>h, <1>c, <1>d DEF CountsFit
  <2> QED
    BY <2>2, <2>3
<1>K. CreditFits(e)' /\ CreditFits(p)'
  <2>1. pipe[p].peers_msgs_read \in Nat
    BY <1>t, EndType
  <2>2. CreditFits(e)'
    BY <1>t, <1>i, <1>e, <1>g, <1>h, <1>c DEF CreditFits, Credit
  <2>3. CreditFits(p)'
    BY <2>1, <1>t, <1>i, <1>e, <1>g, <1>h, <1>c, <1>d DEF CreditFits, Credit
  <2> QED
    BY <2>2, <2>3
<1>S. StreamFits(e)' /\ StreamFits(p)'
  BY <1>t, <1>i, <1>e, <1>g, <1>h DEF StreamFits, Ready
<1>R. AllRead(e)' /\ AllRead(p)'
  <2>1. AllRead(e)'
    BY <1>t, <1>i, <1>e, <1>g, <1>h, <1>q DEF AllRead
  <2>2. AllRead(p)'
    BY <1>t, <1>i, <1>e, <1>g, <1>h, <1>q DEF AllRead, WasAsked
  <2> QED
    BY <2>1, <2>2
<1>W. Told(e)' /\ Told(p)'
  <2>1. Told(e)'
    BY <1>t, <1>i, <1>e, <1>g, <1>h, <1>c, <1>f DEF Told
  <2>2. Told(p)'
    BY <1>t, <1>i, <1>e, <1>g, <1>h, <1>d, <1>f DEF Told
  <2> QED
    BY <2>1, <2>2
<1> QED
  BY <1>T, <1>E, <1>M, <1>C, <1>K, <1>S, <1>R, <1>W
  DEF Pair, IInv, EndsFit, MailsFit, AllCountsFit, CreditsFit, StreamsFit, AllReadFit, WakeUpOnItsWay

\* terminate() without delay of an end that still waits for the delimiter.
LEMMA AckAtOnceInv ==
    ASSUME IInv, NEW e \in Ends, NEW p \in Ends, Pair(e, p), NEW delay \in BOOLEAN,
           Terminate(e, delay), pipe[e].state = "waiting_for_delimiter", ~delay
    PROVE  IInv'
<1>t. TypeOK /\ p # e /\ Peer(e) = p /\ Peer(p) = e
  BY DEF IInv, Pair
<1>i. /\ EndFits(e) /\ EndFits(p) /\ MailFits(e) /\ MailFits(p)
      /\ CountsFit(e) /\ CountsFit(p) /\ CreditFits(e) /\ CreditFits(p) /\ StreamFits(e) /\ StreamFits(p)
      /\ AllRead(e) /\ AllRead(p) /\ Told(e) /\ Told(p)
  BY DEF IInv, EndsFit, MailsFit, AllCountsFit, CreditsFit, StreamsFit, AllReadFit, WakeUpOnItsWay
<1>f. /\ pipe \in [Ends -> PipeT] /\ pipe[e] \in PipeT /\ pipe[p] \in PipeT
      /\ unflushed \in [Ends -> Seq(Nat)] /\ flushed \in [Ends -> Seq(Nat)]
      /\ reader \in [Ends -> {"active", "asleep", "called"}]
      /\ commands \in [Ends -> Seq(CommandT)]
      /\ pc \in [Ends -> {"idle", "activate_read", "delimit"}]
  BY <1>t, EndType DEF TypeOK
<1> DEFINE r == [pipe[e] EXCEPT !.delay = delay, !.state = "term_ack_sent", !.outpipe = FALSE, !.out_active = FALSE]
<1>e. /\ pipe' = [pipe EXCEPT ![e] = r] /\ pipe[e].state = "waiting_for_delimiter" /\ ~delay
      /\ commands' = Sent(e, Command("pipe_term_ack", 0)) /\ pc' = [pc EXCEPT ![e] = "idle"]
      /\ calls' = [calls EXCEPT ![e] = @ + 1] /\ hasty' = (IF delay THEN hasty ELSE hasty \cup {e})
      /\ UNCHANGED <<unflushed, flushed, reader, deleted>> /\ e \notin deleted /\ pc[e] = "idle"
  <2>1. pipe' = [pipe EXCEPT ![e] = r]
    <3>1. pipe[e].outpipe \in BOOLEAN /\ pipe[e].out_active \in BOOLEAN
      BY <1>f DEF PipeT
    <3> QED
      BY <3>1, <1>t, <1>f DEF Terminate
  <2>2. commands' = Sent(e, Command("pipe_term_ack", 0)) /\ pc' = [pc EXCEPT ![e] = "idle"]
    BY <1>t DEF Terminate
  <2>3. /\ calls' = [calls EXCEPT ![e] = @ + 1] /\ hasty' = (IF delay THEN hasty ELSE hasty \cup {e})
        /\ UNCHANGED <<unflushed, flushed, reader, deleted>> /\ e \notin deleted /\ pc[e] = "idle"
    BY DEF Terminate, Idle, flow
  <2> QED
    BY <2>1, <2>2, <2>3
<1>n. (delay) \in BOOLEAN /\ ("term_ack_sent") \in States /\ (FALSE) \in BOOLEAN /\ (FALSE) \in BOOLEAN
  BY <1>f, <1>t DEF PipeT, States
<1>r. r \in PipeT
  BY <1>f, <1>n DEF PipeT
<1>g. /\ r.state = "term_ack_sent"
      /\ r.delay = delay
      /\ r.in_active = pipe[e].in_active
      /\ r.out_active = FALSE
      /\ r.outpipe = FALSE
      /\ r.msgs_read = pipe[e].msgs_read
      /\ r.msgs_written = pipe[e].msgs_written
      /\ r.peers_msgs_read = pipe[e].peers_msgs_read
  BY <1>f DEF PipeT
<1> HIDE DEF r
<1>h. pipe'[e] = r /\ pipe'[p] = pipe[p]
  BY <1>t, <1>f, <1>e
<1>c. /\ commands'[p] = Append(commands[p], Command("pipe_term_ack", 0)) /\ commands'[e] = commands[e]
      /\ commands' \in [Ends -> Seq(CommandT)] /\ Command("pipe_term_ack", 0) \in CommandT /\ commands[p] \in Seq(CommandT)
  <2>1. Command("pipe_term_ack", 0) \in CommandT /\ commands[p] \in Seq(CommandT)
    BY <1>f DEF CommandT, Command, Names
  <2>2. Append(commands[p], Command("pipe_term_ack", 0)) \in Seq(CommandT)
    BY <2>1
  <2> QED
    BY <2>1, <2>2, <1>t, <1>f, <1>e DEF Sent
<1>q. p \notin deleted /\ ~Acked(e) /\ ~Has(commands[p], "pipe_term_ack") /\ Orderly(commands[p])
  BY <1>t, <1>i, <1>e DEF EndFits, MailFits, Acked
<1>d. /\ \A n : Has(commands'[p], n) <=> Has(commands[p], n) \/ n = "pipe_term_ack"
      /\ Orderly(commands'[p])
      /\ \A low, high \in Nat : Rising(commands[p], low, high) => Rising(commands'[p], low, high)
      /\ \A n : HasCount(commands[p], n) => HasCount(commands'[p], n)
  BY <1>c, <1>q, MailAppend, CountAppend DEF Command
<1>T. TypeOK'
  <2>1. calls' \in [Ends -> Nat] /\ hasty' \in SUBSET Ends
    BY <1>t, <1>e DEF TypeOK
  <2> QED
    BY <2>1, <1>t, <1>f, <1>e, <1>r, <1>c DEF TypeOK
<1>E. EndFits(e)' /\ EndFits(p)'
  <2>1. EndFits(e)'
    BY <1>t, <1>i, <1>e, <1>g, <1>h, <1>f, <1>q DEF EndFits, Asked, WasAsked, Acked
  <2>2. EndFits(p)'
    BY <1>t, <1>i, <1>e, <1>g, <1>h, <1>f, <1>q DEF EndFits, Asked, WasAsked, Acked
  <2> QED
    BY <2>1, <2>2
<1>M. MailFits(e)' /\ MailFits(p)'
  <2>1. MailFits(e)'
    BY <1>t, <1>i, <1>e, <1>g, <1>h, <1>c, <1>q DEF MailFits, Asked, WasAsked, Acked
  <2>2. MailFits(p)'
    BY <1>t, <1>i, <1>e, <1>g, <1>h, <1>d, <1>q DEF MailFits, Asked, WasAsked, Acked
  <2> QED
    BY <2>1, <2>2
<1>C. CountsFit(e)' /\ CountsFit(p)'
  <2>1. pipe[p].peers_msgs_read \in Nat /\ pipe[e].msgs_read \in Nat
    BY <1>t, EndType
  <2>2. CountsFit(e)'
    BY <1>t, <1>i, <1>e, <1>g, <1>h, <1>c DEF CountsFit
  <2>3. CountsFit(p)'
    BY <2>1, <1>t, <1>i, <1>e, <1>g, <1>h, <1>c, <1>d DEF CountsFit
  <2> QED
    BY <2>2, <2>3
<1>K. CreditFits(e)' /\ CreditFits(p)'
  <2>1. pipe[p].peers_msgs_read \in Nat
    BY <1>t, EndType
  <2>2. CreditFits(e)'
    BY <1>t, <1>i, <1>e, <1>g, <1>h, <1>c DEF CreditFits, Credit
  <2>3. CreditFits(p)'
    BY <2>1, <1>t, <1>i, <1>e, <1>g, <1>h, <1>c, <1>d DEF CreditFits, Credit
  <2> QED
    BY <2>2, <2>3
<1>S. StreamFits(e)' /\ StreamFits(p)'
  BY <1>t, <1>i, <1>e, <1>g, <1>h DEF StreamFits, Ready
<1>R. AllRead(e)' /\ AllRead(p)'
  BY <1>t, <1>i, <1>e, <1>g, <1>h DEF AllRead
<1>W. Told(e)' /\ Told(p)'
  <2>1. Told(e)'
    BY <1>t, <1>i, <1>e, <1>g, <1>h, <1>c, <1>f DEF Told
  <2>2. Told(p)'
    BY <1>t, <1>i, <1>e, <1>g, <1>h, <1>d, <1>f DEF Told
  <2> QED
    BY <2>1, <2>2
<1> QED
  BY <1>T, <1>E, <1>M, <1>C, <1>K, <1>S, <1>R, <1>W
  DEF Pair, IInv, EndsFit, MailsFit, AllCountsFit, CreditsFit, StreamsFit, AllReadFit, WakeUpOnItsWay

\* terminate() of an end that waits for the delimiter, which goes on waiting.
LEMMA LingerInv ==
    ASSUME IInv, NEW e \in Ends, NEW p \in Ends, Pair(e, p), NEW delay \in BOOLEAN,
           Terminate(e, delay), pipe[e].state = "waiting_for_delimiter", delay
    PROVE  IInv'
<1>t. TypeOK /\ p # e /\ Peer(e) = p /\ Peer(p) = e
  BY DEF IInv, Pair
<1>i. /\ EndFits(e) /\ EndFits(p) /\ MailFits(e) /\ MailFits(p)
      /\ CountsFit(e) /\ CountsFit(p) /\ CreditFits(e) /\ CreditFits(p) /\ StreamFits(e) /\ StreamFits(p)
      /\ AllRead(e) /\ AllRead(p) /\ Told(e) /\ Told(p)
  BY DEF IInv, EndsFit, MailsFit, AllCountsFit, CreditsFit, StreamsFit, AllReadFit, WakeUpOnItsWay
<1>f. /\ pipe \in [Ends -> PipeT] /\ pipe[e] \in PipeT /\ pipe[p] \in PipeT
      /\ unflushed \in [Ends -> Seq(Nat)] /\ flushed \in [Ends -> Seq(Nat)]
      /\ reader \in [Ends -> {"active", "asleep", "called"}]
      /\ commands \in [Ends -> Seq(CommandT)]
      /\ pc \in [Ends -> {"idle", "activate_read", "delimit"}]
  BY <1>t, EndType DEF TypeOK
<1> DEFINE r == [pipe[e] EXCEPT !.delay = delay, !.state = pipe[e].state, !.outpipe = pipe[e].outpipe, !.out_active = FALSE]
<1>e. /\ pipe' = [pipe EXCEPT ![e] = r] /\ pipe[e].state = "waiting_for_delimiter" /\ delay
      /\ commands' = commands /\ pc' = [pc EXCEPT ![e] = "delimit"]
      /\ calls' = [calls EXCEPT ![e] = @ + 1] /\ hasty' = (IF delay THEN hasty ELSE hasty \cup {e})
      /\ UNCHANGED <<unflushed, flushed, reader, deleted>> /\ e \notin deleted /\ pc[e] = "idle"
  <2>1. pipe' = [pipe EXCEPT ![e] = r]
    <3>1. pipe[e].outpipe \in BOOLEAN /\ pipe[e].out_active \in BOOLEAN
      BY <1>f DEF PipeT
    <3> QED
      BY <3>1, <1>t, <1>f DEF Terminate
  <2>2. commands' = commands /\ pc' = [pc EXCEPT ![e] = "delimit"]
    BY <1>t DEF Terminate
  <2>3. /\ calls' = [calls EXCEPT ![e] = @ + 1] /\ hasty' = (IF delay THEN hasty ELSE hasty \cup {e})
        /\ UNCHANGED <<unflushed, flushed, reader, deleted>> /\ e \notin deleted /\ pc[e] = "idle"
    BY DEF Terminate, Idle, flow
  <2> QED
    BY <2>1, <2>2, <2>3
<1>n. (delay) \in BOOLEAN /\ (pipe[e].state) \in States /\ (pipe[e].outpipe) \in BOOLEAN /\ (FALSE) \in BOOLEAN
  BY <1>f, <1>t DEF PipeT, States
<1>r. r \in PipeT
  BY <1>f, <1>n DEF PipeT
<1>g. /\ r.state = pipe[e].state
      /\ r.delay = delay
      /\ r.in_active = pipe[e].in_active
      /\ r.out_active = FALSE
      /\ r.outpipe = pipe[e].outpipe
      /\ r.msgs_read = pipe[e].msgs_read
      /\ r.msgs_written = pipe[e].msgs_written
      /\ r.peers_msgs_read = pipe[e].peers_msgs_read
  BY <1>f DEF PipeT
<1> HIDE DEF r
<1>h. pipe'[e] = r /\ pipe'[p] = pipe[p]
  BY <1>t, <1>f, <1>e
<1>T. TypeOK'
  <2>1. calls' \in [Ends -> Nat] /\ hasty' \in SUBSET Ends
    BY <1>t, <1>e DEF TypeOK
  <2> QED
    BY <2>1, <1>t, <1>f, <1>e, <1>r DEF TypeOK
<1>E. EndFits(e)' /\ EndFits(p)'
  <2>1. EndFits(e)'
    BY <1>t, <1>i, <1>e, <1>g, <1>h, <1>f DEF EndFits, Asked, WasAsked, Acked
  <2>2. EndFits(p)'
    BY <1>t, <1>i, <1>e, <1>g, <1>h, <1>f DEF EndFits, Asked, WasAsked, Acked
  <2> QED
    BY <2>1, <2>2
<1>M. MailFits(e)' /\ MailFits(p)'
  BY <1>t, <1>i, <1>e, <1>g, <1>h DEF MailFits, Asked, WasAsked, Acked
<1>C. CountsFit(e)' /\ CountsFit(p)'
  BY <1>t, <1>i, <1>e, <1>g, <1>h DEF CountsFit
<1>K. CreditFits(e)' /\ CreditFits(p)'
  BY <1>t, <1>i, <1>e, <1>g, <1>h DEF CreditFits, Credit
<1>S. StreamFits(e)' /\ StreamFits(p)'
  BY <1>t, <1>i, <1>e, <1>g, <1>h DEF StreamFits, Ready
<1>R. AllRead(e)' /\ AllRead(p)'
  BY <1>t, <1>i, <1>e, <1>g, <1>h DEF AllRead
<1>W. Told(e)' /\ Told(p)'
  <2>1. Told(e)'
    BY <1>t, <1>i, <1>e, <1>g, <1>h, <1>f DEF Told
  <2>2. Told(p)'
    BY <1>t, <1>i, <1>e, <1>g, <1>h, <1>f DEF Told
  <2> QED
    BY <2>1, <2>2
<1> QED
  BY <1>T, <1>E, <1>M, <1>C, <1>K, <1>S, <1>R, <1>W
  DEF Pair, IInv, EndsFit, MailsFit, AllCountsFit, CreditsFit, StreamsFit, AllReadFit, WakeUpOnItsWay

\* terminate() of an end that is terminating.
LEMMA LateInv ==
    ASSUME IInv, NEW e \in Ends, NEW p \in Ends, Pair(e, p), NEW delay \in BOOLEAN,
           Terminate(e, delay), pipe[e].state \in {"term_req_sent1", "term_req_sent2", "term_ack_sent"}
    PROVE  IInv'
<1>t. TypeOK /\ p # e /\ Peer(e) = p /\ Peer(p) = e
  BY DEF IInv, Pair
<1>i. /\ EndFits(e) /\ EndFits(p) /\ MailFits(e) /\ MailFits(p)
      /\ CountsFit(e) /\ CountsFit(p) /\ CreditFits(e) /\ CreditFits(p) /\ StreamFits(e) /\ StreamFits(p)
      /\ AllRead(e) /\ AllRead(p) /\ Told(e) /\ Told(p)
  BY DEF IInv, EndsFit, MailsFit, AllCountsFit, CreditsFit, StreamsFit, AllReadFit, WakeUpOnItsWay
<1>f. /\ pipe \in [Ends -> PipeT] /\ pipe[e] \in PipeT /\ pipe[p] \in PipeT
      /\ unflushed \in [Ends -> Seq(Nat)] /\ flushed \in [Ends -> Seq(Nat)]
      /\ reader \in [Ends -> {"active", "asleep", "called"}]
      /\ commands \in [Ends -> Seq(CommandT)]
      /\ pc \in [Ends -> {"idle", "activate_read", "delimit"}]
  BY <1>t, EndType DEF TypeOK
<1> DEFINE r == [pipe[e] EXCEPT !.delay = delay, !.state = pipe[e].state, !.outpipe = pipe[e].outpipe, !.out_active = pipe[e].out_active]
<1>e. /\ pipe' = [pipe EXCEPT ![e] = r] /\ pipe[e].state \in {"term_req_sent1", "term_req_sent2", "term_ack_sent"}
      /\ commands' = commands /\ pc' = [pc EXCEPT ![e] = "idle"]
      /\ calls' = [calls EXCEPT ![e] = @ + 1] /\ hasty' = (IF delay THEN hasty ELSE hasty \cup {e})
      /\ UNCHANGED <<unflushed, flushed, reader, deleted>> /\ e \notin deleted /\ pc[e] = "idle"
  <2>1. pipe' = [pipe EXCEPT ![e] = r]
    <3>1. pipe[e].outpipe \in BOOLEAN /\ pipe[e].out_active \in BOOLEAN
      BY <1>f DEF PipeT
    <3> QED
      BY <3>1, <1>t, <1>f DEF Terminate
  <2>2. commands' = commands /\ pc' = [pc EXCEPT ![e] = "idle"]
    BY <1>t DEF Terminate
  <2>3. /\ calls' = [calls EXCEPT ![e] = @ + 1] /\ hasty' = (IF delay THEN hasty ELSE hasty \cup {e})
        /\ UNCHANGED <<unflushed, flushed, reader, deleted>> /\ e \notin deleted /\ pc[e] = "idle"
    BY DEF Terminate, Idle, flow
  <2> QED
    BY <2>1, <2>2, <2>3
<1>n. (delay) \in BOOLEAN /\ (pipe[e].state) \in States /\ (pipe[e].outpipe) \in BOOLEAN /\ (pipe[e].out_active) \in BOOLEAN
  BY <1>f, <1>t DEF PipeT, States
<1>r. r \in PipeT
  BY <1>f, <1>n DEF PipeT
<1>g. /\ r.state = pipe[e].state
      /\ r.delay = delay
      /\ r.in_active = pipe[e].in_active
      /\ r.out_active = pipe[e].out_active
      /\ r.outpipe = pipe[e].outpipe
      /\ r.msgs_read = pipe[e].msgs_read
      /\ r.msgs_written = pipe[e].msgs_written
      /\ r.peers_msgs_read = pipe[e].peers_msgs_read
  BY <1>f DEF PipeT
<1> HIDE DEF r
<1>h. pipe'[e] = r /\ pipe'[p] = pipe[p]
  BY <1>t, <1>f, <1>e
<1>T. TypeOK'
  <2>1. calls' \in [Ends -> Nat] /\ hasty' \in SUBSET Ends
    BY <1>t, <1>e DEF TypeOK
  <2> QED
    BY <2>1, <1>t, <1>f, <1>e, <1>r DEF TypeOK
<1>E. EndFits(e)' /\ EndFits(p)'
  <2>1. EndFits(e)'
    BY <1>t, <1>i, <1>e, <1>g, <1>h, <1>f DEF EndFits, Asked, WasAsked, Acked
  <2>2. EndFits(p)'
    BY <1>t, <1>i, <1>e, <1>g, <1>h, <1>f DEF EndFits, Asked, WasAsked, Acked
  <2> QED
    BY <2>1, <2>2
<1>M. MailFits(e)' /\ MailFits(p)'
  BY <1>t, <1>i, <1>e, <1>g, <1>h DEF MailFits, Asked, WasAsked, Acked
<1>C. CountsFit(e)' /\ CountsFit(p)'
  BY <1>t, <1>i, <1>e, <1>g, <1>h DEF CountsFit
<1>K. CreditFits(e)' /\ CreditFits(p)'
  BY <1>t, <1>i, <1>e, <1>g, <1>h DEF CreditFits, Credit
<1>S. StreamFits(e)' /\ StreamFits(p)'
  BY <1>t, <1>i, <1>e, <1>g, <1>h DEF StreamFits, Ready
<1>R. AllRead(e)' /\ AllRead(p)'
  BY <1>t, <1>i, <1>e, <1>g, <1>h DEF AllRead
<1>W. Told(e)' /\ Told(p)'
  <2>1. Told(e)'
    BY <1>t, <1>i, <1>e, <1>g, <1>h, <1>f DEF Told
  <2>2. Told(p)'
    BY <1>t, <1>i, <1>e, <1>g, <1>h, <1>f DEF Told
  <2> QED
    BY <2>1, <2>2
<1> QED
  BY <1>T, <1>E, <1>M, <1>C, <1>K, <1>S, <1>R, <1>W
  DEF Pair, IInv, EndsFit, MailsFit, AllCountsFit, CreditsFit, StreamsFit, AllReadFit, WakeUpOnItsWay

-----------------------------------------------------------------------------
LEMMA InitInv == Init => IInv
<1> SUFFICES ASSUME Init PROVE IInv
  OBVIOUS
<1>e. ASSUME NEW e \in Ends
      PROVE  /\ pipe[e].state = "active" /\ pipe[e].delay /\ pipe[e].in_active
             /\ pipe[e].out_active /\ pipe[e].outpipe /\ pipe[e].msgs_read = 0 /\ pipe[e].msgs_written = 0
             /\ pipe[e].peers_msgs_read = 0
             /\ unflushed[e] = <<>> /\ flushed[e] = <<>> /\ reader[e] = "active"
             /\ commands[e] = <<>> /\ pc[e] = "idle" /\ e \notin deleted
  BY <1>e DEF Init
<1>p. \A e \in Ends : Peer(e) \in Ends
  BY TwoEnds
<1>1. TypeOK
  <2>1. <<>> \in Seq(Nat) /\ <<>> \in Seq(CommandT)
    OBVIOUS
  <2> QED
    BY <2>1 DEF Init, TypeOK, PipeT, States
<1>2. EndsFit
  BY <1>e, <1>p DEF EndsFit, EndFits, Asked, WasAsked, Acked
<1>3. MailsFit
  <2>1. (\A n : ~Has(<<>>, n)) /\ Orderly(<<>>)
    BY DEF Has, Orderly
  <2> QED
    BY <1>e, <1>p, <2>1 DEF MailsFit, MailFits, Asked, WasAsked, Acked
<1>4. AllCountsFit
  <2>1. Rising(<<>>, 0, 0)
    BY DEF Rising
  <2>2. ASSUME NEW e \in Ends PROVE CountsFit(e)
    <3>1. hwm[e] \in Nat
      BY PipesAssumption
    <3>2. hwm[e] > 0 => 0 - 0 <= hwm[e]
      BY <3>1
    <3>3. /\ pipe[e].peers_msgs_read = 0 /\ pipe[e].msgs_written = 0
          /\ pipe[Peer(e)].msgs_read = 0 /\ commands[e] = <<>>
      BY <1>e, <1>p
    <3>4. hwm[e] > 0 => pipe[e].msgs_written - pipe[e].peers_msgs_read <= hwm[e]
      BY <3>2, <3>3
    <3>5. /\ pipe[e].peers_msgs_read <= pipe[Peer(e)].msgs_read
          /\ Rising(commands[e], pipe[e].peers_msgs_read, pipe[Peer(e)].msgs_read)
      BY <2>1, <3>3
    <3> QED
      BY <3>4, <3>5 DEF CountsFit
  <2> QED
    BY <2>2 DEF AllCountsFit
<1>8. CreditsFit
  <2>0. SUFFICES ASSUME NEW e \in Ends, hwm[e] > 0 PROVE Credit(e, 0)
    <3>1. \A e \in Ends : hwm[e] > 0 => \E c \in Nat : Credit(e, c)
      <4>1. 0 \in Nat
        OBVIOUS
      <4> QED
        BY <4>1, <2>0
    <3> QED
      BY <3>1, <1>e DEF CreditsFit, CreditFits
  <2>1. lwm(Peer(e)) \in Nat /\ lwm(Peer(e)) > 0
    BY <2>0, LowWatermark
  <2>2. Multiple(0, lwm(Peer(e))) /\ 0 < 0 + lwm(Peer(e))
    <3>1. 0 = 0 * lwm(Peer(e)) /\ 0 < 0 + lwm(Peer(e))
      BY <2>1
    <3> QED
      BY <3>1 DEF Multiple
  <2>3. Rising(<<>>, 0, 0)
    BY DEF Rising
  <2> QED
    BY <2>0, <1>e, <1>p, <2>2, <2>3 DEF Credit
<1>5. StreamsFit
  <2>1. Stream(<<>>, <<>>, 0) /\ Len(<<>>) = 0
    BY DEF Stream
  <2>2. ASSUME NEW e \in Ends PROVE Ready(e) = 0
    <3>1. /\ pipe[e].msgs_written = 0 /\ pipe[Peer(e)].msgs_read = 0
          /\ unflushed[e] = <<>>
      BY <1>e, <1>p
    <3>2. Ready(e) = 0 - 0 - Len(<<>>)
      BY <3>1 DEF Ready
    <3>3. 0 - 0 - 0 = 0
      OBVIOUS
    <3> QED
      BY <2>1, <3>2, <3>3
  <2> QED
    BY <1>e, <2>1, <2>2 DEF StreamsFit, StreamFits
<1>6. AllReadFit
  BY <1>e DEF AllReadFit, AllRead
<1>7. WakeUpOnItsWay
  BY <1>e DEF WakeUpOnItsWay, Told
<1> QED
  BY <1>1, <1>2, <1>3, <1>4, <1>5, <1>6, <1>7, <1>8 DEF IInv

LEMMA StepInv == IInv /\ [Next]_vars => IInv'
<1> SUFFICES ASSUME IInv, [Next]_vars PROVE IInv'
  OBVIOUS
<1>1. CASE UNCHANGED vars
  BY <1>1 DEF vars, flow, ended, IInv, TypeOK, EndsFit, EndFits, MailsFit, MailFits, AllCountsFit,
     CountsFit, CreditsFit, CreditFits, Credit, StreamsFit, StreamFits, Ready, AllReadFit, AllRead, WakeUpOnItsWay, Told,
     Asked, WasAsked, Acked
<1>2. ASSUME NEW e \in Ends,
             \/ Write(e) \/ Stop(e) \/ Flush(e)
             \/ Reads(e) \/ Processes(e)
             \/ ActivateRead(e) \/ Delimit(e)
             \/ \E delay \in Delays[e] : Terminate(e, delay)
      PROVE  IInv'
  <2> DEFINE p == Peer(e)
  <2>p. p \in Ends /\ Pair(e, p)
    BY TwoEnds DEF Pair
  <2>i. TypeOK /\ EndFits(e)
    BY DEF IInv, EndsFit
  <2>f. pipe[e].state \in States /\ pipe[e].in_active \in BOOLEAN
    BY <2>i, EndType
  <2> HIDE DEF p
  <2>1. CASE Write(e)
    BY <2>1, <2>p, WriteInv
  <2>2. CASE Stop(e)
    BY <2>2, <2>p, StopInv
  <2>3. CASE Flush(e)
    <3>1. /\ FlushWith(e, <<>>) /\ UNCHANGED <<pipe, commands, deleted, ended>>
          /\ pc[e] # "activate_read" /\ ~Acked(e)
      BY <2>3, <2>i DEF Flush, Idle, EndFits
    <3>2. <<>> # <<delimiter>> /\ <<>> \in {<<>>, <<delimiter>>}
      OBVIOUS
    <3> QED
      BY <3>1, <3>2, <2>p, FlushInv
  <2>4. CASE Delimit(e)
    <3>1. /\ FlushWith(e, <<delimiter>>) /\ UNCHANGED <<pipe, commands, deleted, ended>>
          /\ pc[e] # "activate_read" /\ ~Acked(e) /\ pipe[e].state # "active"
      BY <2>4, <2>i DEF Delimit, EndFits
    <3> QED
      BY <3>1, <2>p, FlushInv
  <2>5. CASE ActivateRead(e)
    BY <2>5, <2>p, ActivateReadInv
  <2>6. CASE Reads(e)
    <3>1. CASE ReadMessage(e)
      BY <3>1, <2>p, ReadMessageInv
    <3>2. CASE ReadNothing(e)
      BY <3>2, <2>p, ReadNothingInv
    <3>3. CASE ReadDelimiter(e)
      <4>1. pipe[e].state = "active" \/ pipe[e].state = "waiting_for_delimiter"
        BY <3>3 DEF ReadDelimiter, Readable
      <4> QED
        BY <3>3, <4>1, <2>p, DelimiterFirstInv, DelimiterLastInv
    <3> QED
      BY <2>6, <3>1, <3>2, <3>3 DEF Reads
  <2>7. CASE Processes(e)
    <3>1. CASE process_activate_read(e)
      BY <3>1, <2>p, WokenInv, NotWokenInv
    <3>2. CASE process_activate_write(e)
      BY <3>2, <2>p, ActivateWriteInv
    <3>3. CASE process_pipe_term(e)
      BY <3>3, <2>p, AskedInv, AckInv
    <3>4. CASE process_pipe_term_ack(e)
      BY <3>4, <2>p, AckedFirstInv, AckedLastInv
    <3> QED
      BY <2>7, <3>1, <3>2, <3>3, <3>4 DEF Processes
  <2>8. CASE \E delay \in Delays[e] : Terminate(e, delay)
    <3>1. PICK delay \in Delays[e] : Terminate(e, delay)
      BY <2>8
    <3>2. delay \in BOOLEAN
      BY PipesAssumption
    <3>3. CASE pipe[e].state \in {"active", "delimiter_received"}
      BY <3>1, <3>2, <3>3, <2>p, AskInv
    <3>4. CASE pipe[e].state = "waiting_for_delimiter"
      BY <3>1, <3>2, <3>4, <2>p, AckAtOnceInv, LingerInv
    <3>5. CASE pipe[e].state \in {"term_req_sent1", "term_req_sent2", "term_ack_sent"}
      BY <3>1, <3>2, <3>5, <2>p, LateInv
    <3> QED
      BY <3>3, <3>4, <3>5, <2>f DEF States
  <2> QED
    BY <1>2, <2>1, <2>2, <2>3, <2>4, <2>5, <2>6, <2>7, <2>8
<1>3. CASE Over \/ Quiet
  BY <1>1, <1>3 DEF Over, Quiet
<1> QED
  BY <1>1, <1>2, <1>3 DEF Next

LEMMA InvHolds == Spec => []IInv
BY InitInv, StepInv, PTL DEF Spec

\* Type correctness of every reachable state of a pair of pipes.
THEOREM PipeTypeCorrect == Spec => []TypeOK
<1>1. IInv => TypeOK
  BY DEF IInv
<1> QED
  BY <1>1, InvHolds, PTL

\* Whatever calls of terminate(), delimiters and commands cross: the assertions
\* of process_pipe_term() and process_pipe_term_ack() hold, nothing is sent to
\* an end that is deallocated, and no end keeps a queue its peer has freed
\* (pipe.cpp:233-241, 280-363).
THEOREM ProtocolHolds == Spec => []ProtocolKept
<1>1. IInv => ProtocolKept
  <2> SUFFICES ASSUME IInv PROVE ProtocolKept
    OBVIOUS
  <2>1. ASSUME NEW e \in Ends
        PROVE  /\ Peer(e) \in Ends /\ Peer(Peer(e)) = e /\ pipe[e].state \in States
               /\ EndFits(e) /\ EndFits(Peer(e)) /\ MailFits(e)
    BY TwoEnds, EndType DEF IInv, EndsFit, MailsFit
  <2>2. ASSUME NEW e \in Ends, NEW n, Takes(e, n) PROVE Has(commands[e], n) /\ e \notin deleted
    <3>1. commands[e] \in Seq(CommandT) /\ commands[e] # <<>> /\ Head(commands[e]).name = n
      BY <2>2, EndType DEF Takes, IInv
    <3>2. Has(commands[e], n)
      BY <3>1, MailTail
    <3> QED
      BY <2>2, <3>2 DEF Takes, Idle
  <2>3. AssertionsHold
    <3> SUFFICES ASSUME NEW e \in Ends
                 PROVE  /\ Takes(e, "pipe_term") =>
                            pipe[e].state \in {"active", "delimiter_received", "term_req_sent1"}
                        /\ Takes(e, "pipe_term_ack") =>
                            pipe[e].state \in {"term_req_sent1", "term_ack_sent", "term_req_sent2"}
                        /\ Readable(e) => reader[e] = "active"
      BY DEF AssertionsHold
    <3>1. Takes(e, "pipe_term") => ~WasAsked(e)
      BY <2>1, <2>2 DEF MailFits
    <3>2. Takes(e, "pipe_term_ack") => Acked(Peer(e)) /\ e \notin deleted
      BY <2>1, <2>2 DEF MailFits
    <3>3. Acked(Peer(e)) /\ e \notin deleted => Asked(e) \/ Acked(e)
      BY <2>1 DEF EndFits, Acked, WasAsked
    <3>4. Readable(e) => reader[e] = "active"
      BY <2>1 DEF EndFits, Readable
    <3> QED
      BY <2>1, <3>1, <3>2, <3>3, <3>4 DEF States, Asked, WasAsked, Acked
  <2>4. NoCommandToDeleted
    <3> SUFFICES ASSUME NEW e \in deleted PROVE commands[e] = <<>> /\ pc[Peer(e)] # "activate_read"
      BY DEF NoCommandToDeleted
    <3>1. e \in Ends
      BY DEF IInv, TypeOK
    <3> QED
      BY <2>1, <3>1 DEF MailFits, EndFits
  <2>5. OutpipeIsThere
    BY <2>1 DEF OutpipeIsThere, EndFits
  <2> QED
    BY <2>3, <2>4, <2>5 DEF ProtocolKept
<1> QED
  BY <1>1, InvHolds, PTL

\* A writer is never more than the high watermark ahead of its reader: the
\* comparison by == in check_write() cannot step over it (pipe.cpp:196).
THEOREM HwmHolds == Spec => []HwmKept
<1>1. IInv => HwmKept
  <2> SUFFICES ASSUME IInv, NEW e \in Ends
               PROVE  /\ pipe[e].peers_msgs_read <= pipe[Peer(e)].msgs_read
                      /\ hwm[e] > 0 => pipe[e].msgs_written - pipe[Peer(e)].msgs_read <= hwm[e]
    BY DEF HwmKept
  <2> DEFINE p == Peer(e)
  <2>1. p \in Ends
    BY TwoEnds
  <2>2. CountsFit(e) /\ TypeOK
    BY DEF IInv, AllCountsFit
  <2> HIDE DEF p
  <2>3. /\ pipe[e].peers_msgs_read \in Nat /\ pipe[e].msgs_written \in Nat /\ hwm[e] \in Nat
        /\ pipe[p].msgs_read \in Nat
    BY <2>1, <2>2, EndType
  <2>4. /\ pipe[e].peers_msgs_read <= pipe[p].msgs_read
        /\ hwm[e] > 0 => pipe[e].msgs_written - pipe[e].peers_msgs_read <= hwm[e]
    BY <2>2 DEF CountsFit, p
  <2>5. hwm[e] > 0 => pipe[e].msgs_written - pipe[p].msgs_read <= hwm[e]
    BY <2>3, <2>4
  <2> QED
    BY <2>4, <2>5 DEF p
<1> QED
  BY <1>1, InvHolds, PTL

\* An end that has acknowledged the termination and was never told not to wait
\* has read all its peer wrote: the delimiter is behind every message, and the
\* end waits for it (pipe.cpp:293-317, 370-406, 470-482).
THEOREM NothingLostHolds == Spec => []NothingLost
<1>1. IInv => NothingLost
  BY DEF IInv, AllReadFit, AllRead, NothingLost
<1> QED
  BY <1>1, InvHolds, PTL

\* No wake-up of a reader is lost: one that sleeps has nothing to read, and one
\* that was called is being told, by its peer's flush() or by a command
\* (pipe.cpp:130-141, 223-231, 243-249).
THEOREM WakeUpHolds == Spec => []WakeUpOnItsWay
<1>1. IInv => WakeUpOnItsWay
  BY DEF IInv
<1> QED
  BY <1>1, InvHolds, PTL

\* No writer is stopped for good.  While one that may write is stopped at the
\* high watermark, its peer has messages left to read, or the last of them made
\* the peer send a count that is on its way: the low watermark, at whose
\* multiples counts are sent, is never above the high one (pipe.cpp:185-187,
\* 251-260, 442-468).
CreditOnItsWay ==
    \A e \in Ends : pipe[e].state = "active" /\ ~pipe[e].out_active =>
        \/ Has(commands[e], "activate_write")
        \/ pipe[e].msgs_written > pipe[Peer(e)].msgs_read

THEOREM CreditHolds == Spec => []CreditOnItsWay
<1>1. IInv => CreditOnItsWay
  <2> SUFFICES ASSUME IInv, NEW e \in Ends, pipe[e].state = "active", ~pipe[e].out_active,
                      ~Has(commands[e], "activate_write")
               PROVE  pipe[e].msgs_written > pipe[Peer(e)].msgs_read
    BY DEF CreditOnItsWay
  <2> DEFINE p == Peer(e)
  <2>1. CreditFits(e) /\ TypeOK /\ p \in Ends
    BY TwoEnds DEF IInv, CreditsFit
  <2>2. hwm[e] > 0 /\ pipe[e].msgs_written - pipe[e].peers_msgs_read = hwm[e]
    BY <2>1 DEF CreditFits
  <2>3. PICK c \in Nat : Credit(e, c)
    BY <2>1, <2>2 DEF CreditFits
  <2>4. ~HasCount(commands[e], c)
    BY DEF Has, HasCount
  <2>5. c = pipe[e].peers_msgs_read /\ pipe[p].msgs_read < c + lwm(p)
    BY <2>3, <2>4 DEF Credit
  <2>6. lwm(p) \in Nat /\ lwm(p) <= hwm[e]
    BY <2>2, LowWatermark
  <2> HIDE DEF p
  <2>7. /\ pipe[e].msgs_written \in Nat /\ pipe[p].msgs_read \in Nat /\ hwm[e] \in Nat
        /\ pipe[e].peers_msgs_read \in Nat
    BY <2>1, EndType
  <2>8. pipe[e].msgs_written > pipe[p].msgs_read
    BY <2>2, <2>5, <2>6, <2>7
  <2> QED
    BY <2>8 DEF p
<1> QED
  BY <1>1, InvHolds, PTL
=============================================================================
